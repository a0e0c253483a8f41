---------------------------- MODULE MCVirtQueue ----------------------------
(***************************************************************************)
(* Two queues: one with a device of any speed, as the constants of         *)
(* VirtQueue have it, and one with a serial device whose configuration     *)
(* never changes.  Four descriptors and indices of three bits, so that     *)
(* both the ring and its index wrap around; two commands, and two stack    *)
(* frames for their buffers.                                               *)
(***************************************************************************)
EXTENDS VirtQueue

VARIABLE kind   \* the device: "any" or "serial"

Serial == INSTANCE VirtQueue WITH SerialIsr <- TRUE, ConfigEvents <- FALSE

mcVars == <<kind, vars>>

MCVirtQueueInit == kind \in {"any", "serial"} /\ Init

With(k, A) == kind = k /\ A /\ UNCHANGED kind

MCVirtQueueNext == With("any", Next) \/ With("serial", Serial!Next)

MCVirtQueueSpec ==
  /\ MCVirtQueueInit /\ [][MCVirtQueueNext]_mcVars
  /\ WF_mcVars(With("any", DriverStep)) /\ WF_mcVars(With("any", DeviceStep))
  /\ WF_mcVars(With("serial", Serial!DriverStep)) /\ WF_mcVars(With("serial", Serial!DeviceStep))

\* A device that finishes a request before it answers a read of the interrupt status,
\* and reports no configuration change, makes irq_handler() recycle every answer.
SerialLosesNone == kind = "serial" => NoneLost
=============================================================================
