------------------------------- MODULE GpuInit -------------------------------
(***************************************************************************)
(* init_gpu() of kern/virtio-gpu.c: it walks the capability list of the    *)
(* device, finds its registers there, and sets the device up the way       *)
(* virtio asks for (parse_common_cfg(), setup_queue()).  The device is     *)
(* asked for the size of its display as soon as the list ends.             *)
(***************************************************************************)
EXTENDS Integers, Sequences

CONSTANTS
  CapLists,   \* the capability lists the device may have, sequences of Kinds
  BarAddr,    \* the address in the base address register of the capabilities
  NotifyAt,   \* the offset of the k-th capability within it
  QueueOff    \* queue_notify_off * notify_off_multiplier

\* PCI_CAP_VENDSPEC capabilities by their type, and all the others.
Kinds == {"common", "notify", "isr", "device", "pci_cfg", "other"}

\* A list has its capabilities in any order, but one of type common at most.
ASSUME CapAssumption ==
  /\ \A c \in CapLists :
       c \in Seq(Kinds) /\ \A j, k \in DOMAIN c : c[j] = "common" /\ c[k] = "common" => j = k
  /\ BarAddr \in Nat /\ NotifyAt \in Nat /\ QueueOff \in Nat

VARIABLES
  giPc,          \* where init_gpu() or parse_common_cfg() is
  caps, cap_offset, cap_header,   \* the list, what comes next (0: nothing), what was read
  notify_cap,    \* the capability of notify_cap_offset, 0 if there was none yet
  notify_reg,    \* gpu.controlq.notify_reg
  setUp,         \* the queues of the driver that setup_queue() has filled
  status,        \* device_status, a set of the bits VIRTIO_STATUS_...
  resetting,     \* the device has not finished the reset
  enabled        \* the queues the device has been given

giVars == <<giPc, caps, cap_offset, cap_header, notify_cap, notify_reg, setUp, status, resetting, enabled>>
device == <<status, resetting, enabled>>
walk   == <<caps, cap_offset, cap_header, notify_cap, notify_reg>>

\* The firmware may have used the device.
GpuInitInit ==
  /\ giPc = "off" /\ caps = <<>> /\ cap_offset = 0 /\ cap_header = 0
  /\ notify_cap = 0 /\ notify_reg = 0 /\ setUp = {}
  /\ status = {"ACKNOWLEDGE", "DRIVER", "FEATURES_OK", "DRIVER_OK"}
  /\ resetting = FALSE /\ enabled = {"control"}

FindDevice ==
  /\ giPc = "off"
  /\ caps' \in CapLists
  /\ cap_offset' = IF caps' = <<>> THEN 0 ELSE 1
  /\ giPc' = "outer"
  /\ UNCHANGED <<cap_header, notify_cap, notify_reg, setUp, device>>

AtEnd(k) == k = 0

ListEnds ==
  /\ giPc = "outer" /\ AtEnd(cap_offset)
  /\ giPc' = "get_display_info"
  /\ UNCHANGED <<walk, setUp, device>>

Search ==
  /\ giPc = "outer" /\ ~AtEnd(cap_offset)
  /\ giPc' = "inner"
  /\ UNCHANGED <<walk, setUp, device>>

CapNext(k) == IF k = Len(caps) THEN 0 ELSE k + 1

\* `Search for vendor specific header': the loop does not look for the end.
ReadCapHeader ==
  /\ giPc = "inner" /\ cap_offset # 0
  /\ cap_header' = cap_offset
  /\ cap_offset' = CapNext(cap_offset)
  /\ giPc' = IF caps[cap_offset] = "other" THEN "inner" ELSE "switch"
  /\ UNCHANGED <<caps, notify_cap, notify_reg, setUp, device>>

\* It reads the identifiers of the device as a capability, whose successor would
\* be at 0x1a: pci_conf_read_sized() asserts that four bytes are aligned.
ReadPastEnd ==
  /\ giPc = "inner" /\ cap_offset = 0
  /\ giPc' = "panic"
  /\ UNCHANGED <<walk, setUp, device>>

Kind == caps[cap_header]

MutantSecondNotify(k) == TRUE
FirstNotify(k) == notify_cap = 0

SwitchNotify ==
  /\ giPc = "switch" /\ Kind = "notify"
  /\ IF FirstNotify(cap_header)
     THEN /\ notify_cap' = cap_header
          /\ notify_reg' = notify_reg + BarAddr
     ELSE UNCHANGED <<notify_cap, notify_reg>>
  /\ giPc' = "outer"
  /\ UNCHANGED <<caps, cap_offset, cap_header, setUp, device>>

\* Without a notify capability so far, offset and multiplier are zero.
SwitchCommon ==
  /\ giPc = "switch" /\ Kind = "common"
  /\ notify_reg' = notify_reg + (IF notify_cap = 0 THEN 0 ELSE NotifyAt * notify_cap + QueueOff)
  /\ giPc' = "reset"
  /\ UNCHANGED <<caps, cap_offset, cap_header, notify_cap, setUp, device>>

SwitchOther ==
  /\ giPc = "switch" /\ Kind \notin {"notify", "common"}
  /\ giPc' = "outer"
  /\ UNCHANGED <<walk, setUp, device>>

-----------------------------------------------------------------------------
(* parse_common_cfg(), and the device.                                     *)

Reset ==
  /\ giPc = "reset"
  /\ resetting' = TRUE
  /\ giPc' = "wait"
  /\ UNCHANGED <<walk, setUp, status, enabled>>

\* The device takes its time, and forgets everything.
DeviceResets ==
  /\ resetting
  /\ resetting' = FALSE /\ status' = {} /\ enabled' = {}
  /\ UNCHANGED <<giPc, walk, setUp>>

ResetDone(s) == s = {}

Acknowledge ==
  /\ giPc = "wait" /\ ResetDone(status)
  /\ status' = status \cup {"ACKNOWLEDGE", "DRIVER"}
  /\ giPc' = "features"
  /\ UNCHANGED <<walk, setUp, resetting, enabled>>

\* All features are accepted; the device says whether it can work with that.
OfferFeatures ==
  /\ giPc = "features"
  /\ \E ok \in BOOLEAN : status' = IF ok THEN status \cup {"FEATURES_OK"} ELSE status
  /\ giPc' = "check"
  /\ UNCHANGED <<walk, setUp, resetting, enabled>>

FeaturesOk(s) == "FEATURES_OK" \in s

CheckFeatures ==
  /\ giPc = "check"
  /\ IF FeaturesOk(status) THEN giPc' = "setup_queue" /\ UNCHANGED status
     ELSE giPc' = "outer" /\ status' = status \cup {"FAILED"}
  /\ UNCHANGED <<walk, setUp, resetting, enabled>>

\* The cursor queue first, then the control queue.
NextQueue == IF "cursor" \in enabled THEN "control" ELSE "cursor"

SetupQueue ==
  /\ giPc = "setup_queue" /\ "control" \notin enabled
  /\ enabled' = enabled \cup {NextQueue}
  /\ setUp' = setUp \cup {NextQueue}
  /\ UNCHANGED <<giPc, walk, status, resetting>>

DriverOk ==
  /\ giPc = "setup_queue" /\ "control" \in enabled
  /\ status' = status \cup {"DRIVER_OK"}
  /\ giPc' = "outer"
  /\ UNCHANGED <<walk, setUp, resetting, enabled>>

-----------------------------------------------------------------------------
\* get_display_info() sends its command, whatever the walk has found.  If setup_queue()
\* has not filled the control queue, alloc_desc() returns NULL, the descriptor is
\* written at address 0, and the device is told to look at the queue all the same.
Kick ==
  /\ giPc = "get_display_info"
  /\ giPc' = "kick"
  /\ UNCHANGED <<walk, setUp, device>>

Driver ==
  \/ FindDevice \/ ListEnds \/ Search \/ ReadCapHeader \/ ReadPastEnd
  \/ SwitchNotify \/ SwitchCommon \/ SwitchOther
  \/ Reset \/ Acknowledge \/ OfferFeatures \/ CheckFeatures \/ SetupQueue \/ DriverOk
  \/ Kick

GpuInitNext     == Driver \/ DeviceResets
GpuInitFairness == WF_giVars(Driver) /\ WF_giVars(DeviceResets)
GpuInitSpec     == GpuInitInit /\ [][GpuInitNext]_giVars /\ GpuInitFairness

-----------------------------------------------------------------------------
(* Properties.                                                             *)

\* A device that has shown its common registers and has agreed to the features gets its
\* first command only when it has been reset, has the queue, with descriptors for the
\* driver to take, and has been told that the driver is there.
KickOnlyWhenReady ==
  giPc = "kick" /\ (\E k \in DOMAIN caps : caps[k] = "common") /\ "FAILED" \notin status =>
    /\ ~resetting /\ "control" \in enabled \cap setUp
    /\ status = {"ACKNOWLEDGE", "DRIVER", "FEATURES_OK", "DRIVER_OK"}

\* A device that did not agree to the features, which the driver has told that it
\* gives up (virtio-gpu.c:105), is kicked all the same; but then it has been given no
\* queue to look at, and not been told that the driver is ready.
RefusedHasNoQueue ==
  giPc = "kick" /\ "FAILED" \in status => enabled = {} /\ "DRIVER_OK" \notin status

Before(x, y) == \E j, k \in DOMAIN caps : j < k /\ caps[j] = x /\ caps[k] = y

\* The notify register is the one of the first notify capability, in whichever
\* order the list has it, as long as it is before the only common one (notify_reg
\* is added to, virtio-gpu.c:186 and 200).
NotifyRight ==
  giPc = "kick" /\ ~Before("common", "notify") /\ Before("notify", "common") =>
    notify_reg = BarAddr + NotifyAt * notify_cap + QueueOff

\* Setting up the device comes to an end, without a panic if the last capability
\* is one of virtio's (the loop at virtio-gpu.c:167 looks for one after the end).
InitEnds == (giPc = "outer") ~> (giPc \in {"kick", "panic"})

NoPanic == caps # <<>> /\ caps[Len(caps)] # "other" => giPc # "panic"

\* The first command goes to a device that is ready, or has refused and has no queue, at
\* its notify register, and the search for that register stays on the list.
DeviceReady == KickOnlyWhenReady /\ RefusedHasNoQueue /\ NotifyRight /\ NoPanic
=============================================================================
