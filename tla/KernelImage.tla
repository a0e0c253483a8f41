---------------------------- MODULE KernelImage ----------------------------
(***************************************************************************)
(* LoadKernel() of LoaderPkg/Loader/Bootloader.c with the functions it     *)
(* reads the file by: it opens the kernel, checks its ELF header, copies   *)
(* its debug sections to pages of their own and its segments to the        *)
(* addresses they are linked at.  Every call of the firmware may fail.     *)
(***************************************************************************)
EXTENDS Integers, Sequences, FiniteSets, SequencesExt

CONSTANTS
  Images,       \* the kernel files: their header, section names and segments
  Tables,       \* mDebugMapping[], the names of the debug sections
  MaxFailures   \* bound: how many calls of the firmware fail

ASSUME TablesAssumption == Tables \in Seq(STRING) /\ Len(Tables) > 1

\* A segment has no more bytes in the file than in memory (the ELF format).
Segments == {s \in [load : BOOLEAN, pa : Nat, filesz : Nat, memsz : Nat] : s.filesz <= s.memsz}
ASSUME ImagesAssumption == \A g \in Images : g.sections \in Seq(STRING) /\ g.segments \in Seq(Segments)

VARIABLES
  image,        \* the kernel file
  kiPc,         \* where LoadKernel() is
  kiStatus,     \* its Status
  Index,        \* its loop variable, from 1
  Index2,       \* the loop variable of the search, 0 while it has no value
  held,         \* what has been allocated or opened, and not given back
  copies,       \* the sections whose copies hold pages
  tables,       \* LoaderParams->Debug...Start: the section each table is a copy of, or 0
  memory,       \* what is at the addresses of the kernel
  failures

kiVars == <<image, kiPc, kiStatus, Index, Index2, held, copies, tables, memory, failures>>

ImageStart(images) ==
  /\ image \in images
  /\ kiPc = "open" /\ kiStatus = "success" /\ Index = 1 /\ Index2 = 0
  /\ held = {} /\ copies = {} /\ tables = [t \in ToSet(Tables) |-> 0] /\ memory = <<>>
  /\ failures = 0
KernelImageInit == ImageStart(Images)

Fails == failures < MaxFailures /\ failures' = failures + 1
Works == failures' = failures

Return(status, released) ==
  /\ kiPc' = "returned" /\ kiStatus' = status /\ held' = held \ released
  /\ UNCHANGED <<Index, Index2, copies, tables, memory>>
GoOn(pc, got) ==
  /\ kiPc' = pc /\ held' = held \cup got
  /\ UNCHANGED <<kiStatus, Index, Index2, copies, tables, memory>>

\* The root directory stays open when there is no kernel in it.
GetKernelFile ==
  /\ kiPc = "open"
  /\ \/ Fails /\ Return("error", {})
     \/ Fails /\ kiPc' = "returned" /\ kiStatus' = "error" /\ held' = held \cup {"root"}
              /\ UNCHANGED <<Index, Index2, copies, tables, memory>>
     \/ Works /\ GoOn("header", {"file"})

\* Magic, size of the headers and index of the names, in this order.
ReadHeader ==
  /\ kiPc = "header"
  /\ \/ Fails /\ Return("error", {"file"})
     \/ Works /\ image.header # "good" /\ Return("error", {"file"})
     \/ Works /\ image.header = "good" /\ GoOn("pool", {})

WithoutHeaders == {"file", "sections"}

AllocatePools ==
  \/ /\ kiPc = "pool"
     /\ \/ Fails /\ Return("error", {"file"})
        \/ Works /\ GoOn("pool2", {"sections"})
  \/ /\ kiPc = "pool2"
     /\ \/ Fails /\ Return("error", WithoutHeaders)
        \/ Works /\ GoOn("read", {"headers"})

ReadTables ==
  \/ /\ kiPc = "read"
     /\ \/ Fails /\ Return("error", {"file", "sections", "headers"})
        \/ Works /\ GoOn("read2", {})
  \/ /\ kiPc = "read2"
     /\ \/ Fails /\ Return("error", {"file", "sections", "headers"})
        \/ Works /\ GoOn("name", {})

\* The status of the last section decides: the others leave the inner loop only.
NextName ==
  /\ kiPc = "name"
  /\ \/ /\ Index > Len(image.sections) /\ Works
        /\ kiPc' = IF kiStatus = "error" THEN "free" ELSE "allocate"
        /\ UNCHANGED kiStatus
     \/ /\ Index <= Len(image.sections) /\ Fails
        /\ kiPc' = "free" /\ kiStatus' = "error"
     \/ /\ Index <= Len(image.sections) /\ Works
        /\ kiPc' = "search" /\ kiStatus' = "success"
  /\ UNCHANGED <<Index, Index2, held, copies, tables, memory>>

PlaceOf(name) ==
  IF name \in ToSet(Tables) THEN CHOOSE t \in 1..Len(Tables) : Tables[t] = name
                            ELSE Len(Tables) + 1

CopySection ==
  /\ kiPc = "search"
  /\ LET name == image.sections[Index] IN
     /\ Index2' = PlaceOf(name)
     /\ \/ /\ Index2' > Len(Tables) /\ Works
           /\ UNCHANGED <<kiStatus, copies, tables>>
        \/ \* no memory, or the section cannot be read and its pages are freed
           /\ Index2' <= Len(Tables) /\ Fails
           /\ kiStatus' = "error"
           /\ UNCHANGED <<copies, tables>>
        \/ /\ Index2' <= Len(Tables) /\ Works
           /\ copies' = copies \cup {Index}
           /\ tables' = [tables EXCEPT ![name] = Index]
           /\ UNCHANGED kiStatus
  /\ Index' = Index + 1 /\ kiPc' = "name"
  /\ UNCHANGED <<held, memory>>

Loaded == {s \in ToSet(image.segments) : s.load}
MutantFileEnd(s) == s.pa + s.filesz
EndOf(s)   == s.pa + s.memsz
MinAddress == Min({s.pa : s \in Loaded})
MaxAddress == Max({EndOf(s) : s \in Loaded})
HasSize    == Loaded # {} /\ MaxAddress > MinAddress

AllocateKernel ==
  /\ kiPc = "allocate"
  /\ \/ /\ HasSize => Fails
        /\ ~HasSize => Works
        /\ kiPc' = "free" /\ kiStatus' = "error"
        /\ UNCHANGED <<Index, held, memory>>
     \/ /\ HasSize /\ Works
        /\ held' = held \cup {"kernel"}
        /\ memory' = [a \in MinAddress..(MaxAddress - 1) |-> 0]
        /\ kiPc' = "segment" /\ Index' = 1
        /\ UNCHANGED kiStatus
  /\ UNCHANGED <<Index2, copies, tables>>

KernelPages == {"kernel"}

ReadSegment ==
  /\ kiPc = "segment"
  /\ \/ /\ Index > Len(image.segments) /\ Works
        /\ kiPc' = "free"
        /\ UNCHANGED <<kiStatus, Index, held, memory>>
     \/ /\ Index <= Len(image.segments)
        /\ LET s == image.segments[Index] IN
           \/ /\ ~(s.load /\ s.filesz > 0) /\ Works
              /\ Index' = Index + 1
              /\ UNCHANGED <<kiPc, kiStatus, held, memory>>
           \/ /\ s.load /\ s.filesz > 0 /\ Works
              /\ memory' = [a \in DOMAIN memory |->
                              IF a \in s.pa..(s.pa + s.filesz - 1) THEN Index ELSE memory[a]]
              /\ Index' = Index + 1
              /\ UNCHANGED <<kiPc, kiStatus, held>>
           \/ /\ s.load /\ s.filesz > 0 /\ Fails
              /\ held' = held \ KernelPages
              /\ kiPc' = "free" /\ kiStatus' = "error"
              /\ UNCHANGED <<Index, memory>>
  /\ UNCHANGED <<Index2, copies, tables>>

\* The loop runs over Index and frees what Index2 was left at: one section, as
\* often as there are tables.  Index2 is past them if the last section was no
\* table, and has no value if no name was read: the
\* loop frees then no copy, or any one.
GiveBack ==
  /\ kiPc = "free" /\ Works
  /\ IF kiStatus = "success"
       THEN Return("success", {"sections", "headers"})
       ELSE \E t \in IF Index2 = 0 THEN 1..(Len(Tables) + 1) ELSE {Index2} :
              LET freed == IF t > Len(Tables) THEN 0 ELSE tables[Tables[t]] IN
              /\ held' = held \ {"sections", "headers"} /\ copies' = copies \ {freed}
              /\ kiPc' = "returned"
              /\ UNCHANGED <<kiStatus, Index, Index2, tables, memory>>

LoadKernel == /\ \/ GetKernelFile \/ ReadHeader \/ AllocatePools \/ ReadTables \/ NextName
                 \/ CopySection \/ AllocateKernel \/ ReadSegment \/ GiveBack
              /\ UNCHANGED image

-----------------------------------------------------------------------------

Returned == kiPc = "returned"

\* `Free allocated memory on error' (Bootloader.c:845): when LoadKernel() fails it
\* holds no copy of a section any more.
FreedOnError == Returned /\ kiStatus = "error" => copies = {}

\* On every way out of LoadKernel() the two arrays of headers are free, and the
\* pages of the kernel are held exactly if it has been loaded.
PoolsFreed == Returned => /\ {"sections", "headers"} \cap held = {}
                          /\ "kernel" \in held <=> kiStatus = "success"

\* A kernel that is reported as loaded lies within the pages that were allocated,
\* each segment whole: its bytes from the file, those of later segments where they
\* overlap, and zeros up to its size in memory.
LoadedWhole == Returned /\ kiStatus = "success" =>
  \A s \in Loaded : \A a \in s.pa..(s.pa + s.memsz - 1) :
    LET over == {i \in 1..Len(image.segments) :
                   LET q == image.segments[i] IN q.load /\ a \in q.pa..(q.pa + q.filesz - 1)}
    IN a \in DOMAIN memory /\ memory[a] = IF over = {} THEN 0 ELSE Max(over)

\* The kernel finds a debug table only where a copy of it is, and every table of
\* the file if no call of the firmware failed (a failure is forgotten with the next
\* name that is read).
TablesSound == Returned /\ kiStatus = "success" =>
  \A t \in ToSet(Tables) :
    /\ tables[t] # 0 => tables[t] \in copies /\ image.sections[tables[t]] = t
    /\ failures = 0 /\ t \in ToSet(image.sections) => tables[t] # 0
=============================================================================
