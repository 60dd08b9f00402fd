---------------------------- MODULE CudaArgument ----------------------------
(***************************************************************************)
(* An argument of a CUDA kernel (common/control/argument_base.cpp,         *)
(* cuda/control/argument.cpp) with its controller: a block of device       *)
(* memory, and the host buffer or raw memory it is said to mirror.         *)
(*                                                                         *)
(* Every call to the CUDA runtime may fail.  A call that fails may leave   *)
(* its copy torn; the argument has to stay one that can be used again.     *)
(***************************************************************************)
EXTENDS CudaController

CONSTANTS
    Contents,       \* what a buffer of objects may hold
    RawContents,    \* what raw memory may hold
    SizeOf,         \* content -> its size
    Buffers,        \* buffers of the host
    Raws,           \* raw memory of the host
    Room            \* place in the host -> its capacity

Places == Buffers \cup Raws
Values == Contents \cup RawContents

None    == "none"       \* a null pointer
Nothing == "nothing"    \* memory nobody has written
Torn    == "torn"       \* the end of a copy that failed

\* A buffer has room for more than it holds; raw memory is one object.
Fits(p) == IF p \in Buffers THEN {v \in Contents : SizeOf[v] <= Room[p]}
                            ELSE {v \in RawContents : SizeOf[v] = Room[p]}

ASSUME ArgumentAssumption ==
    /\ SizeOf \in [Values -> Nat \ {0}] /\ Room \in [Places -> Nat]
    /\ Contents \cap RawContents = {} /\ Buffers \cap Raws = {}
    /\ None \notin Places /\ {Nothing, Torn} \cap Values = {} /\ Torn # Nothing
    /\ \A p \in Places : Fits(p) # {}

VARIABLES
    host,       \* place -> what it holds
    arg,        \* the members of the argument and the memory it owns
    sent        \* what the caller has been told is on the device, and from where

argVars == <<host, arg, sent>>
vars == <<ctrlVars, argVars>>

\* An argument without memory.  cxx, c and raw: the host memory it mirrors, as
\* a C++ buffer, as a C buffer and as raw memory.  mapped: the addresses in
\* the objects on the device are those of the device.
NewArgument ==
    [cxx |-> None, c |-> None, raw |-> None, size |-> 0, capacity |-> 0,
     holds |-> Nothing, mapped |-> FALSE]

NotSent == [value |-> Nothing, from |-> None]

\* Host memory is read and written as one with the argument.
Result(h, a, ok) == [host |-> h, arg |-> a, ok |-> ok]

-----------------------------------------------------------------------------
(* Memory.                                                                 *)

\* doDeleteCudaArgumentBuffer, when there is one, and the new block.  "fault"
\* is the call to the runtime that fails.
Reserved(a, size, fault) ==
    IF size <= a.capacity THEN Result(host, a, TRUE)
    ELSE IF fault = "alloc" THEN Result(host, a, FALSE)
    ELSE Result(host,
                [IF a.capacity = 0 THEN a ELSE NewArgument EXCEPT
                    !.capacity = size, !.holds = Nothing, !.mapped = FALSE], TRUE)

Copied(a, v, fault) ==
    IF fault = "copy"
    THEN Result(host, [a EXCEPT !.holds = Torn, !.mapped = FALSE], FALSE)
    ELSE Result(host, [a EXCEPT !.holds = v, !.mapped = FALSE], TRUE)

\* doRemapCObjectsBufferDirectly: only in debug mode does it learn of a failure.
Remapped(a, fault) ==
    IF fault = "remap" /\ ctrl.debug THEN Result(host, a, FALSE)
                                       ELSE Result(host, [a EXCEPT !.mapped = TRUE], TRUE)

\* ControllerBase::send, for a buffer and for raw memory.
Delivered(a, v, is_buffer, remap, fault) ==
    IF ReadyForRemap(ctrl) /\ SizeOf[v] <= a.capacity
       /\ (IF is_buffer THEN a.c ELSE a.raw) # None
    THEN LET copied == Copied(a, v, fault)
         IN  IF copied.ok /\ is_buffer /\ remap THEN Remapped(copied.arg, fault) ELSE copied
    ELSE Result(host, a, FALSE)

BadSizedGrowsOnly(result, v) ==
    IF result.ok /\ result.arg.size < SizeOf[v] THEN [result EXCEPT !.arg.size = SizeOf[v]]
    ELSE result

\* The size of the argument follows what was sent.
Sized(result, v) ==
    IF result.ok THEN [result EXCEPT !.arg.size = SizeOf[v]] ELSE result

-----------------------------------------------------------------------------
(* ArgumentBase::send in its overloads.                                    *)

\* doSetBufferRef and doSetPtrCBuffer.
Names(a, b, as_cxx) ==
    [a EXCEPT !.c = b, !.cxx = IF as_cxx \/ @ = b THEN b ELSE None]

\* An argument that mirrors a buffer of this kind already, and whose memory is
\* large enough, goes on naming that one.
KeepsName(a, b, as_cxx, reserved) ==
    reserved.arg.capacity = a.capacity /\ a.c # None /\ (as_cxx => a.cxx # None)

SendBuffer(b, as_cxx, remap, fault) ==
    LET a == [arg EXCEPT !.raw = None]
        reserved == Reserved(a, SizeOf[host[b]], fault)
        named == IF KeepsName(a, b, as_cxx, reserved) THEN reserved.arg
                 ELSE Names(reserved.arg, b, as_cxx)
    IN  IF reserved.ok
        THEN Sized(Delivered(named, host[b], TRUE, remap, fault), host[b])
        ELSE reserved

BadNamesNoBufferC(a) == [a EXCEPT !.c = None]

\* Sending raw memory gives up the C++ buffer or the C buffer, not both.
NamesNoBuffer(a) == [a EXCEPT !.cxx = None, !.c = IF a.cxx = None THEN None ELSE @]

SendRaw(r, fault) ==
    LET a == NamesNoBuffer(arg)
        reserved == Reserved(a, SizeOf[host[r]], fault)
        named == IF reserved.arg.raw = None THEN [reserved.arg EXCEPT !.raw = r]
                 ELSE reserved.arg
    IN  IF reserved.ok
        THEN Sized(Delivered(named, host[r], FALSE, FALSE, fault), host[r])
        ELSE reserved

\* The constructors name what they have delivered, and nothing if they fail.
\* The one for raw memory does not ask for the remap kernel.
Construct(p, as_cxx, fault) ==
    LET is_buffer == p \in Buffers
        reserved == Reserved(NewArgument, SizeOf[host[p]], fault)
        copied == Copied(reserved.arg, host[p], fault)
        done == IF copied.ok /\ is_buffer THEN Remapped(copied.arg, fault) ELSE copied
        ready == IF is_buffer THEN ReadyForRemap(ctrl) ELSE ctrl.ready
    IN  IF ~(reserved.ok /\ ready) THEN [reserved EXCEPT !.ok = FALSE]
        ELSE IF ~done.ok THEN done
        ELSE Sized([done EXCEPT !.arg = IF is_buffer THEN Names(@, p, as_cxx)
                                        ELSE [@ EXCEPT !.raw = p]], host[p])

-----------------------------------------------------------------------------
(* ArgumentBase::receive in its overloads.                                 *)

\* Whether the host can make sense of what it received: objects are remapped
\* there, and raw memory that is taken for objects is not.
Readable(p, remap) == arg.c # None /\ (p \in Raws \/ remap) => arg.holds \notin RawContents

BadReceiveRoomToSpare(p, remap, fault) ==
    IF ctrl.ready /\ arg.size > 0 /\ arg.size < Room[p] /\ (p \in Buffers => arg.c # None)
    THEN IF fault = "copy" \/ ~Readable(p, remap)
         THEN Result([host EXCEPT ![p] = Torn], arg, FALSE)
         ELSE Result([host EXCEPT ![p] = arg.holds], arg, TRUE)
    ELSE Result(host, arg, FALSE)

Receive(p, remap, fault) ==
    IF ctrl.ready /\ arg.size > 0 /\ arg.size <= Room[p] /\ (p \in Buffers => arg.c # None)
    THEN IF fault = "copy" \/ ~Readable(p, remap)
         THEN Result([host EXCEPT ![p] = Torn], arg, FALSE)
         ELSE Result([host EXCEPT ![p] = arg.holds], arg, TRUE)
    ELSE Result(host, arg, FALSE)

\* The memory the argument mirrors, as send and receive without one choose it.
Mirrored == IF arg.c # None THEN arg.c ELSE arg.raw

-----------------------------------------------------------------------------
(* Calls.                                                                  *)

\* A call ends with the first failure it meets.
Failures == {"none", "alloc", "copy", "remap"}

ArgumentInit ==
    /\ host \in [Places -> Values \cup {Torn}]
    /\ \A p \in Places : host[p] \in Fits(p)
    /\ arg = NewArgument
    /\ sent = NotSent

\* A call that sends p, and what its status makes the caller believe.
Sends(p, result) ==
    /\ arg' = result.arg
    /\ sent' = IF result.ok THEN [value |-> host[p], from |-> p] ELSE NotSent
    /\ UNCHANGED <<host, ctrlVars>>

\* Only memory that holds what it is for is sent.
Sendable(p) == p \in Places /\ host[p] \in Fits(p)

\* An argument is built without host memory (Init), or from what it is to hold.
CallConstruct(p, as_cxx) ==
    /\ arg = NewArgument /\ Sendable(p)
    /\ \E result \in {Construct(p, as_cxx, fault) : fault \in Failures} : Sends(p, result)

\* The destructor gives the memory back; the next argument is a new one.
CallDestroy ==
    /\ arg' = NewArgument
    /\ sent' = NotSent
    /\ UNCHANGED <<host, ctrlVars>>

CallSendBuffer(b, as_cxx) ==
    /\ Sendable(b)
    /\ \E result \in {SendBuffer(b, as_cxx, remap, fault) : remap \in BOOLEAN, fault \in Failures} :
            Sends(b, result)

CallSendRaw(r) ==
    /\ Sendable(r)
    /\ \E result \in {SendRaw(r, fault) : fault \in Failures} : Sends(r, result)

\* send without a source.  For raw memory it takes the size of the argument:
\* after a failure that may be the size of something else, and is past the
\* end of the memory.
CallSendMirrored ==
    /\ Sendable(Mirrored)
    /\ IF arg.c # None
       THEN CallSendBuffer(arg.c, arg.cxx # None)
       ELSE arg.size = SizeOf[host[arg.raw]] /\ CallSendRaw(arg.raw)

CallReceive(p) ==
    /\ host' \in {Receive(p, remap, fault).host : remap \in BOOLEAN, fault \in {"none", "copy"}}
    /\ UNCHANGED <<arg, sent, ctrlVars>>

CallReceiveMirrored ==
    /\ Mirrored # None
    /\ arg.c = None => arg.size <= Room[arg.raw]
    /\ CallReceive(Mirrored)

CallRemap ==
    /\ arg.c # None /\ ReadyForRemap(ctrl) /\ arg.capacity > 0 /\ arg.holds \in Contents
    /\ arg' \in {Remapped(arg, fault).arg : fault \in {"none", "remap"}}
    /\ UNCHANGED <<host, sent, ctrlVars>>

\* A kernel works on the objects on the device, which keep their size.
KernelRuns(v) ==
    /\ ctrl.ready /\ arg.size > 0 /\ arg.mapped
    /\ arg.holds \in Contents /\ SizeOf[v] = SizeOf[arg.holds]
    /\ arg' = [arg EXCEPT !.holds = v]
    /\ sent' = IF sent = NotSent THEN sent ELSE [sent EXCEPT !.value = v]
    /\ UNCHANGED <<host, ctrlVars>>

HostWrites(p, v) ==
    /\ v \in Fits(p) \ {host[p]}
    /\ host' = [host EXCEPT ![p] = v]
    /\ UNCHANGED <<arg, sent, ctrlVars>>

ControllerStep == ControllerNext /\ UNCHANGED argVars

Init == ControllerInit /\ ArgumentInit

Next ==
    \/ ControllerStep
    \/ \E p \in Places, as_cxx \in BOOLEAN : CallConstruct(p, as_cxx)
    \/ CallDestroy
    \/ \E b \in Buffers, as_cxx \in BOOLEAN : CallSendBuffer(b, as_cxx)
    \/ \E r \in Raws : CallSendRaw(r)
    \/ \E p \in Places : CallReceive(p)
    \/ CallSendMirrored
    \/ CallReceiveMirrored
    \/ CallRemap
    \/ \E v \in Contents : KernelRuns(v)
    \/ \E p \in Places : \E v \in Fits(p) : HostWrites(p, v)

Spec == Init /\ [][Next]_vars

-----------------------------------------------------------------------------
TypeOK ==
    /\ ControllerTypeOK
    /\ host \in [Places -> Values \cup {Torn}]
    /\ arg \in [cxx : Buffers \cup {None}, c : Buffers \cup {None}, raw : Raws \cup {None},
                size : Nat, capacity : Nat, holds : Values \cup {Nothing, Torn},
                mapped : BOOLEAN]
    /\ sent \in [value : Values \cup {Nothing}, from : Places \cup {None}]

\* The C++ buffer an argument names is the one its C pointer names, as
\* argument_base.cpp:347 and :372 assert, whatever was sent or failed before.
NamesAgree == arg.cxx # None => arg.c = arg.cxx

\* What a caller has been told is on the device is there, whole and inside the
\* memory of the argument: no earlier or later failure, growth or change of
\* node puts it in doubt (send, the constructors, doReserveArgumentBuffer).
SentIsHeld ==
    sent # NotSent =>
        /\ arg.holds = sent.value
        /\ arg.size = SizeOf[sent.value] /\ arg.size <= arg.capacity

\* What is on the device can be fetched: into every buffer with room for it,
\* if buffers are what the argument mirrors, and into raw memory otherwise.
\* It needs the controller to be ready, and a call that does not fail (receive).
SentIsRetrievable ==
    sent # NotSent /\ (arg.raw = None \/ arg.c = None) =>
        \A p \in Places :
            LET received == Receive(p, TRUE, "none")
            IN  /\ received.ok => received.host[p] = sent.value
                /\ (ctrl.ready /\ SizeOf[sent.value] <= Room[p]
                    /\ (p \in Buffers <=> arg.c # None)) => received.ok

\* What test_argument_cxx.cpp expects of an argument after it has sent: it
\* mirrors what was sent, and nothing else.
SentIsNamed ==
    sent # NotSent =>
        /\ sent.from \in Buffers => arg.c = sent.from /\ arg.raw = None
        /\ sent.from \in Raws    => arg.raw = sent.from /\ arg.c = None
=============================================================================
