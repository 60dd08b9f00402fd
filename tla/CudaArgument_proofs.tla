------------------------ MODULE CudaArgument_proofs ------------------------
(***************************************************************************)
(* Proofs about CudaController and CudaArgument: for any number of nodes,  *)
(* any buffers, sizes and capacities, and whatever calls fail.             *)
(***************************************************************************)
EXTENDS CudaArgument, TLAPS

-----------------------------------------------------------------------------
(* The controller.                                                         *)

Controller ==
    [available : {Nodes, {}}, selected : Nodes \cup {NoNode}, device : Nodes,
     ready : BOOLEAN, debug : BOOLEAN, kernels : Seq([kind : Kinds, node : Nodes]),
     remap_id : Nat, remap_debug_id : Nat]

\* The kernel an id names is of this kind and for the selected node.
KernelIs(c, id, kind) ==
    HasKernel(c, id) /\ c.kernels[id] = [kind |-> kind, node |-> c.selected]

\* What is inductive: a selected node is available and the remap kernels are
\* for it.  The device of the runtime is not part of it, since a change from a
\* stale index takes it elsewhere.
Sound(c) ==
    /\ c \in Controller
    /\ c.selected # NoNode =>
            /\ c.selected \in c.available
            /\ KernelIs(c, c.remap_id, "remap")
            /\ KernelIs(c, c.remap_debug_id, "remap_debug")

ControllerInv == Sound(ctrl) /\ dead \in SUBSET Nodes

\* Appending a kernel keeps those that are there.
LEMMA KernelAppended ==
    ASSUME NEW c \in Controller, c.selected \in Nodes, NEW kind \in Kinds
    PROVE  LET d == WithKernel(c, kind)
           IN  /\ d \in Controller
               /\ Len(d.kernels) = Len(c.kernels) + 1
               /\ KernelIs(d, Len(d.kernels), kind)
               /\ d = [c EXCEPT !.kernels = d.kernels]
               /\ \A id \in Nat, k \in Kinds : KernelIs(c, id, k) => KernelIs(d, id, k)
<1> DEFINE d == WithKernel(c, kind)
           k == [kind |-> kind, node |-> c.selected]
<1>1. k \in [kind : Kinds, node : Nodes]
  OBVIOUS
<1>2. d.kernels = Append(c.kernels, k) /\ c.kernels \in Seq([kind : Kinds, node : Nodes])
  BY DEF WithKernel, Controller
<1>a. /\ Append(c.kernels, k) \in Seq([kind : Kinds, node : Nodes])
      /\ Len(Append(c.kernels, k)) = Len(c.kernels) + 1
  BY <1>1, <1>2
<1>b. d = [c EXCEPT !.kernels = Append(c.kernels, k)]
  BY DEF WithKernel
<1>3. d \in Controller /\ d.selected = c.selected /\ Len(d.kernels) = Len(c.kernels) + 1
  <2> HIDE DEF d, k
  <2> QED
    BY <1>a, <1>b DEF Controller
<1>4. KernelIs(d, Len(d.kernels), kind)
  BY <1>1, <1>2, <1>3 DEF KernelIs, HasKernel
<1>5. ASSUME NEW id \in Nat, NEW j \in Kinds, KernelIs(c, id, j)
      PROVE  KernelIs(d, id, j)
  BY <1>1, <1>2, <1>3, <1>5 DEF KernelIs, HasKernel
<1>6. d = [c EXCEPT !.kernels = d.kernels]
  BY DEF WithKernel, Controller
<1> QED
  BY <1>3, <1>4, <1>5, <1>6

\* The remap kernels are appended for the node that has just been selected.
LEMMA RemapKernelsAppended ==
    ASSUME NEW c \in Controller, c.selected \in c.available, c.selected \in Nodes
    PROVE  /\ Sound(WithRemapKernels(c))
           /\ WithRemapKernels(c).selected = c.selected
           /\ WithRemapKernels(c).device = c.device
           /\ WithRemapKernels(c).available = c.available
<1> DEFINE one == WithKernel(c, "remap")
           two == WithKernel(one, "remap_debug")
           d == WithRemapKernels(c)
<1>0. "remap" \in Kinds /\ "remap_debug" \in Kinds
  BY DEF Kinds
<1>1. /\ one \in Controller /\ one.selected = c.selected /\ one.device = c.device
      /\ one.available = c.available /\ KernelIs(one, Len(one.kernels), "remap")
  BY <1>0, KernelAppended DEF Controller
<1>2. /\ two \in Controller /\ two.selected = c.selected /\ two.device = c.device
      /\ two.available = c.available
      /\ KernelIs(two, Len(two.kernels), "remap_debug")
      /\ KernelIs(two, Len(one.kernels), "remap")
  <2> HIDE DEF one
  <2>1. Len(one.kernels) \in Nat /\ one.selected \in Nodes
    BY <1>1 DEF Controller
  <2>2. /\ two \in Controller /\ KernelIs(two, Len(two.kernels), "remap_debug")
        /\ two = [one EXCEPT !.kernels = two.kernels]
        /\ KernelIs(two, Len(one.kernels), "remap")
    BY <1>0, <1>1, <2>1, KernelAppended
  <2> HIDE DEF two
  <2> QED
    BY <1>1, <2>2 DEF Controller
<1>3. d = [two EXCEPT !.remap_id = Len(one.kernels), !.remap_debug_id = Len(two.kernels)]
  BY DEF WithRemapKernels
<1>4. Len(one.kernels) \in Nat /\ Len(two.kernels) \in Nat
  BY <1>1, <1>2 DEF Controller
<1>5. /\ d \in Controller /\ d.selected = c.selected /\ d.device = c.device
      /\ d.available = c.available /\ d.kernels = two.kernels
      /\ d.remap_id = Len(one.kernels) /\ d.remap_debug_id = Len(two.kernels)
  BY <1>2, <1>3, <1>4 DEF Controller
<1> HIDE DEF one, two, d
<1>6. KernelIs(d, d.remap_id, "remap") /\ KernelIs(d, d.remap_debug_id, "remap_debug")
  BY <1>2, <1>5 DEF KernelIs, HasKernel
<1> QED
  BY <1>5, <1>6 DEF Sound, d

\* Selecting a node, when none is selected.
LEMMA NodeSelected ==
    ASSUME NEW c \in Controller, c.selected = NoNode, NEW n \in Nodes \cup {NoNode},
           NEW off \in SUBSET Nodes
    PROVE  LET r == DoSelectNode(c, n, off)
           IN  /\ Sound(r.ctrl) /\ OnSelected(r.ctrl)
               /\ r.ok \in BOOLEAN /\ (r.ok <=> n \in c.available \ off)
               /\ r.ok => r.ctrl.selected = n
               /\ ~r.ok => r.ctrl = c
               /\ r.ctrl.available = c.available
<1> DEFINE r == DoSelectNode(c, n, off)
<1>1. CASE n \in c.available \ off
  <2> DEFINE e == [c EXCEPT !.device = n, !.selected = n]
  <2>1. n \in Nodes
    BY <1>1 DEF Controller
  <2>2. e \in Controller /\ e.selected = n /\ e.device = n /\ e.available = c.available
    BY <2>1 DEF Controller
  <2>3. r = Reports(WithRemapKernels(e), TRUE)
    BY <1>1 DEF DoSelectNode
  <2> HIDE DEF e
  <2>4. /\ Sound(WithRemapKernels(e)) /\ WithRemapKernels(e).selected = n
        /\ WithRemapKernels(e).device = n /\ WithRemapKernels(e).available = c.available
    BY <1>1, <2>1, <2>2, RemapKernelsAppended
  <2>5. r.ctrl = WithRemapKernels(e) /\ r.ok = TRUE
    BY <2>3 DEF Reports
  <2> HIDE DEF r
  <2>6. OnSelected(r.ctrl)
    BY <2>4, <2>5 DEF OnSelected
  <2> QED
    BY <1>1, <2>4, <2>5, <2>6 DEF r
<1>2. CASE n \notin c.available \ off
  <2>1. r = Reports(c, FALSE)
    BY <1>2 DEF DoSelectNode
  <2>2. Sound(c) /\ OnSelected(c)
    BY DEF Sound, OnSelected
  <2> QED
    BY <1>2, <2>1, <2>2 DEF Reports
<1> QED
  BY <1>1, <1>2

\* Setting the device alone touches nothing else.
LEMMA DeviceSet ==
    ASSUME NEW c, Sound(c), NEW n \in Nodes
    PROVE  LET d == [c EXCEPT !.device = n]
           IN  Sound(d) /\ d.selected = c.selected /\ d.device = n
  BY DEF Sound, Controller, KernelIs, HasKernel

\* What a change makes of the controller, "stale" or not.
Changed(c, d, stale, answers, off) ==
    /\ Sound(d)
    /\ c.selected \in Nodes \ off => d.selected # NoNode
    /\ d.selected # c.selected => OnSelected(d)
    /\ ~stale /\ (OnSelected(c) \/ answers) => OnSelected(d)

\* A change that the base refuses sets the device, tries the node it is said
\* to come from, and selects one only if none is selected.
LEMMA RefusedChange ==
    ASSUME NEW c, Sound(c), NEW current \in Nodes \cup {NoNode}, NEW new \in Nodes,
           NEW off \in SUBSET Nodes, new \in c.available,
           ~(c.selected = current /\ current # NoNode /\ current # new)
    PROVE  Changed(c, DoChangeSelectedNode(c, current, new, off).ctrl,
                   current # c.selected, new \notin off, off)
<1> DEFINE d == DoChangeSelectedNode(c, current, new, off).ctrl
           set == SetDevice(c, new, off)
<1>1. c \in Controller /\ c.selected \in Nodes \cup {NoNode} /\ NoNode \notin Nodes
  BY DEF Sound, Controller, Nodes, NoNode
<1>2. BaseChange(c, current, new, off) = Reports(c, FALSE)
  BY DEF BaseChange
<1>3. d = IF new \in off \/ set.selected = NoNode THEN DoSelectNode(set, current, off).ctrl
          ELSE set
  BY <1>2 DEF DoChangeSelectedNode, Reports
<1>4. Sound(set) /\ set.selected = c.selected /\ (new \notin off => set.device = new)
      /\ (new \in off => set = c)
  BY DeviceSet DEF SetDevice
<1> HIDE DEF d, set
<1>5. CASE c.selected = NoNode
  <2>1. d = DoSelectNode(set, current, off).ctrl /\ set \in Controller
    BY <1>3, <1>4, <1>5 DEF Sound
  <2>2. Sound(d) /\ OnSelected(d)
    BY <1>4, <1>5, <2>1, NodeSelected
  <2> QED
    BY <1>1, <1>5, <2>2 DEF Changed, d
<1>6. CASE c.selected # NoNode /\ new \notin off
  <2>1. d = set
    BY <1>3, <1>4, <1>6
  <2>2. current = c.selected => OnSelected(d)
    BY <1>4, <1>6, <2>1 DEF OnSelected
  <2> QED
    BY <1>4, <1>6, <2>1, <2>2 DEF Changed, d
<1>7. CASE c.selected # NoNode /\ new \in off
  <2>1. d = DoSelectNode(c, current, off).ctrl
    BY <1>3, <1>4, <1>7
  <2>2. d = IF current \in c.available \ off THEN [c EXCEPT !.device = current] ELSE c
    BY <1>7, <2>1 DEF DoSelectNode, Reports
  <2>3. current \in c.available => current \in Nodes
    BY <1>1 DEF Controller
  <2>4. Sound(d) /\ d.selected = c.selected /\ (d = c \/ d.device = current)
    BY <2>2, <2>3, DeviceSet
  <2>5. current = c.selected /\ OnSelected(c) => OnSelected(d)
    BY <2>4 DEF OnSelected
  <2> QED
    BY <1>7, <2>4, <2>5 DEF Changed, d
<1> QED
  BY <1>5, <1>6, <1>7

\* A change that the base makes ends on the new node, on the old one, or on
\* none if neither answers.
LEMMA MadeChange ==
    ASSUME NEW c, Sound(c), NEW new \in Nodes, NEW off \in SUBSET Nodes,
           new \in c.available, c.selected \notin {new, NoNode}
    PROVE  Changed(c, DoChangeSelectedNode(c, c.selected, new, off).ctrl,
                   FALSE, new \notin off, off)
<1> DEFINE d == DoChangeSelectedNode(c, c.selected, new, off).ctrl
           base == BaseChange(c, c.selected, new, off)
           set  == SetDevice(base.ctrl, new, off)
           e == [c EXCEPT !.selected = NoNode]
<1> USE DEF Reports
<1>1. c \in Controller /\ c.selected \in Nodes \cup {NoNode} /\ NoNode \notin Nodes
  BY DEF Sound, Controller, Nodes, NoNode
<1>2. e \in Controller /\ e.selected = NoNode /\ e.available = c.available
  BY <1>1 DEF Controller
<1>3. base = DoSelectNode(e, new, off)
  BY DEF BaseChange
<1>4. /\ base.ok <=> new \in c.available \ off
      /\ base.ok => base.ctrl.selected = new
      /\ Sound(base.ctrl) /\ OnSelected(base.ctrl)
      /\ ~base.ok => base.ctrl = e
  <2> HIDE DEF e
  <2> QED
    BY <1>2, <1>3, NodeSelected
<1>5. CASE new \notin off
  <2>1. d = base.ctrl
    BY <1>4, <1>5 DEF DoChangeSelectedNode
  <2> HIDE DEF d, base
  <2> QED
    BY <1>1, <1>4, <1>5, <2>1 DEF Changed, d
<1>6. CASE new \in off
  <2>1. ~base.ok /\ base.ctrl = e
    BY <1>4, <1>6
  <2>2. set = e
    BY <1>6, <2>1 DEF SetDevice
  <2>3. d = DoSelectNode(e, c.selected, off).ctrl
    BY <1>6, <2>1, <2>2 DEF DoChangeSelectedNode
  <2>4. c.selected \in c.available
    BY DEF Sound
  <2> HIDE DEF e, d
  <2>5. Sound(d) /\ OnSelected(d) /\ (c.selected \in Nodes \ off => d.selected = c.selected)
    BY <1>1, <1>2, <2>3, <2>4, NodeSelected
  <2> QED
    BY <1>1, <2>5 DEF Changed, d
<1> QED
  BY <1>5, <1>6

\* A change, from whatever node it is said to be.
LEMMA NodeChanged ==
    ASSUME NEW c, Sound(c), NEW current \in Nodes \cup {NoNode}, NEW new \in Nodes,
           NEW off \in SUBSET Nodes
    PROVE  Changed(c, DoChangeSelectedNode(c, current, new, off).ctrl,
                   current # c.selected, new \notin off, off)
<1>1. CASE new \notin c.available
  <2>1. DoChangeSelectedNode(c, current, new, off).ctrl = c
    BY <1>1 DEF DoChangeSelectedNode, Reports
  <2>2. c.selected = NoNode
    BY <1>1 DEF Sound, Controller
  <2> QED
    BY <2>1, <2>2 DEF Changed, OnSelected, NoNode, Nodes
<1>2. CASE /\ new \in c.available
           /\ ~(c.selected = current /\ current # NoNode /\ current # new)
  BY <1>2, RefusedChange
<1>3. CASE /\ new \in c.available
           /\ c.selected = current /\ current # NoNode /\ current # new
  BY <1>3, MadeChange
<1> QED
  BY <1>1, <1>2, <1>3

\* Selecting a node is a change from the one that is selected, if any.
LEMMA SelectChanges ==
    ASSUME NEW c, Sound(c), NEW n \in Nodes, NEW off \in SUBSET Nodes
    PROVE  Changed(c, SelectNode(c, n, off).ctrl, FALSE, n \notin off, off)
<1>0. c \in Controller /\ NoNode \notin Nodes /\ c.selected \in Nodes \cup {NoNode}
  BY DEF Sound, Controller, NoNode, Nodes
<1>1. CASE c.selected = NoNode
  <2>1. SelectNode(c, n, off) = DoSelectNode(c, n, off)
    BY <1>1 DEF SelectNode
  <2>2. Sound(DoSelectNode(c, n, off).ctrl) /\ OnSelected(DoSelectNode(c, n, off).ctrl)
    BY <1>0, <1>1, NodeSelected
  <2> QED
    BY <1>0, <1>1, <2>1, <2>2 DEF Changed
<1>2. CASE c.selected # NoNode
  <2>1. SelectNode(c, n, off) = DoChangeSelectedNode(c, c.selected, n, off)
    BY <1>2 DEF SelectNode
  <2>2. Changed(c, DoChangeSelectedNode(c, c.selected, n, off).ctrl,
                c.selected # c.selected, n \notin off, off)
    BY <1>0, NodeChanged
  <2> QED
    BY <2>1, <2>2 DEF Changed
<1> QED
  BY <1>1, <1>2

\* Selecting any node that answers brings the runtime to it.
LEMMA SelectionBringsBack ==
    ASSUME ControllerInv
    PROVE  \A n \in Nodes \ dead : OnSelected(SelectNode(ctrl, n, dead).ctrl)
  BY SelectChanges DEF ControllerInv, Changed

\* What a step of the controller does to the selection and the device.
StepKeepsNode ==
    ctrl'.selected = NoNode => ctrl.selected \notin Nodes \ dead \/ ctrl'.available = {}

StepFollows ==
    ~OnSelected(ctrl') =>
        /\ OnSelected(ctrl) => StaleChange
        /\ ctrl'.selected = ctrl.selected

\* No call to the controller, and no device that stops to answer, breaks it.
LEMMA ControllerStepSound ==
    ASSUME ControllerInv, [ControllerNext]_ctrlVars
    PROVE  ControllerInv' /\ StepKeepsNode /\ StepFollows
<1> USE DEF ControllerInv
<1> DEFINE Alike == ctrl'.selected = ctrl.selected /\ ctrl'.device = ctrl.device
<1>0. NoNode \notin Nodes /\ ctrl.selected \in Nodes \cup {NoNode}
  BY DEF NoNode, Nodes, Sound, Controller
<1>1. ASSUME NEW n \in Nodes, CallSelectNode(n)
      PROVE  ControllerInv' /\ StepKeepsNode /\ StepFollows
  <2>1. ctrl' = SelectNode(ctrl, n, dead).ctrl /\ dead' = dead
    BY <1>1 DEF CallSelectNode
  <2>2. Changed(ctrl, ctrl', FALSE, n \notin dead, dead)
    BY <2>1, SelectChanges
  <2> QED
    BY <2>1, <2>2 DEF Changed, StepKeepsNode, StepFollows
<1>2. ASSUME NEW current \in Nodes \cup {NoNode}, NEW n \in Nodes,
             CallChangeSelectedNode(current, n)
      PROVE  ControllerInv' /\ StepKeepsNode /\ StepFollows
  <2>1. ctrl' = DoChangeSelectedNode(ctrl, current, n, dead).ctrl /\ dead' = dead
    BY <1>2 DEF CallChangeSelectedNode
  <2>2. Changed(ctrl, ctrl', current # ctrl.selected, n \notin dead, dead)
    BY <2>1, NodeChanged
  <2>3. current # ctrl.selected => StaleChange
    BY <1>2 DEF StaleChange
  <2> QED
    BY <2>1, <2>2, <2>3 DEF Changed, StepKeepsNode, StepFollows
<1>3. ASSUME NEW n \in Nodes, DeviceDies(n)
      PROVE  ControllerInv' /\ Alike
  BY <1>3 DEF DeviceDies
<1>4. ASSUME NEW debug \in BOOLEAN, CallSwitchDebugMode(debug)
      PROVE  ControllerInv' /\ Alike
  <2>1. ctrl' \in {ctrl, [ctrl EXCEPT !.debug = debug]} /\ dead' = dead
    BY <1>4 DEF CallSwitchDebugMode, SwitchedDebugMode
  <2>2. /\ Sound([ctrl EXCEPT !.debug = debug])
        /\ [ctrl EXCEPT !.debug = debug].selected = ctrl.selected
        /\ [ctrl EXCEPT !.debug = debug].device = ctrl.device
    BY DEF Sound, Controller, KernelIs, HasKernel
  <2> QED
    BY <2>1, <2>2
<1>5. ASSUME CallAddKernel
      PROVE  ControllerInv' /\ Alike
  <2>1. ctrl' = WithKernel(ctrl, "other") /\ ctrl.selected \in Nodes /\ dead' = dead
    BY <1>5 DEF CallAddKernel, Sound, Controller
  <2>2. ctrl \in Controller /\ {"other", "remap", "remap_debug"} \subseteq Kinds
    BY DEF Sound, Kinds
  <2>3. /\ ctrl' \in Controller /\ ctrl' = [ctrl EXCEPT !.kernels = ctrl'.kernels]
        /\ \A id \in Nat, k \in Kinds : KernelIs(ctrl, id, k) => KernelIs(ctrl', id, k)
    BY <2>1, <2>2, KernelAppended
  <2>4. /\ ctrl'.selected = ctrl.selected /\ ctrl'.available = ctrl.available
        /\ ctrl'.device = ctrl.device /\ ctrl'.remap_id = ctrl.remap_id
        /\ ctrl'.remap_debug_id = ctrl.remap_debug_id
        /\ ctrl.remap_id \in Nat /\ ctrl.remap_debug_id \in Nat
    BY <2>2, <2>3 DEF Controller
  <2>5. Sound(ctrl')
    BY <2>2, <2>3, <2>4 DEF Sound
  <2> QED
    BY <2>1, <2>4, <2>5
<1>6. CASE CallClear
  <2>1. ctrl' = ClearedController(ctrl) /\ dead' = dead
    BY <1>6 DEF CallClear
  <2>2. Sound(ctrl') /\ ctrl'.available = {} /\ ctrl'.selected = NoNode
    BY <2>1 DEF ClearedController, Sound, Controller, NoKernel
  <2> QED
    BY <2>1, <2>2 DEF StepKeepsNode, StepFollows, OnSelected
<1>7. ASSUME UNCHANGED ctrlVars
      PROVE  ControllerInv' /\ Alike
  BY <1>7 DEF ctrlVars
<1>8. ASSUME Alike
      PROVE  StepKeepsNode /\ StepFollows
  BY <1>0, <1>8 DEF StepKeepsNode, StepFollows, OnSelected
<1> QED
  BY <1>1, <1>2, <1>3, <1>4, <1>5, <1>6, <1>7, <1>8 DEF ControllerNext

LEMMA ControllerInitSound ==
    ASSUME ControllerInit
    PROVE  ControllerInv
<1>1. PICK n \in Nodes : ctrl = Constructed(n, dead)
  BY DEF ControllerInit
<1>2. dead \in SUBSET Nodes
  BY DEF ControllerInit
<1>3. NewController \in Controller /\ NewController.selected = NoNode
  BY ControllerAssumption DEF NewController, Controller, Nodes, NoNode, NoKernel
<1> DEFINE r == DoSelectNode(NewController, n, dead)
<1>4. Sound(r.ctrl) /\ r.ok \in BOOLEAN
  BY <1>2, <1>3, NodeSelected
<1>5. ctrl = [r.ctrl EXCEPT !.ready = r.ok]
  BY <1>1 DEF Constructed
<1> HIDE DEF r
<1>6. Sound(ctrl)
  BY <1>4, <1>5 DEF Sound, Controller, KernelIs, HasKernel
<1> QED
  BY <1>2, <1>6 DEF ControllerInv

-----------------------------------------------------------------------------
(* The argument.                                                           *)

Arguments ==
    [cxx : Buffers \cup {None}, c : Buffers \cup {None}, raw : Raws \cup {None},
     size : Nat, capacity : Nat, holds : Values \cup {Nothing, Torn}, mapped : BOOLEAN]

\* Those that name one buffer, if they name a C++ buffer, and whose size is
\* that of something they have held.
Consistent ==
    {a \in Arguments : /\ a.cxx # None => a.c = a.cxx
                       /\ a.size <= a.capacity
                       /\ a.holds = Nothing => a.size = 0}

Held(a, v) == a.holds = v /\ a.size = SizeOf[v] /\ a.size <= a.capacity

\* What every call that sends leaves.
Good(r, v) ==
    /\ r.arg \in Consistent /\ r.ok \in BOOLEAN
    /\ r.ok => Held(r.arg, v)

ArgumentInv ==
    /\ host \in [Places -> Values \cup {Torn}]
    /\ arg \in Consistent
    /\ sent \in [value : Values \cup {Nothing}, from : Places \cup {None}]
    /\ sent # NotSent => sent.value \in Values /\ Held(arg, sent.value)

LEMMA SizeType == SizeOf \in [Values -> Nat]
  BY ArgumentAssumption

LEMMA Written == Nothing \notin Values /\ Torn # Nothing
  BY ArgumentAssumption

\* Memory that was reserved is there, and names are kept or dropped together.
LEMMA ReservedGood ==
    ASSUME NEW a \in Consistent, NEW size \in Nat, NEW fault
    PROVE  LET r == Reserved(a, size, fault)
           IN  /\ r.arg \in Consistent /\ r.ok \in BOOLEAN
               /\ r.ok => size <= r.arg.capacity
<1>1. NewArgument \in Consistent
  BY DEF NewArgument, Arguments, Consistent
<1>2. CASE size <= a.capacity \/ fault = "alloc"
  BY <1>2 DEF Reserved, Result
<1>3. CASE ~(size <= a.capacity \/ fault = "alloc")
  <2> DEFINE e == IF a.capacity = 0 THEN a ELSE NewArgument
             n == [e EXCEPT !.capacity = size, !.holds = Nothing, !.mapped = FALSE]
  <2>1. e \in Consistent /\ e.size = 0
    BY <1>1 DEF Consistent, Arguments, NewArgument
  <2>2. Reserved(a, size, fault) = Result(host, n, TRUE)
    BY <1>3 DEF Reserved
  <2> HIDE DEF e
  <2>b. n \in Arguments /\ n.capacity = size /\ n.size = 0 /\ n.c = e.c /\ n.cxx = e.cxx
    BY <2>1 DEF Arguments, Consistent
  <2>3. n \in Consistent /\ n.capacity = size
    <3> HIDE DEF n
    <3> QED
      BY <2>1, <2>b DEF Consistent
  <2> DEFINE r == Reserved(a, size, fault)
  <2>4. r.arg = n /\ r.ok = TRUE
    BY <2>2 DEF Result
  <2> HIDE DEF n, r
  <2>a. size <= size
    OBVIOUS
  <2>5. r.arg \in Consistent /\ r.ok \in BOOLEAN /\ size <= r.arg.capacity
    BY <2>3, <2>4, <2>a, Zenon
  <2> QED
    BY <2>5 DEF r
<1> QED
  BY <1>2, <1>3

\* A copy that succeeds is whole.
LEMMA CopiedGood ==
    ASSUME NEW a \in Consistent, NEW v \in Values, NEW fault
    PROVE  LET r == Copied(a, v, fault)
           IN  /\ r.arg \in Consistent /\ r.ok \in BOOLEAN
               /\ r.arg.capacity = a.capacity
               /\ r.ok => r.arg.holds = v
  BY Written DEF Copied, Result, Arguments, Consistent

LEMMA RemappedGood ==
    ASSUME NEW a \in Consistent, NEW fault
    PROVE  LET r == Remapped(a, fault)
           IN  /\ r.arg \in Consistent /\ r.ok \in BOOLEAN
               /\ r.arg.holds = a.holds /\ r.arg.capacity = a.capacity /\ r.arg.size = a.size
  BY DEF Remapped, Result, Arguments, Consistent

LEMMA DeliveredGood ==
    ASSUME NEW a \in Consistent, NEW v \in Values,
           NEW is_buffer \in BOOLEAN, NEW remap \in BOOLEAN, NEW fault
    PROVE  Good(Sized(Delivered(a, v, is_buffer, remap, fault), v), v)
<1> DEFINE d == Delivered(a, v, is_buffer, remap, fault)
           copied == Copied(a, v, fault)
<1>1. /\ copied.arg \in Consistent /\ copied.ok \in BOOLEAN
      /\ copied.arg.capacity = a.capacity
      /\ copied.ok => copied.arg.holds = v
  BY CopiedGood
<1>2. /\ Remapped(copied.arg, fault).arg \in Consistent
      /\ Remapped(copied.arg, fault).ok \in BOOLEAN
      /\ Remapped(copied.arg, fault).arg.holds = copied.arg.holds
      /\ Remapped(copied.arg, fault).arg.capacity = copied.arg.capacity
  BY <1>1, RemappedGood
<1>3. /\ d.arg \in Consistent /\ d.ok \in BOOLEAN
      /\ d.ok => d.arg.holds = v /\ SizeOf[v] <= d.arg.capacity
  <2>1. CASE ReadyForRemap(ctrl) /\ SizeOf[v] <= a.capacity
             /\ (IF is_buffer THEN a.c ELSE a.raw) # None
    <3>1. d \in {copied, Remapped(copied.arg, fault)}
          /\ d = IF copied.ok /\ is_buffer /\ remap THEN Remapped(copied.arg, fault) ELSE copied
      BY <2>1 DEF Delivered
    <3> HIDE DEF d, copied
    <3> QED
      BY <1>1, <1>2, <2>1, <3>1
  <2>2. CASE ~(ReadyForRemap(ctrl) /\ SizeOf[v] <= a.capacity
               /\ (IF is_buffer THEN a.c ELSE a.raw) # None)
    <3>1. d = Result(host, a, FALSE)
      BY <2>2 DEF Delivered
    <3> QED
      BY <3>1 DEF Result
  <2> QED
    BY <2>1, <2>2
<1>7. d = [host |-> d.host, arg |-> d.arg, ok |-> d.ok]
  BY DEF Delivered, Copied, Remapped, Result
<1> HIDE DEF d
<1>4. SizeOf[v] \in Nat
  BY SizeType
<1>5. CASE d.ok
  <2>1. Sized(d, v) = [d EXCEPT !.arg.size = SizeOf[v]]
    BY <1>5 DEF Sized
  <2> DEFINE e == [d.arg EXCEPT !.size = SizeOf[v]]
  <2>2. Sized(d, v) = [host |-> d.host, arg |-> e, ok |-> d.ok]
    BY <1>7, <2>1
  <2>3. e \in Consistent /\ Held(e, v)
    BY <1>3, <1>4, <1>5, Written DEF Held, Consistent, Arguments
  <2> HIDE DEF e
  <2> QED
    BY <1>3, <1>5, <2>2, <2>3 DEF Good, d
<1>6. CASE ~d.ok
  BY <1>3, <1>6 DEF Good, Sized, d
<1> QED
  BY <1>3, <1>5, <1>6

LEMMA SendableValue ==
    ASSUME NEW p, Sendable(p)
    PROVE  p \in Places /\ host[p] \in Values /\ SizeOf[host[p]] \in Nat
  BY SizeType DEF Sendable, Fits, Values

LEMMA SendBufferGood ==
    ASSUME arg \in Consistent, NEW b \in Buffers, Sendable(b),
           NEW as_cxx \in BOOLEAN, NEW remap \in BOOLEAN, NEW fault
    PROVE  Good(SendBuffer(b, as_cxx, remap, fault), host[b])
<1> DEFINE a == [arg EXCEPT !.raw = None]
           v == host[b]
           reserved == Reserved(a, SizeOf[v], fault)
           named == IF KeepsName(a, b, as_cxx, reserved) THEN reserved.arg
                    ELSE Names(reserved.arg, b, as_cxx)
<1>1. v \in Values /\ SizeOf[v] \in Nat
  BY SendableValue
<1>2. a \in Consistent
  BY DEF Consistent, Arguments
<1>3. reserved.arg \in Consistent /\ reserved.ok \in BOOLEAN
  <2> HIDE DEF a, v
  <2> QED
    BY <1>1, <1>2, ReservedGood
<1>4. ASSUME NEW e \in Consistent
      PROVE  Names(e, b, as_cxx) \in Consistent
  BY DEF Names, Consistent, Arguments
<1>5. named \in Consistent
  <2> HIDE DEF reserved, a
  <2> QED
    BY <1>3, <1>4
<1>6. SendBuffer(b, as_cxx, remap, fault) =
        IF reserved.ok THEN Sized(Delivered(named, v, TRUE, remap, fault), v) ELSE reserved
  BY DEF SendBuffer
<1> HIDE DEF named, reserved, v
<1>7. Good(Sized(Delivered(named, v, TRUE, remap, fault), v), v)
  BY <1>1, <1>5, DeliveredGood
<1>8. ~reserved.ok => Good(reserved, v)
  BY <1>3 DEF Good, Consistent
<1> QED
  BY <1>6, <1>7, <1>8 DEF v

LEMMA SendRawGood ==
    ASSUME arg \in Consistent, NEW r \in Raws, Sendable(r), NEW fault
    PROVE  Good(SendRaw(r, fault), host[r])
<1> DEFINE a == NamesNoBuffer(arg)
           v == host[r]
           reserved == Reserved(a, SizeOf[v], fault)
           named == IF reserved.arg.raw = None THEN [reserved.arg EXCEPT !.raw = r]
                    ELSE reserved.arg
<1>1. v \in Values /\ SizeOf[v] \in Nat
  BY SendableValue
<1>2. a \in Consistent
  BY DEF NamesNoBuffer, Consistent, Arguments
<1>3. reserved.arg \in Consistent /\ reserved.ok \in BOOLEAN
  <2> HIDE DEF a, v
  <2> QED
    BY <1>1, <1>2, ReservedGood
<1>5. named \in Consistent
  <2> HIDE DEF reserved, a
  <2> QED
    BY <1>3 DEF Consistent, Arguments
<1>6. SendRaw(r, fault) =
        IF reserved.ok THEN Sized(Delivered(named, v, FALSE, FALSE, fault), v) ELSE reserved
  BY DEF SendRaw
<1> HIDE DEF named, reserved, v
<1>7. Good(Sized(Delivered(named, v, FALSE, FALSE, fault), v), v)
  BY <1>1, <1>5, DeliveredGood
<1>8. ~reserved.ok => Good(reserved, v)
  BY <1>3 DEF Good, Consistent
<1> QED
  BY <1>6, <1>7, <1>8 DEF v

LEMMA ConstructGood ==
    ASSUME NEW p, Sendable(p), NEW as_cxx \in BOOLEAN, NEW fault
    PROVE  Good(Construct(p, as_cxx, fault), host[p])
<1> DEFINE v == host[p]
           is_buffer == p \in Buffers
           reserved == Reserved(NewArgument, SizeOf[v], fault)
           copied == Copied(reserved.arg, v, fault)
           done == IF copied.ok /\ is_buffer THEN Remapped(copied.arg, fault) ELSE copied
           ready == IF is_buffer THEN ReadyForRemap(ctrl) ELSE ctrl.ready
           named == IF is_buffer THEN Names(done.arg, p, as_cxx) ELSE [done.arg EXCEPT !.raw = p]
<1>1. v \in Values /\ SizeOf[v] \in Nat /\ p \in Buffers \cup Raws
  BY SendableValue DEF Places
<1>2. NewArgument \in Consistent
  BY DEF NewArgument, Arguments, Consistent
<1>3. /\ reserved.arg \in Consistent /\ reserved.ok \in BOOLEAN
      /\ reserved.ok => SizeOf[v] <= reserved.arg.capacity
  <2> HIDE DEF v
  <2> QED
    BY <1>1, <1>2, ReservedGood
<1>4. /\ copied.arg \in Consistent /\ copied.ok \in BOOLEAN
      /\ copied.arg.capacity = reserved.arg.capacity
      /\ copied.ok => copied.arg.holds = v
  <2> HIDE DEF v, reserved
  <2> QED
    BY <1>1, <1>3, CopiedGood
<1>5. /\ Remapped(copied.arg, fault).arg \in Consistent
      /\ Remapped(copied.arg, fault).ok \in BOOLEAN
      /\ Remapped(copied.arg, fault).arg.holds = copied.arg.holds
      /\ Remapped(copied.arg, fault).arg.capacity = copied.arg.capacity
  <2> HIDE DEF copied
  <2> QED
    BY <1>4, RemappedGood
<1>6. /\ done.arg \in Consistent /\ done.ok \in BOOLEAN
      /\ reserved.ok /\ done.ok => done.arg.holds = v /\ SizeOf[v] <= done.arg.capacity
  <2> HIDE DEF v, reserved, copied
  <2> QED
    BY <1>3, <1>4, <1>5
<1>7. done = [host |-> done.host, arg |-> done.arg, ok |-> done.ok]
      /\ reserved = [host |-> reserved.host, arg |-> reserved.arg, ok |-> reserved.ok]
  BY DEF Copied, Remapped, Reserved, Result
<1>8. Construct(p, as_cxx, fault) =
        IF ~(reserved.ok /\ ready) THEN [reserved EXCEPT !.ok = FALSE]
        ELSE IF ~done.ok THEN done
        ELSE Sized([done EXCEPT !.arg = named], v)
  BY DEF Construct
<1> HIDE DEF done, reserved, copied, v, ready
<1>9. CASE ~(reserved.ok /\ ready)
  <2>1. Construct(p, as_cxx, fault) = [host |-> reserved.host, arg |-> reserved.arg, ok |-> FALSE]
    BY <1>7, <1>8, <1>9
  <2> QED
    BY <1>3, <2>1 DEF Good, Consistent
<1>10. CASE reserved.ok /\ ready /\ ~done.ok
  <2>1. Construct(p, as_cxx, fault) = done
    BY <1>8, <1>10
  <2> QED
    BY <1>6, <1>10, <2>1 DEF Good, Consistent
<1>11. CASE reserved.ok /\ ready /\ done.ok
  <2> DEFINE e == [named EXCEPT !.size = SizeOf[v]]
  <2>1. named \in Consistent /\ named.holds = v /\ SizeOf[v] <= named.capacity
    BY <1>1, <1>6, <1>11 DEF Names, Consistent, Arguments
  <2>2. Construct(p, as_cxx, fault) = Sized([done EXCEPT !.arg = named], v)
    BY <1>8, <1>11
  <2> HIDE DEF named
  <2>3. e \in Consistent /\ Held(e, v)
    BY <1>1, <2>1, Written DEF Held, Consistent, Arguments
  <2>4. [done EXCEPT !.arg = named] = [host |-> done.host, arg |-> named, ok |-> done.ok]
    BY <1>7
  <2>5. Construct(p, as_cxx, fault) = [host |-> done.host, arg |-> e, ok |-> done.ok]
    BY <1>11, <2>2, <2>4 DEF Sized
  <2> HIDE DEF e
  <2> QED
    BY <1>6, <2>3, <2>5 DEF Good, Consistent, v
<1> QED
  BY <1>6, <1>9, <1>10, <1>11

-----------------------------------------------------------------------------
(* The specification.                                                      *)

Inv == ControllerInv /\ ArgumentInv

\* A call that sends leaves what the caller is told.
LEMMA SendsKeepsInv ==
    ASSUME ArgumentInv, NEW p, Sendable(p), NEW r, Good(r, host[p]), Sends(p, r)
    PROVE  ArgumentInv' /\ UNCHANGED ctrlVars
<1>1. /\ arg' = r.arg /\ host' = host /\ UNCHANGED ctrlVars
      /\ sent' = IF r.ok THEN [value |-> host[p], from |-> p] ELSE NotSent
  BY DEF Sends
<1>2. host[p] \in Values /\ p \in Places
  BY SendableValue
<1>3. arg' \in Consistent /\ (r.ok => Held(arg', host[p]))
  BY <1>1 DEF Good
<1>4. sent' \in [value : Values \cup {Nothing}, from : Places \cup {None}]
  BY <1>1, <1>2 DEF NotSent
<1>5. ASSUME sent' # NotSent
      PROVE  sent'.value \in Values /\ Held(arg', sent'.value)
  BY <1>1, <1>2, <1>3, <1>5
<1> QED
  BY <1>1, <1>3, <1>4, <1>5 DEF ArgumentInv, Held

\* Receiving writes to the host only.
LEMMA ReceiveKeepsInv ==
    ASSUME ArgumentInv, NEW p \in Places, CallReceive(p)
    PROVE  ArgumentInv' /\ UNCHANGED ctrlVars
<1>1. PICK remap \in BOOLEAN, fault \in {"none", "copy"} :
        host' = Receive(p, remap, fault).host
  BY DEF CallReceive
<1>2. UNCHANGED <<arg, sent, ctrlVars>>
  BY DEF CallReceive
<1>3. arg \in Consistent /\ host \in [Places -> Values \cup {Torn}]
  BY DEF ArgumentInv
<1>4. arg.size > 0 => arg.holds \in Values \cup {Torn}
  BY <1>3 DEF Consistent, Arguments
<1>5. \/ host' = host
      \/ host' = [host EXCEPT ![p] = Torn]
      \/ arg.size > 0 /\ host' = [host EXCEPT ![p] = arg.holds]
  BY <1>1 DEF Receive, Result
<1>6. host' \in [Places -> Values \cup {Torn}]
  BY <1>3, <1>4, <1>5
<1> QED
  BY <1>2, <1>6 DEF ArgumentInv, Held

\* A send of a buffer, whether it is remapped on the device or not.
LEMMA SendBufferKeepsInv ==
    ASSUME ArgumentInv, NEW b \in Buffers, NEW as_cxx \in BOOLEAN, CallSendBuffer(b, as_cxx)
    PROVE  ArgumentInv' /\ UNCHANGED ctrlVars
<1>1. PICK remap \in BOOLEAN, fault \in Failures :
        Sends(b, SendBuffer(b, as_cxx, remap, fault))
  BY DEF CallSendBuffer
<1>2. Sendable(b) /\ arg \in Consistent
  BY DEF CallSendBuffer, ArgumentInv
<1> QED
  BY <1>1, <1>2, SendBufferGood, SendsKeepsInv

LEMMA SendRawKeepsInv ==
    ASSUME ArgumentInv, NEW r \in Raws, CallSendRaw(r)
    PROVE  ArgumentInv' /\ UNCHANGED ctrlVars
<1>1. PICK fault \in Failures : Sends(r, SendRaw(r, fault))
  BY DEF CallSendRaw
<1>2. Sendable(r) /\ arg \in Consistent
  BY DEF CallSendRaw, ArgumentInv
<1> QED
  BY <1>1, <1>2, SendRawGood, SendsKeepsInv

\* A send without a source takes one of the sources it could be given.
LEMMA SendMirroredKeepsInv ==
    ASSUME ArgumentInv, CallSendMirrored
    PROVE  ArgumentInv' /\ UNCHANGED ctrlVars
<1>1. arg \in Arguments /\ Sendable(Mirrored)
  BY DEF ArgumentInv, Consistent, CallSendMirrored
<1>2. CASE arg.c # None
  <2>1. arg.c \in Buffers /\ CallSendBuffer(arg.c, arg.cxx # None)
    BY <1>1, <1>2 DEF CallSendMirrored, Arguments
  <2> QED
    BY <2>1, SendBufferKeepsInv
<1>3. CASE arg.c = None
  <2>1. arg.raw \in Raws
    BY <1>1, <1>3, ArgumentAssumption, SendableValue DEF Mirrored, Arguments
  <2>2. CallSendRaw(arg.raw)
    BY <1>3 DEF CallSendMirrored
  <2> QED
    BY <2>1, <2>2, SendRawKeepsInv
<1> QED
  BY <1>2, <1>3

LEMMA StepKeepsInv ==
    ASSUME Inv, [Next]_vars
    PROVE  Inv' /\ StepKeepsNode /\ StepFollows
<1>0. ArgumentInv /\ ControllerInv /\ arg \in Consistent
  BY DEF Inv, ArgumentInv
<1> DEFINE Keeps == ArgumentInv' /\ UNCHANGED ctrlVars
<1>1. ASSUME NEW p \in Places, NEW as_cxx \in BOOLEAN, CallConstruct(p, as_cxx)
      PROVE  Keeps
  <2>1. PICK fault \in Failures : Sends(p, Construct(p, as_cxx, fault))
    BY <1>1 DEF CallConstruct
  <2>2. Sendable(p)
    BY <1>1 DEF CallConstruct
  <2> QED
    BY <1>0, <2>1, <2>2, ConstructGood, SendsKeepsInv
<1>2. ASSUME NEW b \in Buffers, NEW as_cxx \in BOOLEAN, CallSendBuffer(b, as_cxx)
      PROVE  Keeps
  BY <1>0, <1>2, SendBufferKeepsInv
<1>3. ASSUME NEW r \in Raws, CallSendRaw(r)
      PROVE  Keeps
  BY <1>0, <1>3, SendRawKeepsInv
<1>4. ASSUME NEW p \in Places, CallReceive(p)
      PROVE  Keeps
  BY <1>0, <1>4, ReceiveKeepsInv
<1>5. ASSUME CallReceiveMirrored
      PROVE  Keeps
  <2>1. Mirrored \in Places /\ CallReceive(Mirrored)
    BY <1>0, <1>5 DEF CallReceiveMirrored, Mirrored, Consistent, Arguments, Places
  <2> QED
    BY <1>0, <2>1, ReceiveKeepsInv
<1>6. ASSUME CallSendMirrored
      PROVE  Keeps
  BY <1>0, <1>6, SendMirroredKeepsInv
<1>7. ASSUME CallRemap
      PROVE  Keeps
  <2>1. PICK fault \in {"none", "remap"} : arg' = Remapped(arg, fault).arg
    BY <1>7 DEF CallRemap
  <2>2. UNCHANGED <<host, sent, ctrlVars>>
    BY <1>7 DEF CallRemap
  <2>3. /\ arg' \in Consistent /\ arg'.holds = arg.holds
        /\ arg'.capacity = arg.capacity /\ arg'.size = arg.size
    BY <1>0, <2>1, RemappedGood
  <2>4. ASSUME sent # NotSent
        PROVE  sent.value \in Values /\ Held(arg', sent.value)
    <3>1. sent.value \in Values /\ Held(arg, sent.value)
      BY <1>0, <2>4 DEF ArgumentInv
    <3> QED
      BY <2>3, <3>1 DEF Held
  <2>5. sent' = sent /\ host' = host /\ UNCHANGED ctrlVars
    BY <2>2
  <2>6. sent' # NotSent => sent'.value \in Values /\ Held(arg', sent'.value)
    BY <2>4, <2>5
  <2> QED
    BY <1>0, <2>3, <2>5, <2>6 DEF ArgumentInv
<1>8. ASSUME NEW v \in Contents, KernelRuns(v)
      PROVE  Keeps
  <2>1. v \in Values /\ v # Nothing
    BY Written DEF Values
  <2>2. /\ arg' = [arg EXCEPT !.holds = v] /\ SizeOf[v] = SizeOf[arg.holds]
        /\ sent' = IF sent = NotSent THEN sent ELSE [sent EXCEPT !.value = v]
        /\ UNCHANGED <<host, ctrlVars>>
    BY <1>8 DEF KernelRuns
  <2>3. /\ arg' \in Consistent /\ arg'.holds = v /\ arg'.size = arg.size
        /\ arg'.capacity = arg.capacity
    BY <1>0, <2>1, <2>2 DEF Consistent, Arguments
  <2>4. CASE sent = NotSent
    BY <1>0, <2>2, <2>3, <2>4 DEF ArgumentInv
  <2>5. CASE sent # NotSent
    <3>1. sent'.value = v
          /\ sent' \in [value : Values \cup {Nothing}, from : Places \cup {None}]
      BY <1>0, <2>1, <2>2, <2>5 DEF ArgumentInv
    <3>2. arg.size = SizeOf[arg.holds] /\ arg.size <= arg.capacity
      BY <1>0, <2>5 DEF ArgumentInv, Held
    <3>3. Held(arg', v)
      BY <2>2, <2>3, <3>2 DEF Held
    <3> QED
      BY <1>0, <2>1, <2>2, <2>3, <3>1, <3>3 DEF ArgumentInv, Held
  <2> QED
    BY <2>4, <2>5
<1>9. ASSUME NEW p \in Places, NEW v \in Fits(p), HostWrites(p, v)
      PROVE  Keeps
  <2>1. v \in Values
    BY DEF Fits, Values
  <2>2. host' = [host EXCEPT ![p] = v] /\ UNCHANGED <<arg, sent, ctrlVars>>
    BY <1>9 DEF HostWrites
  <2> QED
    BY <1>0, <2>1, <2>2 DEF ArgumentInv, Held
<1>10. CASE ControllerStep
  <2>1. ControllerNext /\ UNCHANGED argVars
    BY <1>10 DEF ControllerStep
  <2>2. ArgumentInv'
    BY <1>0, <2>1 DEF ArgumentInv, argVars, Held
  <2> QED
    BY <1>0, <2>1, <2>2, ControllerStepSound DEF Inv
<1>11. CASE UNCHANGED vars
  BY <1>0, <1>11, ControllerStepSound DEF Inv, ArgumentInv, vars, argVars, Held
<1>12. ASSUME CallDestroy
       PROVE  Keeps
  <2>1. NewArgument \in Consistent /\ NotSent \in [value : Values \cup {Nothing}, from : Places \cup {None}]
    BY DEF NewArgument, Arguments, Consistent, NotSent
  <2> QED
    BY <1>0, <1>12, <2>1 DEF CallDestroy, ArgumentInv
<1>13. CASE Keeps
  <2>1. [ControllerNext]_ctrlVars
    BY <1>13
  <2> QED
    BY <1>0, <1>13, <2>1, ControllerStepSound DEF Inv
<1> QED
  BY <1>1, <1>2, <1>3, <1>4, <1>5, <1>6, <1>7, <1>8, <1>9, <1>10, <1>11, <1>12, <1>13 DEF Next

LEMMA InitInv ==
    ASSUME Init
    PROVE  Inv
<1>1. ControllerInv
  BY ControllerInitSound DEF Init
<1>2. arg = NewArgument /\ sent = NotSent /\ host \in [Places -> Values \cup {Torn}]
  BY DEF Init, ArgumentInit
<1>3. NewArgument \in Consistent
  BY DEF NewArgument, Arguments, Consistent
<1>4. NotSent \in [value : Values \cup {Nothing}, from : Places \cup {None}]
  BY DEF NotSent
<1> QED
  BY <1>1, <1>2, <1>3, <1>4 DEF Inv, ArgumentInv

\* The inductive invariant holds of every controller and argument.
THEOREM CudaInductive == Spec => []Inv
<1>1. Init => Inv
  BY InitInv
<1>2. Inv /\ [Next]_vars => Inv'
  BY StepKeepsInv
<1> QED
  BY <1>1, <1>2, PTL DEF Spec

\* Controllers and arguments are what they are declared to be, for any nodes,
\* buffers and sizes, after any calls (TypeOK of CudaArgument).
THEOREM CudaTypeOK == Spec => []TypeOK
<1>1. Inv => TypeOK
  BY DEF Inv, ControllerInv, Sound, Controller, ArgumentInv, Consistent, Arguments,
         TypeOK, ControllerTypeOK
<1> QED
  BY <1>1, CudaInductive, PTL

\* The CUDA runtime follows the selection: only a change from a stale index
\* takes it to another device, and every later selection brings it back
\* (DeviceFollows of CudaController).
THEOREM CudaDeviceFollows == Spec => DeviceFollows
<1> DEFINE BringsBack == \A n \in Nodes \ dead : OnSelected(SelectNode(ctrl, n, dead).ctrl)
<1>1. Inv => BringsBack
  BY SelectionBringsBack DEF Inv
<1>2. Inv /\ Inv' /\ [Next]_vars =>
        [ctrl' # ctrl /\ ~OnSelected(ctrl') =>
            /\ OnSelected(ctrl) => StaleChange
            /\ ctrl'.selected = ctrl.selected
            /\ \A n \in Nodes \ dead' : OnSelected(SelectNode(ctrl', n, dead').ctrl)]_ctrlVars
  <2>1. Inv' => BringsBack'
    BY <1>1, PTL
  <2>2. BringsBack' <=>
          \A n \in Nodes \ dead' : OnSelected(SelectNode(ctrl', n, dead').ctrl)
    OBVIOUS
  <2> HIDE DEF BringsBack
  <2> QED
    BY <2>1, <2>2, StepKeepsInv DEF StepFollows
<1> QED
  BY <1>2, CudaInductive, PTL DEF Spec, DeviceFollows

\* The remap kernels of both modes are those of the selected node.
THEOREM CudaRemapKernelsOfNode == Spec => []RemapKernelsOfNode
<1>1. Inv => RemapKernelsOfNode
  BY DEF Inv, ControllerInv, Sound, KernelIs, RemapKernelsOfNode
<1> QED
  BY <1>1, CudaInductive, PTL

\* A node is kept through every change, unless its device has died.
THEOREM CudaNodeIsKept == Spec => NodeIsKept
<1>1. Inv /\ [Next]_vars => [StepKeepsNode]_ctrlVars
  BY StepKeepsInv
<1> QED
  BY <1>1, CudaInductive, PTL DEF Spec, NodeIsKept, StepKeepsNode

\* An argument names one buffer, as the code asserts.
THEOREM CudaNamesAgree == Spec => []NamesAgree
<1>1. Inv => NamesAgree
  BY DEF Inv, ArgumentInv, Consistent, NamesAgree
<1> QED
  BY <1>1, CudaInductive, PTL

\* What a caller has been told is on the device is there.
THEOREM CudaSentIsHeld == Spec => []SentIsHeld
<1>1. Inv => SentIsHeld
  BY DEF Inv, ArgumentInv, Held, SentIsHeld
<1> QED
  BY <1>1, CudaInductive, PTL

-----------------------------------------------------------------------------
(* What was sent can be fetched again.                                     *)

\* What a caller believes was sent came from memory of its kind, and an
\* argument that raw memory was sent to names raw memory.
SentIsOfItsKind ==
    sent # NotSent =>
        /\ sent.from \in Places
        /\ sent.from \in Buffers <=> sent.value \in Contents
        /\ sent.from \in Raws => arg.raw # None

\* Only an argument that names raw memory delivers raw memory, and it goes on
\* naming it.
LEMMA DeliveredRaw ==
    ASSUME NEW a \in Consistent, NEW v \in Values, NEW fault,
           Sized(Delivered(a, v, FALSE, FALSE, fault), v).ok
    PROVE  Sized(Delivered(a, v, FALSE, FALSE, fault), v).arg.raw # None
<1> DEFINE d == Delivered(a, v, FALSE, FALSE, fault)
           copied == Copied(a, v, fault)
<1>1. copied.arg.raw = a.raw /\ copied = Result(copied.host, copied.arg, copied.ok)
  BY DEF Copied, Result, Consistent, Arguments
<1>2. d = Result(d.host, d.arg, d.ok) /\ Sized(d, v).ok = d.ok
  BY DEF Delivered, Copied, Sized, Result
<1>3. a.raw # None /\ d = copied
  BY <1>2 DEF Delivered, Result
<1>4. Sized(d, v).arg.raw = d.arg.raw
  <2> HIDE DEF d
  <2> QED
    BY <1>2 DEF Sized, Result
<1> QED
  BY <1>1, <1>3, <1>4

\* After sending raw memory the argument names raw memory.
LEMMA SendRawNamesRaw ==
    ASSUME arg \in Consistent, NEW r \in Raws, Sendable(r), NEW fault,
           SendRaw(r, fault).ok
    PROVE  SendRaw(r, fault).arg.raw # None
<1> DEFINE a == NamesNoBuffer(arg)
           v == host[r]
           reserved == Reserved(a, SizeOf[v], fault)
           named == IF reserved.arg.raw = None THEN [reserved.arg EXCEPT !.raw = r]
                    ELSE reserved.arg
<1>1. v \in Values /\ SizeOf[v] \in Nat
  BY SendableValue
<1>2. a \in Consistent
  BY DEF NamesNoBuffer, Consistent, Arguments
<1>3. reserved.arg \in Consistent
  <2> HIDE DEF a, v
  <2> QED
    BY <1>1, <1>2, ReservedGood
<1>4. named \in Consistent
  <2> HIDE DEF reserved, a
  <2> QED
    BY <1>3 DEF Consistent, Arguments
<1>5. SendRaw(r, fault) =
        IF reserved.ok THEN Sized(Delivered(named, v, FALSE, FALSE, fault), v) ELSE reserved
  BY DEF SendRaw
<1> HIDE DEF named, reserved, v
<1> QED
  BY <1>1, <1>4, <1>5, DeliveredRaw

\* So it does after construction from raw memory.
LEMMA ConstructNamesRaw ==
    ASSUME NEW p \in Raws, Sendable(p), NEW as_cxx \in BOOLEAN, NEW fault,
           Construct(p, as_cxx, fault).ok
    PROVE  Construct(p, as_cxx, fault).arg.raw # None
<1> DEFINE v == host[p]
           reserved == Reserved(NewArgument, SizeOf[v], fault)
           copied == Copied(reserved.arg, v, fault)
           named == [copied.arg EXCEPT !.raw = p]
<1>1. p \notin Buffers /\ p # None
  BY ArgumentAssumption DEF Places
<1>2. v \in Values /\ SizeOf[v] \in Nat
  BY SendableValue
<1>3. reserved.arg \in Consistent
  <2>1. NewArgument \in Consistent
    BY DEF NewArgument, Arguments, Consistent
  <2> HIDE DEF v
  <2> QED
    BY <1>2, <2>1, ReservedGood
<1>4. copied.arg \in Consistent
  <2> HIDE DEF v, reserved
  <2> QED
    BY <1>2, <1>3, CopiedGood
<1>5. /\ copied = [host |-> copied.host, arg |-> copied.arg, ok |-> copied.ok]
      /\ reserved = [host |-> reserved.host, arg |-> reserved.arg, ok |-> reserved.ok]
  BY DEF Copied, Reserved, Result
<1>6. Construct(p, as_cxx, fault) =
        IF ~(reserved.ok /\ ctrl.ready) THEN [reserved EXCEPT !.ok = FALSE]
        ELSE IF ~copied.ok THEN copied
        ELSE Sized([copied EXCEPT !.arg = named], v)
  BY <1>1 DEF Construct
<1> HIDE DEF v, reserved, copied
<1>7. reserved.ok /\ ctrl.ready /\ copied.ok
  BY <1>5, <1>6
<1>8. named.raw = p /\ named \in Arguments
  BY <1>4 DEF Consistent, Arguments
<1>9. Construct(p, as_cxx, fault) =
        [host |-> copied.host, arg |-> [named EXCEPT !.size = SizeOf[v]], ok |-> copied.ok]
  BY <1>5, <1>6, <1>7 DEF Sized
<1> HIDE DEF named
<1> QED
  BY <1>1, <1>8, <1>9 DEF Arguments

\* A call that sends tells the caller of memory of the kind it was given.
LEMMA SendsOfItsKind ==
    ASSUME NEW p, Sendable(p), NEW r, Sends(p, r),
           r.ok /\ p \in Raws => r.arg.raw # None
    PROVE  SentIsOfItsKind'
<1>1. /\ arg' = r.arg
      /\ sent' = IF r.ok THEN [value |-> host[p], from |-> p] ELSE NotSent
  BY DEF Sends
<1>2. p \in Places /\ (p \in Buffers <=> host[p] \in Contents)
  BY ArgumentAssumption DEF Sendable, Fits, Places
<1> QED
  BY <1>1, <1>2 DEF SentIsOfItsKind

LEMMA SendBufferOfItsKind ==
    ASSUME NEW b \in Buffers, NEW as_cxx \in BOOLEAN, CallSendBuffer(b, as_cxx)
    PROVE  SentIsOfItsKind'
<1>1. PICK remap \in BOOLEAN, fault \in Failures :
        Sends(b, SendBuffer(b, as_cxx, remap, fault))
  BY DEF CallSendBuffer
<1>2. Sendable(b) /\ b \notin Raws
  BY ArgumentAssumption DEF CallSendBuffer
<1> QED
  BY <1>1, <1>2, SendsOfItsKind

LEMMA SendRawOfItsKind ==
    ASSUME arg \in Consistent, NEW r \in Raws, CallSendRaw(r)
    PROVE  SentIsOfItsKind'
<1>1. PICK fault \in Failures : Sends(r, SendRaw(r, fault))
  BY DEF CallSendRaw
<1>2. Sendable(r)
  BY DEF CallSendRaw
<1> QED
  BY <1>1, <1>2, SendRawNamesRaw, SendsOfItsKind

\* Every step keeps what was sent and what the argument names of one kind.
LEMMA StepOfItsKind ==
    ASSUME Inv, SentIsOfItsKind, [Next]_vars
    PROVE  SentIsOfItsKind'
<1>0. ArgumentInv /\ arg \in Consistent
  BY DEF Inv, ArgumentInv
<1>1. ASSUME NEW p \in Places, NEW as_cxx \in BOOLEAN, CallConstruct(p, as_cxx)
      PROVE  SentIsOfItsKind'
  <2>1. PICK fault \in Failures : Sends(p, Construct(p, as_cxx, fault))
    BY <1>1 DEF CallConstruct
  <2>2. Sendable(p)
    BY <1>1 DEF CallConstruct
  <2> QED
    BY <2>1, <2>2, ConstructNamesRaw, SendsOfItsKind
<1>2. ASSUME NEW b \in Buffers, NEW as_cxx \in BOOLEAN, CallSendBuffer(b, as_cxx)
      PROVE  SentIsOfItsKind'
  BY <1>2, SendBufferOfItsKind
<1>3. ASSUME NEW r \in Raws, CallSendRaw(r)
      PROVE  SentIsOfItsKind'
  BY <1>0, <1>3, SendRawOfItsKind
<1>4. ASSUME CallSendMirrored
      PROVE  SentIsOfItsKind'
  <2>1. Sendable(Mirrored) /\ arg \in Arguments
    BY <1>0, <1>4 DEF CallSendMirrored, Consistent
  <2>3. CASE arg.c # None
    <3>1. arg.c \in Buffers /\ CallSendBuffer(arg.c, arg.cxx # None)
      BY <1>4, <2>1, <2>3 DEF CallSendMirrored, Arguments
    <3> QED
      BY <3>1, SendBufferOfItsKind
  <2>4. CASE arg.c = None
    <3>1. arg.raw \in Raws
      BY <2>1, <2>4, ArgumentAssumption, SendableValue DEF Mirrored, Arguments
    <3>2. CallSendRaw(arg.raw)
      BY <1>4, <2>4 DEF CallSendMirrored
    <3> QED
      BY <1>0, <3>1, <3>2, SendRawOfItsKind
  <2> QED
    BY <2>3, <2>4
<1>8. CASE CallDestroy
  BY <1>8 DEF CallDestroy, SentIsOfItsKind, NotSent
<1>5. CASE UNCHANGED <<arg, sent>>
  BY <1>5 DEF SentIsOfItsKind
<1>6. CASE CallRemap
  <2>1. PICK fault \in {"none", "remap"} : arg' = Remapped(arg, fault).arg
    BY <1>6 DEF CallRemap
  <2>2. arg'.raw = arg.raw /\ sent' = sent
    BY <1>0, <1>6, <2>1 DEF CallRemap, Remapped, Result, Consistent, Arguments
  <2> QED
    BY <2>2 DEF SentIsOfItsKind
<1>7. ASSUME NEW v \in Contents, KernelRuns(v)
      PROVE  SentIsOfItsKind'
  <2>1. /\ arg.holds \in Contents /\ arg' = [arg EXCEPT !.holds = v]
        /\ sent' = IF sent = NotSent THEN sent ELSE [sent EXCEPT !.value = v]
    BY <1>7 DEF KernelRuns
  <2>2. arg'.raw = arg.raw
    BY <1>0, <2>1 DEF Consistent, Arguments
  <2>3. CASE sent = NotSent
    BY <2>1, <2>3 DEF SentIsOfItsKind
  <2>4. CASE sent # NotSent
    <3>1. sent.value \in Contents
      BY <1>0, <2>1, <2>4 DEF ArgumentInv, Held
    <3>2. sent'.value = v /\ sent'.from = sent.from
      BY <1>0, <2>1, <2>4 DEF ArgumentInv
    <3> QED
      BY <2>2, <2>4, <3>1, <3>2 DEF SentIsOfItsKind
  <2> QED
    BY <2>3, <2>4
<1> QED
  BY <1>1, <1>2, <1>3, <1>4, <1>5, <1>6, <1>7, <1>8
     DEF Next, vars, argVars, ControllerStep, CallReceive, CallReceiveMirrored, HostWrites

\* An argument that holds what its caller believes it does hands it out again.
LEMMA KindIsRetrievable ==
    ASSUME Inv, SentIsOfItsKind
    PROVE  SentIsRetrievable
<1> SUFFICES ASSUME sent # NotSent, arg.raw = None \/ arg.c = None, NEW p \in Places
             PROVE  LET received == Receive(p, TRUE, "none")
                    IN  /\ received.ok => received.host[p] = sent.value
                        /\ (ctrl.ready /\ SizeOf[sent.value] <= Room[p]
                            /\ (p \in Buffers <=> arg.c # None)) => received.ok
  BY DEF SentIsRetrievable
<1>1. /\ host \in [Places -> Values \cup {Torn}] /\ sent.value \in Values
      /\ arg.holds = sent.value /\ arg.size = SizeOf[sent.value]
  BY DEF Inv, ArgumentInv, Held
<1>2. arg.size \in Nat \ {0}
  BY <1>1, ArgumentAssumption
<1>3. arg.c # None => sent.value \notin RawContents
  BY ArgumentAssumption DEF SentIsOfItsKind, Places
<1>4. Readable(p, TRUE)
  BY <1>1, <1>3 DEF Readable
<1> QED
  BY <1>1, <1>2, <1>4 DEF Receive, Result

\* What a caller has been told is on the device can be fetched, into every
\* place with room for it of the kind the argument mirrors.
THEOREM CudaSentIsRetrievable == Spec => []SentIsRetrievable
<1>1. Init => SentIsOfItsKind
  BY DEF Init, ArgumentInit, SentIsOfItsKind
<1>2. Inv /\ SentIsOfItsKind /\ [Next]_vars => SentIsOfItsKind'
  BY StepOfItsKind
<1>3. Inv /\ SentIsOfItsKind => SentIsRetrievable
  BY KindIsRetrievable
<1> QED
  BY <1>1, <1>2, <1>3, CudaInductive, PTL DEF Spec
=============================================================================
