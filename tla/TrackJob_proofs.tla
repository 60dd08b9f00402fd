-------------------------- MODULE TrackJob_proofs --------------------------
(***************************************************************************)
(* What a track job writes to is there: proofs about TrackJob, and then    *)
(* about DeviceJob, the job that works on copies in the memory of a        *)
(* device, for any particle buffers, lines, output buffers, failures and   *)
(* order of calls.  What is said of the job on the host cites nothing of   *)
(* the device.                                                             *)
(***************************************************************************)
EXTENDS DeviceJob, TLAPS, SequenceTheorems, FiniteSetTheorems, WellFoundedInduction

-----------------------------------------------------------------------------
(* The inductive invariant, as parts of a world.                           *)

ExtentSets ==
    [min_particle_id : Int, max_particle_id : Int, min_element_id : Int,
     max_element_id : Int, min_turn : Int]

Jobs ==
    [particles : ParticleBuffers \cup {None}, sets : SUBSET Nat, extents : ExtentSets,
     line : DOMAIN Lines \cup {None}, line_cxx : BOOLEAN,
     output : Buffers \cup {NoBuffer}, output_cxx : BOOLEAN,
     until : Nat, config : Configs, elem_output : BOOLEAN, monitor_output : BOOLEAN,
     elem_offset : Nat, monitor_offset : Nat, usable : BOOLEAN]

Worlds ==
    [job : Jobs, lines : [DOMAIN Lines -> Seq(Monitors)],
     buffers : [Buffers -> Seq(Objects)], status : {"success", "failure"}]

\* The objects of a buffer are at their places.
Placed(objects, b) == \A i \in DOMAIN objects : objects[i].addr = Address(b, i)

\* Set indices that a particle buffer has.
SetsOf(sets, particles) ==
    sets # {} /\ sets \subseteq Nat /\ \A i \in sets : i < Len(Sets[particles])

\* What holds at every point of a call: the shape of the world, places, the
\* chosen sets, and what the accessors assert.
Sound(w) ==
    /\ w \in Worlds
    /\ \A b \in Buffers : Placed(w.buffers[b], b)
    /\ w.job.particles # None => SetsOf(w.job.sets, w.job.particles)
    /\ OwnsOutput(w.job) => w.job.output_cxx
    /\ w.job.monitor_output \/ w.job.elem_output => HasOutput(w.job)
    /\ ~OwnsOutput(w.job) => w.buffers[Own] = <<>>

\* The n-th object of the job's output is there and has room.
HasRoom(w, n, num_particles) ==
    /\ HasOutput(w.job) /\ n \in DOMAIN w.buffers[w.job.output]
    /\ w.buffers[w.job.output][n].size >= num_particles

\* The object that is named for the element by element output is there.
OffsetIn(w) ==
    w.job.elem_offset # 0 =>
        HasOutput(w.job) /\ w.job.elem_offset < Len(w.buffers[w.job.output])

\* A configuration that has an address has that of its object, which is
\* in front of those of the monitors.
ConfigLive(w) ==
    LET c == w.job.config
    IN  /\ OffsetIn(w)
        /\ c.out_store_addr # NoAddress =>
            /\ c.out_store_addr = Address(w.job.output, w.job.elem_offset + 1)
            /\ HasRoom(w, w.job.elem_offset + 1, OutStoreNumParticles(c))
            /\ w.job.elem_offset < w.job.monitor_offset

ExtentsOK(x) ==
    /\ x.min_turn >= 0 /\ 0 <= x.min_particle_id
    /\ x.min_particle_id <= x.max_particle_id

\* The job has particles and a line.
Equipped(w) ==
    w.job.particles # None /\ w.job.line # None /\ ExtentsOK(w.job.extents)

LineOf(w) == w.lines[w.job.line]
Watching(w) == {i \in DOMAIN LineOf(w) : IsPrepared(LineOf(w)[i], w.job.extents.min_turn)}

\* The monitors with turns ahead of them know the ids ...
Windows(w) ==
    \A i \in Watching(w) :
        /\ LineOf(w)[i].min_particle_id = w.job.extents.min_particle_id
        /\ LineOf(w)[i].max_particle_id = w.job.extents.max_particle_id

ObjectOf(w, i) == w.job.monitor_offset + Cardinality({k \in Watching(w) : k <= i})

\* ... and have the objects of the output in their order.
MonitorsLive(w) ==
    \A i \in Watching(w) :
        /\ ObjectOf(w, i) \in Nat
        /\ LineOf(w)[i].out_address = Address(w.job.output, ObjectOf(w, i))
        /\ HasRoom(w, ObjectOf(w, i), StoredNumParticles(LineOf(w)[i]))

\* A job that is set up.
SetUp(w) ==
    /\ Equipped(w) /\ Windows(w) /\ MonitorsLive(w)
    /\ NeedsMonitors(LineOf(w)) => w.job.monitor_output

TurnsTyped ==
    /\ turn \in [ParticleBuffers -> Seq(Nat)]
    /\ \A b \in ParticleBuffers : Len(turn[b]) = Len(Sets[b])

IInv ==
    /\ TurnsTyped
    /\ Sound(Current) /\ ConfigLive(Current)
    /\ job.usable => SetUp(Current)

\* The lines, set indices and buffers that callers give.
LEMMA Given ==
    /\ \A b \in ParticleBuffers : /\ Sets[b] \in Seq(Nat \X Nat) /\ Len(Sets[b]) \in Nat \ {0}
                                 /\ \A i \in DOMAIN Sets[b] :
                                       /\ Sets[b][i][1] \in Nat /\ Sets[b][i][2] \in Nat
                                       /\ Sets[b][i][1] <= Sets[b][i][2]
    /\ Lines \in [DOMAIN Lines -> Seq(Monitors)]
    /\ NumElements \in Nat /\ Untils \subseteq Nat /\ MaxTurn \in Nat /\ MaxObjects \in Nat
    /\ None \notin ParticleBuffers /\ None \notin DOMAIN Lines
    /\ Own \in Buffers /\ Own \notin Externals /\ Externals \subseteq Buffers
    /\ Buffers \subseteq Nat /\ NoBuffer \notin Buffers /\ NoBuffer \in Int
<1>1. \A b \in ParticleBuffers : Sets[b] \in Seq(Nat \X Nat) /\ Len(Sets[b]) \in Nat \ {0}
    BY TrackJobAssumption
<1>2. ASSUME NEW b \in ParticleBuffers, NEW i \in DOMAIN Sets[b]
      PROVE  /\ Sets[b][i][1] \in Nat /\ Sets[b][i][2] \in Nat
             /\ Sets[b][i][1] <= Sets[b][i][2]
    <2>1. Sets[b][i] \in Nat \X Nat
        BY <1>1
    <2> QED BY <2>1, TrackJobAssumption
<1> QED BY <1>1, <1>2, TrackJobAssumption DEF Buffers, Own, NoBuffer

-----------------------------------------------------------------------------
(* Least and greatest members of sets of numbers.                          *)

LessPairs == {ss \in Nat \X Nat : ss[1] < ss[2]}

\* A set of natural numbers that is not empty has a least member, which is
\* the one MinOf chooses.
LEMMA MinOfNat ==
    ASSUME NEW S \in SUBSET Nat, S # {}
    PROVE  MinOf(S) \in S /\ \A y \in S : MinOf(S) <= y
<1>1. IsWellFoundedOn(LessPairs, Nat)
    BY NatLessThanWellFounded DEF OpToRel, LessPairs
<1>2. PICK x \in S : \A y \in S : ~(<<y, x>> \in LessPairs)
    BY <1>1, WFMin
<1>3. \A y \in S : ~(y < x)
    BY <1>2 DEF LessPairs
<1>4. \A y \in S : x <= y
    BY <1>3
<1> QED BY <1>4 DEF MinOf

\* The same at the other end, if there is a bound.
LEMMA MaxOfNat ==
    ASSUME NEW S \in SUBSET Nat, S # {}, NEW b \in Nat, \A x \in S : x <= b
    PROVE  MaxOf(S) \in S /\ \A y \in S : y <= MaxOf(S)
<1> DEFINE below == {n \in Nat : \E x \in S : n = b - x}
<1>0. \A y \in S : y \in Nat /\ b - y \in Nat
    OBVIOUS
<1>1. below \in SUBSET Nat /\ below # {}
    BY <1>0
<1> HIDE DEF below
<1>2. PICK m \in below : \A y \in below : m <= y
    BY <1>1, MinOfNat
<1>3. PICK x \in S : m = b - x
    BY <1>2 DEF below
<1>4. \A y \in S : b - y \in below
    BY <1>0 DEF below
<1>5. \A y \in S : y <= x
    BY <1>0, <1>2, <1>3, <1>4
<1> QED BY <1>5 DEF MaxOf

\* The last ids of the sets of a particle buffer are bounded.
LEMMA LastIdsBounded ==
    ASSUME NEW p \in ParticleBuffers
    PROVE  \E b \in Nat : \A i \in DOMAIN Sets[p] : Sets[p][i][2] <= b
<1> DEFINE Bounds(n) == \E b \in Nat : \A i \in DOMAIN Sets[p] : i <= n => Sets[p][i][2] <= b
           bad == {n \in Nat : ~Bounds(n)}
<1>1. PICK len \in Nat : DOMAIN Sets[p] = 1 .. len
    BY Given
<1>2. \A i \in 1 .. len : Sets[p][i][2] \in Nat
    BY <1>1, Given
<1>3. bad = {}
    <2> SUFFICES ASSUME bad # {} PROVE FALSE
        OBVIOUS
    <2>1. PICK n \in bad : \A m \in bad : n <= m
        BY MinOfNat
    <2>2. n # 0
        BY <1>1, <2>1
    <2>3. n - 1 \in Nat /\ n - 1 \notin bad
        BY <2>1, <2>2
    <2>4. PICK b \in Nat : \A i \in 1 .. len : i <= n - 1 => Sets[p][i][2] <= b
        BY <1>1, <2>3
    <2>5. \E d \in Nat : b <= d /\ (n \in 1 .. len => Sets[p][n][2] <= d)
        <3>1. CASE n \in 1 .. len
            <4>1. b <= b + Sets[p][n][2] /\ Sets[p][n][2] <= b + Sets[p][n][2]
                  /\ b + Sets[p][n][2] \in Nat
                BY <1>2, <2>4, <3>1
            <4> QED BY <4>1
        <3> QED BY <2>4, <3>1
    <2>6. PICK d \in Nat : b <= d /\ (n \in 1 .. len => Sets[p][n][2] <= d)
        BY <2>5
    <2>7. ASSUME NEW i \in 1 .. len, i <= n PROVE Sets[p][i][2] <= d
        <3>1. CASE i = n
            BY <2>6, <2>7, <3>1
        <3>2. CASE i # n
            BY <1>2, <2>1, <2>4, <2>6, <2>7, <3>2
        <3> QED BY <3>1, <3>2
    <2> QED BY <1>1, <2>1, <2>6, <2>7
<1>4. PICK b \in Nat : \A i \in DOMAIN Sets[p] : i <= len => Sets[p][i][2] <= b
    BY <1>3
<1> QED BY <1>1, <1>4

\* The extents of some sets of a particle buffer are a window of ids, and
\* the turn they begin in.
LEMMA ExtentsAre ==
    ASSUME TurnsTyped, NEW p \in ParticleBuffers, NEW sets, SetsOf(sets, p)
    PROVE  /\ ExtentsOf(p, sets) \in ExtentSets /\ ExtentsOK(ExtentsOf(p, sets))
           /\ FirstTurn(p, sets) \in Nat
<1> DEFINE first == {Sets[p][i + 1][1] : i \in sets}
           last  == {Sets[p][i + 1][2] : i \in sets}
           turns == {turn[p][i + 1] : i \in sets}
<1>1. /\ DOMAIN Sets[p] = 1 .. Len(Sets[p]) /\ DOMAIN turn[p] = 1 .. Len(Sets[p])
      /\ Len(Sets[p]) \in Nat /\ \A i \in DOMAIN turn[p] : turn[p][i] \in Nat
    <2>1. turn[p] \in Seq(Nat) /\ Len(turn[p]) = Len(Sets[p])
        BY DEF TurnsTyped
    <2> QED BY <2>1, Given
<1>2. \A i \in sets : i + 1 \in DOMAIN Sets[p] /\ i + 1 \in DOMAIN turn[p]
    BY <1>1 DEF SetsOf
<1>3. \A i \in sets : /\ Sets[p][i + 1][1] \in Nat /\ Sets[p][i + 1][2] \in Nat
                      /\ turn[p][i + 1] \in Nat /\ Sets[p][i + 1][1] <= Sets[p][i + 1][2]
    BY <1>1, <1>2, Given
<1>4. PICK k \in sets : TRUE
    BY DEF SetsOf
<1>5. first \in SUBSET Nat /\ first # {} /\ last \in SUBSET Nat /\ last # {}
      /\ turns \in SUBSET Nat /\ turns # {}
    BY <1>3, <1>4
<1>6. PICK b \in Nat : \A i \in DOMAIN Sets[p] : Sets[p][i][2] <= b
    BY LastIdsBounded
<1>7. \A x \in last : x <= b
    BY <1>2, <1>6
<1>8. Sets[p][k + 1][1] \in first /\ Sets[p][k + 1][2] \in last
    BY <1>4
<1> HIDE DEF first, last, turns
<1>9. MinOf(first) \in Nat /\ MinOf(first) <= Sets[p][k + 1][1]
    BY <1>5, <1>8, MinOfNat
<1>10. MaxOf(last) \in Nat /\ Sets[p][k + 1][2] <= MaxOf(last)
    BY <1>5, <1>6, <1>7, <1>8, MaxOfNat
<1>11. MinOf(turns) \in Nat
    BY <1>5, MinOfNat
<1>12. /\ ExtentsOf(p, sets).min_particle_id = MinOf(first)
       /\ ExtentsOf(p, sets).max_particle_id = MaxOf(last)
       /\ ExtentsOf(p, sets).min_turn = MinOf(turns) /\ FirstTurn(p, sets) = MinOf(turns)
       /\ ExtentsOf(p, sets) = [min_particle_id |-> MinOf(first), max_particle_id |-> MaxOf(last),
             min_element_id |-> 0, max_element_id |-> NumElements - 1, min_turn |-> MinOf(turns)]
    BY DEF ExtentsOf, FirstTurn, first, last, turns
<1>13. ExtentsOf(p, sets) \in ExtentSets
    BY <1>9, <1>10, <1>11, <1>12, Given DEF ExtentSets
<1> QED BY <1>3, <1>4, <1>9, <1>10, <1>11, <1>12, <1>13 DEF ExtentsOK

-----------------------------------------------------------------------------
(* The layout of an output buffer.                                         *)

\* Sets of positions in a sequence are finite.
LEMMA PositionsFinite ==
    ASSUME NEW S, NEW n \in Nat, S \subseteq 1 .. n
    PROVE  IsFiniteSet(S) /\ Cardinality(S) \in Nat
<1>1. IsFiniteSet(1 .. n)
    BY FS_Interval
<1>2. IsFiniteSet(S)
    BY <1>1, FS_Subset
<1> QED BY <1>2, FS_CardinalityType

\* A position of a set is counted once more than those before it.
LEMMA CountedOnce ==
    ASSUME NEW S, NEW n \in Nat, S \subseteq 1 .. n, NEW i \in S
    PROVE  Cardinality({k \in S : k <= i}) = Cardinality({k \in S : k < i}) + 1
<1> DEFINE before == {k \in S : k < i}
<1>0. \A k \in S : k \in Nat
    OBVIOUS
<1>1. before \subseteq 1 .. n /\ i \notin before /\ {k \in S : k <= i} = before \cup {i}
    <2>1. \A k \in S : k <= i <=> k < i \/ k = i
        BY <1>0
    <2>2. ~(i < i)
        BY <1>0
    <2> QED BY <2>1, <2>2
<1> HIDE DEF before
<1>2. IsFiniteSet(before)
    BY <1>1, PositionsFinite
<1>3. Cardinality(before \cup {i}) = Cardinality(before) + 1
    BY <1>1, <1>2, FS_AddElement
<1> QED BY <1>1, <1>3 DEF before

\* A set of positions has an n-th one for every n up to its size.
LEMMA NthIs ==
    ASSUME NEW S, NEW len \in Nat, S \subseteq 1 .. len,
           NEW n \in 1 .. Cardinality(S)
    PROVE  Nth(S, n) \in S
<1> DEFINE upto(i) == {k \in S : k <= i}
           enough  == {i \in Nat : n <= Cardinality(upto(i))}
<1>0. \A k \in S : k \in Nat /\ 1 <= k /\ k <= len
    OBVIOUS
<1>1. upto(len) = S /\ Cardinality(S) \in Nat
    BY <1>0, PositionsFinite
<1>2. enough # {}
    BY <1>1
<1>3. PICK i \in enough : \A m \in enough : i <= m
    BY <1>2, MinOfNat
<1>4. i # 0
    <2>1. upto(0) = {}
        <3>1. \A k \in S : ~(k <= 0)
            BY <1>0
        <3> QED BY <3>1
    <2>2. 0 \notin enough
        BY <1>0, <1>1, <2>1, FS_EmptySet
    <2> QED BY <1>3, <2>2
<1>5. i - 1 \in Nat /\ i - 1 \notin enough
    <2> HIDE DEF enough
    <2>1. i \in Nat
        BY <1>3 DEF enough
    <2> QED BY <1>3, <1>4, <2>1
<1>6. Cardinality(upto(i)) \in Nat /\ Cardinality(upto(i - 1)) \in Nat
    <2>1. upto(i) \subseteq 1 .. len /\ upto(i - 1) \subseteq 1 .. len
        OBVIOUS
    <2> HIDE DEF upto
    <2> QED BY <2>1, PositionsFinite
<1>7. n <= Cardinality(upto(i)) /\ Cardinality(upto(i - 1)) < n
    BY <1>3, <1>5, <1>6
<1>8. i \in S
    <2> SUFFICES ASSUME i \notin S PROVE FALSE
        OBVIOUS
    <2>1. \A k \in S : k <= i <=> k <= i - 1
        BY <1>0, <1>3
    <2>2. upto(i) = upto(i - 1)
        BY <2>1
    <2> QED BY <1>6, <1>7, <2>2
<1>9. upto(i - 1) = {k \in S : k < i}
    <2>1. \A k \in S : k <= i - 1 <=> k < i
        BY <1>0, <1>3
    <2> QED BY <2>1
<1>10. Cardinality(upto(i)) = Cardinality(upto(i - 1)) + 1
    BY <1>8, <1>9, CountedOnce
<1>11. Cardinality({k \in S : k <= i}) = n
    BY <1>6, <1>7, <1>10
<1> QED BY <1>8, <1>11 DEF Nth

\* What a monitor stores, and a monitor that learns ids.
LEMMA MonitorTypes ==
    ASSUME NEW m \in Monitors, NEW x \in ExtentSets, NEW a \in Nat
    PROVE  /\ StoredNumParticles(m) \in Nat /\ ParticlesPerTurn(m) \in Int
           /\ MonitorFor(m, x) \in Monitors
           /\ [m EXCEPT !.out_address = a] \in Monitors
           /\ MonitorReset(m) \in Monitors
<1>1. ParticlesPerTurn(m) \in Int /\ m.num_stores \in Nat
    BY DEF Monitors, ParticlesPerTurn
<1>2. StoredNumParticles(m) \in Nat
    <2>1. CASE 0 <= m.min_particle_id /\ m.min_particle_id <= m.max_particle_id
        <3>1. ParticlesPerTurn(m) \in Nat
            BY <2>1 DEF Monitors, ParticlesPerTurn
        <3> HIDE DEF ParticlesPerTurn
        <3>2. ParticlesPerTurn(m) * m.num_stores \in Nat
            BY <1>1, <3>1
        <3> QED BY <2>1, <3>2 DEF StoredNumParticles
    <2>2. CASE ~(0 <= m.min_particle_id /\ m.min_particle_id <= m.max_particle_id)
        BY <2>2 DEF StoredNumParticles
    <2> QED BY <2>1, <2>2
<1>3. MonitorFor(m, x) \in Monitors
    BY DEF Monitors, ExtentSets, MonitorFor
<1>4. [m EXCEPT !.out_address = a] \in Monitors
    BY DEF Monitors
<1>5. MonitorReset(m) \in Monitors
    <2> DEFINE n == [m EXCEPT !.out_address = NullAddress]
    <2>1. n \in Monitors /\ -1 \in Int
        BY DEF Monitors, NullAddress
    <2>2. MonitorReset(m) = [n EXCEPT !.min_particle_id = -1, !.max_particle_id = -1]
        BY Zenon DEF MonitorReset
    <2> HIDE DEF n
    <2> QED BY <2>1, <2>2 DEF Monitors
<1> QED BY <1>1, <1>2, <1>3, <1>4, <1>5

\* Monitors of one schedule.
SameSchedule(m, n) == m.num_stores = n.num_stores /\ m.start = n.start

\* The n-th monitors of two lines have one schedule.
SameLine(line, other) ==
    /\ DOMAIN line = DOMAIN other
    /\ \A i \in DOMAIN line : SameSchedule(line[i], other[i])

\* Preparing keeps the schedules, and gives the particle ids to the monitors
\* with turns ahead of them.
LEMMA PreparedLineIs ==
    ASSUME NEW line \in Seq(Monitors), NEW x \in ExtentSets
    PROVE  /\ PreparedLine(line, x) \in Seq(Monitors)
           /\ SameLine(PreparedLine(line, x), line)
           /\ \A i \in DOMAIN line : IsPrepared(line[i], x.min_turn) =>
                 /\ PreparedLine(line, x)[i].min_particle_id = x.min_particle_id
                 /\ PreparedLine(line, x)[i].max_particle_id = x.max_particle_id
<1>1. PICK len \in Nat : len = Len(line) /\ DOMAIN line = 1 .. len
    OBVIOUS
<1>2. ASSUME NEW i \in 1 .. len
      PROVE  /\ PreparedLine(line, x)[i] \in Monitors
             /\ SameSchedule(PreparedLine(line, x)[i], line[i])
             /\ IsPrepared(line[i], x.min_turn) =>
                 /\ PreparedLine(line, x)[i].min_particle_id = x.min_particle_id
                 /\ PreparedLine(line, x)[i].max_particle_id = x.max_particle_id
    <2>1. line[i] \in Monitors
        BY <1>1
    <2>2. CASE IsPrepared(line[i], x.min_turn)
        <3>1. PreparedLine(line, x)[i]
                = [MonitorFor(line[i], x) EXCEPT !.out_address = NullAddress]
            BY <1>1, <2>2 DEF PreparedLine
        <3>2. MonitorFor(line[i], x) \in Monitors
            BY <2>1, MonitorTypes
        <3>3. [MonitorFor(line[i], x) EXCEPT !.out_address = NullAddress] \in Monitors
            BY <3>2, MonitorTypes DEF NullAddress
        <3>4. /\ MonitorFor(line[i], x).num_stores = line[i].num_stores
              /\ MonitorFor(line[i], x).start = line[i].start
              /\ MonitorFor(line[i], x).min_particle_id = x.min_particle_id
              /\ MonitorFor(line[i], x).max_particle_id = x.max_particle_id
            BY <2>1 DEF MonitorFor, Monitors
        <3> HIDE DEF MonitorFor
        <3>5. LET m == [MonitorFor(line[i], x) EXCEPT !.out_address = NullAddress]
              IN  /\ m.num_stores = MonitorFor(line[i], x).num_stores
                  /\ m.start = MonitorFor(line[i], x).start
                  /\ m.min_particle_id = MonitorFor(line[i], x).min_particle_id
                  /\ m.max_particle_id = MonitorFor(line[i], x).max_particle_id
            BY <3>2 DEF Monitors
        <3> QED BY <3>1, <3>3, <3>4, <3>5 DEF SameSchedule
    <2>3. CASE ~IsPrepared(line[i], x.min_turn)
        BY <1>1, <2>1, <2>3 DEF PreparedLine, SameSchedule
    <2> QED BY <2>2, <2>3
<1>3. PreparedLine(line, x) = [i \in 1 .. len |-> PreparedLine(line, x)[i]]
    BY <1>1 DEF PreparedLine
<1>4. PreparedLine(line, x) \in Seq(Monitors) /\ DOMAIN PreparedLine(line, x) = 1 .. len
    BY <1>2, <1>3
<1> QED BY <1>1, <1>2, <1>4 DEF SameLine

\* The objects that preparing asks for have sizes.
LEMMA MonitorSizesTyped ==
    ASSUME NEW line \in Seq(Monitors), NEW x \in ExtentSets
    PROVE  MonitorSizes(line, x) \in Seq(Nat)
<1> DEFINE prepared == {i \in DOMAIN line : IsPrepared(line[i], x.min_turn)}
<1>1. prepared \subseteq 1 .. Len(line) /\ Len(line) \in Nat
    OBVIOUS
<1>2. Cardinality(prepared) \in Nat
    BY <1>1, PositionsFinite
<1>3. ASSUME NEW n \in 1 .. Cardinality(prepared)
      PROVE  StoredNumParticles(PreparedLine(line, x)[Nth(prepared, n)]) \in Nat
    <2>1. Nth(prepared, n) \in 1 .. Len(line)
        BY <1>1, NthIs
    <2>2. PreparedLine(line, x)[Nth(prepared, n)] \in Monitors
        BY <2>1, PreparedLineIs DEF SameLine
    <2> QED BY <2>2, MonitorTypes
<1> QED BY <1>2, <1>3 DEF MonitorSizes

\* A fresh configuration is typed and has no address.
LEMMA FreshConfig ==
    ASSUME NEW x \in ExtentSets, NEW until \in Nat
    PROVE  /\ ElemByElemFor(x, until) \in Configs
           /\ ElemByElemFor(x, until).out_store_addr = NoAddress
           /\ NoConfig \in Configs /\ NoConfig.out_store_addr = NoAddress
<1>1. NoConfig \in Configs /\ NoConfig.out_store_addr = NoAddress
    <2>1. -1 \in Int
        OBVIOUS
    <2> QED BY <2>1 DEF NoConfig, Preset, EmptyConfig, Configs, Orders, NoAddress
<1> DEFINE window == [min_particle_id |-> x.min_particle_id,
                      max_particle_id |-> x.max_particle_id,
                      min_element_id  |-> x.min_element_id,
                      max_element_id  |-> x.max_element_id,
                      min_turn        |-> x.min_turn,
                      max_turn        |-> until - 1]
<1>2. ElemByElemFor(x, until) = InitDetailed(Preset, TurnElemParticles, window, TRUE)
    BY Zenon DEF ElemByElemFor
<1>3. /\ window.min_particle_id \in Int /\ window.max_particle_id \in Int
      /\ window.min_element_id \in Int /\ window.max_element_id \in Int
      /\ window.min_turn \in Int /\ window.max_turn \in Int
    BY DEF ExtentSets
<1> HIDE DEF window
<1>4. CASE ValidWindow(window)
    <2>1. /\ window.max_particle_id - window.min_particle_id + 1 \in Nat
          /\ window.max_element_id - window.min_element_id + 1 \in Nat
          /\ window.max_turn - window.min_turn + 1 \in Nat
        BY <1>3, <1>4 DEF ValidWindow
    <2>2. TurnElemParticles # InvalidOrder /\ TurnElemParticles \in Orders
        BY DEF TurnElemParticles, InvalidOrder, Orders
    <2> QED BY <1>1, <1>2, <1>3, <1>4, <2>1, <2>2 DEF InitDetailed, Configs, NoAddress
<1>5. CASE ~ValidWindow(window)
    BY <1>1, <1>2, <1>5 DEF InitDetailed, NoConfig
<1> QED BY <1>1, <1>4, <1>5

\* What a configuration stores.
LEMMA OutStoreTyped ==
    ASSUME NEW c \in Configs
    PROVE  OutStoreNumParticles(c) \in Nat
<1>1. c.num_particles \in Nat /\ c.num_elements \in Nat /\ c.num_turns \in Nat
    BY DEF Configs
<1>2. c.num_particles * c.num_elements \in Nat
    BY <1>1
<1>3. (c.num_particles * c.num_elements) * c.num_turns \in Nat
    BY <1>1, <1>2
<1> QED BY <1>3 DEF OutStoreNumParticles

\* The new objects of a buffer have sizes.
LEMMA OutputSizesTyped ==
    ASSUME NEW line \in Seq(Monitors), NEW x \in ExtentSets, NEW until \in Nat
    PROVE  /\ OutputSizes(line, x, until) \in Seq(Nat)
           /\ NeedsElemByElem(x.min_turn, until) => Len(OutputSizes(line, x, until)) > 0
           /\ NeedsElemByElem(x.min_turn, until) => Len(ElemByElemSizes(x, until)) = 1
           /\ ~NeedsElemByElem(x.min_turn, until) => Len(ElemByElemSizes(x, until)) = 0
<1>1. MonitorSizes(line, x) \in Seq(Nat)
    BY MonitorSizesTyped
<1>2. OutStoreNumParticles(ElemByElemFor(x, until)) \in Nat
    BY FreshConfig, OutStoreTyped
<1>3. ElemByElemSizes(x, until) \in Seq(Nat)
    BY <1>2 DEF ElemByElemSizes
<1> QED BY <1>1, <1>3 DEF OutputSizes, ElemByElemSizes

\* Objects at the end of a buffer are at their places, as those before them.
LEMMA GrownPlaced ==
    ASSUME NEW objects \in Seq(Objects), NEW b \in Buffers, Placed(objects, b),
           NEW sizes \in Seq(Nat)
    PROVE  Grown(objects, b, sizes) \in Seq(Objects) /\ Placed(Grown(objects, b, sizes), b)
<1> DEFINE new == [i \in 1 .. Len(sizes) |->
                    [addr |-> Address(b, Len(objects) + i), size |-> sizes[i]]]
<1>1. PICK n \in Nat : n = Len(objects) /\ DOMAIN objects = 1 .. n
    OBVIOUS
<1>2. PICK k \in Nat : k = Len(sizes)
    OBVIOUS
<1>3. ASSUME NEW i \in Nat \ {0} PROVE Address(b, i) \in Nat \ {0}
    <2>1. b \in Nat /\ MaxObjects \in Nat
        BY Given
    <2>2. b * MaxObjects \in Nat
        BY <2>1
    <2> QED BY <2>2 DEF Address
<1>4. ASSUME NEW i \in 1 .. k PROVE new[i] \in Objects /\ new[i].addr = Address(b, n + i)
    <2>1. n + i \in Nat \ {0} /\ sizes[i] \in Nat
        BY <1>1, <1>2
    <2>2. Address(b, n + i) \in Nat \ {0}
        BY <1>3, <2>1
    <2> QED BY <1>1, <1>2, <2>1, <2>2 DEF Objects
<1>5. new \in Seq(Objects) /\ Len(new) = k
    BY <1>2, <1>4
<1> HIDE DEF new
<1>6. Grown(objects, b, sizes) = objects \o new
    BY Zenon DEF Grown, new
<1>7. objects \o new \in Seq(Objects) /\ Len(objects \o new) = n + k
      /\ \A i \in 1 .. n + k : (objects \o new)[i] = IF i <= n THEN objects[i] ELSE new[i - n]
    BY <1>1, <1>5, ConcatProperties
<1>8. ASSUME NEW i \in 1 .. n + k PROVE (objects \o new)[i].addr = Address(b, i)
    <2>1. CASE i <= n
        <3>1. i \in DOMAIN objects /\ (objects \o new)[i] = objects[i]
            BY <1>1, <1>7, <2>1
        <3> QED BY <3>1 DEF Placed
    <2>2. CASE ~(i <= n)
        <3>1. i - n \in 1 .. k /\ n + (i - n) = i
            BY <2>2
        <3>2. (objects \o new)[i] = new[i - n]
            BY <1>7, <2>2
        <3>3. new[i - n].addr = Address(b, n + (i - n))
            BY <1>4, <3>1
        <3> QED BY <3>1, <3>2, <3>3
    <2> QED BY <2>1, <2>2
<1> QED BY <1>6, <1>7, <1>8 DEF Placed

\* Monitors that differ in nothing but their output address.
SameButAddress(m, n) ==
    /\ SameSchedule(m, n)
    /\ m.min_particle_id = n.min_particle_id /\ m.max_particle_id = n.max_particle_id

\* A monitor that points to one of some objects, which has room for it.
LedTo(m, objects) ==
    \E n \in DOMAIN objects : /\ m.out_address = objects[n].addr
                              /\ ParticlesPerTurn(m) * m.num_stores <= objects[n].size

\* Assigning leads monitors to objects with room or leaves them.  If it succeeds,
\* every monitor that takes an object points to the one that its rank among them
\* names, which is there and has room.
LEMMA AssignMonitorsIs ==
    ASSUME NEW line \in Seq(Monitors), NEW objects \in Seq(Objects), NEW first \in Int,
           NEW offset \in Nat
    PROVE  LET a == AssignMonitors(line, objects, first, offset)
           IN  /\ a.line \in Seq(Monitors) /\ a.status \in {"success", "failure"}
               /\ DOMAIN a.line = DOMAIN line
               /\ \A i \in DOMAIN line : SameButAddress(a.line[i], line[i])
               /\ \A i \in DOMAIN line : a.line[i] = line[i] \/ LedTo(a.line[i], objects)
               /\ a.status = "success" <=> Reaches(line, objects, first, offset, Len(line))
               /\ a.status = "success" =>
                    \A i \in DOMAIN line : Takes(line[i], first) =>
                        LET n == NextObject(line, first, offset, i)
                        IN  /\ n \in DOMAIN objects
                            /\ a.line[i].out_address = objects[n].addr
                            /\ ParticlesPerTurn(line[i]) * line[i].num_stores <= objects[n].size
<1> DEFINE a == AssignMonitors(line, objects, first, offset)
           Next1(i) == NextObject(line, first, offset, i)
           Taking(i) == Takes(line[i], first) /\ Reaches(line, objects, first, offset, i)
<1>1. PICK len \in Nat : len = Len(line) /\ DOMAIN line = 1 .. len
    OBVIOUS
<1>2. /\ a.line = [i \in 1 .. len |->
                    IF Taking(i) THEN [line[i] EXCEPT !.out_address = objects[Next1(i)].addr]
                    ELSE line[i]]
      /\ a.status = IF Reaches(line, objects, first, offset, len) THEN "success" ELSE "failure"
    BY <1>1 DEF AssignMonitors
<1>3. ASSUME NEW i \in 1 .. len, Passes(line, objects, first, offset, i)
      PROVE  Next1(i) \in DOMAIN objects
    <2> DEFINE before == {k \in DOMAIN line : k < i /\ Takes(line[k], first)}
    <2>1. before \subseteq 1 .. len
        BY <1>1
    <2>2. Cardinality(before) \in Nat
        BY <2>1, PositionsFinite
    <2>3. Next1(i) = offset + 1 + Cardinality(before)
        BY DEF NextObject
    <2> HIDE DEF before
    <2>4. Next1(i) \in Nat \ {0}
        BY <2>2, <2>3
    <2>5. Next1(i) <= Len(objects)
        BY <1>3 DEF Passes
    <2> QED BY <2>4, <2>5
<1>4. ASSUME NEW i \in 1 .. len
      PROVE  a.line[i] \in Monitors /\ SameButAddress(a.line[i], line[i])
    <2>1. line[i] \in Monitors
        BY <1>1
    <2>2. CASE Taking(i)
        <3>1. Passes(line, objects, first, offset, i)
            BY <2>2 DEF Reaches
        <3>2. objects[Next1(i)].addr \in Nat
            <4>1. objects[Next1(i)] \in Objects
                BY <1>3, <3>1
            <4> QED BY <4>1 DEF Objects
        <3>3. a.line[i] = [line[i] EXCEPT !.out_address = objects[Next1(i)].addr]
            BY <1>2, <2>2
        <3> HIDE DEF a, Next1
        <3>4. PICK addr \in Nat : a.line[i] = [line[i] EXCEPT !.out_address = addr]
            BY <3>2, <3>3
        <3> QED BY <2>1, <3>4 DEF Monitors, SameButAddress, SameSchedule
    <2>3. CASE ~Taking(i)
        BY <1>2, <2>1, <2>3 DEF SameButAddress, SameSchedule
    <2> QED BY <2>2, <2>3
<1>5. a.line \in Seq(Monitors) /\ DOMAIN a.line = 1 .. len
    <2>1. a.line = [i \in 1 .. len |-> a.line[i]]
        BY <1>2
    <2> HIDE DEF a
    <2> QED BY <1>4, <2>1
<1>6. ASSUME a.status = "success", NEW i \in 1 .. len, Takes(line[i], first)
      PROVE  /\ Next1(i) \in DOMAIN objects
             /\ a.line[i].out_address = objects[Next1(i)].addr
             /\ ParticlesPerTurn(line[i]) * line[i].num_stores <= objects[Next1(i)].size
    <2>1. Reaches(line, objects, first, offset, len)
        BY <1>2, <1>6
    <2>2. Reaches(line, objects, first, offset, i) /\ Passes(line, objects, first, offset, i)
        <3>1. \A k \in 1 .. i : k \in 1 .. len
            OBVIOUS
        <3> QED BY <2>1, <3>1 DEF Reaches
    <2>3. a.line[i] = [line[i] EXCEPT !.out_address = objects[Next1(i)].addr]
        BY <1>2, <1>6, <2>2
    <2>4. line[i] \in Monitors
        BY <1>1
    <2>5. a.line[i].out_address = objects[Next1(i)].addr
        BY <2>3, <2>4 DEF Monitors
    <2> QED BY <1>3, <1>6, <2>2, <2>5 DEF Passes
<1>7. ASSUME NEW i \in 1 .. len
      PROVE  a.line[i] = line[i] \/ LedTo(a.line[i], objects)
    <2>1. CASE Taking(i)
        <3>1. Passes(line, objects, first, offset, i) /\ Takes(line[i], first)
            BY <2>1 DEF Reaches
        <3>2. /\ Next1(i) \in DOMAIN objects
              /\ ParticlesPerTurn(line[i]) * line[i].num_stores <= objects[Next1(i)].size
            BY <1>3, <3>1 DEF Passes
        <3>3. a.line[i].out_address = objects[Next1(i)].addr
            <4>1. a.line[i] = [line[i] EXCEPT !.out_address = objects[Next1(i)].addr]
                BY <1>2, <2>1
            <4>2. line[i] \in Monitors
                BY <1>1
            <4> QED BY <4>1, <4>2 DEF Monitors
        <3>4. ParticlesPerTurn(a.line[i]) = ParticlesPerTurn(line[i])
              /\ a.line[i].num_stores = line[i].num_stores
            BY <1>4 DEF SameButAddress, SameSchedule, ParticlesPerTurn
        <3> QED BY <3>2, <3>3, <3>4 DEF LedTo
    <2>2. CASE ~Taking(i)
        BY <1>2, <2>2
    <2> QED BY <2>1, <2>2
<1>8. a.status = "success" <=> Reaches(line, objects, first, offset, Len(line))
    BY <1>1, <1>2
<1>9. a.status \in {"success", "failure"}
    BY <1>2
<1> HIDE DEF a, Taking
<1>10. /\ a.line \in Seq(Monitors) /\ a.status \in {"success", "failure"}
       /\ DOMAIN a.line = DOMAIN line
       /\ \A i \in DOMAIN line : SameButAddress(a.line[i], line[i])
       /\ \A i \in DOMAIN line : a.line[i] = line[i] \/ LedTo(a.line[i], objects)
    BY <1>1, <1>4, <1>5, <1>7, <1>9
<1> QED BY <1>1, <1>6, <1>8, <1>10 DEF a

-----------------------------------------------------------------------------
(* Worlds, and what moving and freeing objects changes of them.            *)

\* The members of a world are typed.
LEMMA WorldTypes ==
    ASSUME NEW w \in Worlds
    PROVE  /\ w.job \in Jobs /\ w.lines \in [DOMAIN Lines -> Seq(Monitors)]
           /\ w.buffers \in [Buffers -> Seq(Objects)] /\ w.status \in {"success", "failure"}
           /\ w.job.particles \in ParticleBuffers \cup {None} /\ w.job.sets \in SUBSET Nat
           /\ w.job.extents \in ExtentSets /\ w.job.line \in DOMAIN Lines \cup {None}
           /\ w.job.output \in Buffers \cup {NoBuffer} /\ w.job.config \in Configs
           /\ w.job.elem_offset \in Nat /\ w.job.monitor_offset \in Nat
    BY DEF Worlds, Jobs

\* What no call changes on its way: the inputs it works on.
SameInputs(r, w) ==
    /\ r.job.particles = w.job.particles /\ r.job.sets = w.job.sets
    /\ r.job.extents = w.job.extents /\ r.job.line = w.job.line

\* What only assigning changes.
SameFlags(r, w) ==
    /\ r.job.elem_output = w.job.elem_output
    /\ r.job.monitor_output = w.job.monitor_output

\* The lines of two worlds have the same schedules.
SameLines(r, w) == \A l \in DOMAIN Lines : SameLine(r.lines[l], w.lines[l])

\* A world that differs from another in its parts is one if they are typed.
LEMMA WorldIs ==
    ASSUME NEW j \in Jobs, NEW l \in [DOMAIN Lines -> Seq(Monitors)],
           NEW b \in [Buffers -> Seq(Objects)], NEW status \in {"success", "failure"}
    PROVE  /\ World(j, l, b, status) \in Worlds
           /\ World(j, l, b, status).job = j /\ World(j, l, b, status).lines = l
           /\ World(j, l, b, status).buffers = b /\ World(j, l, b, status).status = status
    BY DEF World, Worlds

\* Moving objects changes addresses that point to them, and nothing else.
LEMMA MovedIs ==
    ASSUME NEW w \in Worlds, NEW b
    PROVE  /\ Moved(w, b) \in Worlds
           /\ SameInputs(Moved(w, b), w) /\ SameFlags(Moved(w, b), w)
           /\ SameLines(Moved(w, b), w)
           /\ Moved(w, b).job.output = w.job.output
           /\ Moved(w, b).job.output_cxx = w.job.output_cxx
           /\ Moved(w, b).buffers = w.buffers /\ Moved(w, b).status = w.status
<1> DEFINE config == [w.job.config EXCEPT !.out_store_addr = AfterMove(@, b)]
           Line(l) == LineAfterMove(w.lines[l], b)
           moved == [l \in DOMAIN Lines |-> Line(l)]
<1>1. ASSUME NEW addr \in Nat PROVE AfterMove(addr, b) \in Nat
    BY DEF AfterMove, Dangling
<1>2. config \in Configs
    <2>1. w.job.config \in Configs /\ w.job.config.out_store_addr \in Nat
        BY DEF Worlds, Jobs, Configs
    <2>2. PICK addr \in Nat : addr = AfterMove(w.job.config.out_store_addr, b)
        BY <1>1, <2>1
    <2>3. config = [w.job.config EXCEPT !.out_store_addr = addr]
        BY <2>2
    <2> QED BY <2>1, <2>2, <2>3 DEF Configs
<1>3. ASSUME NEW l \in DOMAIN Lines
      PROVE  Line(l) \in Seq(Monitors) /\ SameLine(Line(l), w.lines[l])
    <2>1. w.lines[l] \in Seq(Monitors)
        BY WorldTypes
    <2>2. PICK line \in Seq(Monitors) : line = w.lines[l]
        BY <2>1
    <2>3. PICK len \in Nat : DOMAIN line = 1 .. len
        BY <2>2
    <2>4. ASSUME NEW i \in 1 .. len
          PROVE  Line(l)[i] \in Monitors /\ SameSchedule(Line(l)[i], line[i])
        <3>1. line[i] \in Monitors /\ line[i].out_address \in Nat
            <4>1. line[i] \in Monitors
                BY <2>3
            <4> QED BY <4>1 DEF Monitors
        <3>2. PICK addr \in Nat : addr = AfterMove(line[i].out_address, b)
            BY <1>1, <3>1
        <3>3. Line(l)[i] = [line[i] EXCEPT !.out_address = addr]
            BY <2>2, <2>3, <3>2 DEF LineAfterMove
        <3> QED BY <3>1, <3>3 DEF Monitors, SameSchedule
    <2>5. Line(l) = [i \in 1 .. len |-> Line(l)[i]]
        BY <2>2, <2>3 DEF LineAfterMove
    <2> HIDE DEF Line
    <2> QED BY <2>2, <2>3, <2>4, <2>5 DEF SameLine
<1>4. moved \in [DOMAIN Lines -> Seq(Monitors)] /\ \A l \in DOMAIN Lines : moved[l] = Line(l)
    BY <1>3
<1>5. Moved(w, b) = [w EXCEPT !.lines = moved, !.job.config = config]
    BY Zenon DEF Moved
<1> HIDE DEF moved, config, Line
<1>6. [w.job EXCEPT !.config = config] \in Jobs
    BY <1>2, WorldTypes DEF Jobs
<1>7. Moved(w, b) = [w EXCEPT !.lines = moved, !.job = [w.job EXCEPT !.config = config]]
    BY <1>5 DEF Worlds
<1>8. Moved(w, b) = World([w.job EXCEPT !.config = config], moved, w.buffers, w.status)
    BY <1>7 DEF Worlds, World
<1>9. LET j == [w.job EXCEPT !.config = config]
      IN  /\ j.particles = w.job.particles /\ j.sets = w.job.sets
          /\ j.extents = w.job.extents /\ j.line = w.job.line
          /\ j.elem_output = w.job.elem_output
          /\ j.monitor_output = w.job.monitor_output
          /\ j.output = w.job.output /\ j.output_cxx = w.job.output_cxx
    BY DEF Worlds, Jobs
<1>10. /\ Moved(w, b) \in Worlds /\ Moved(w, b).job = [w.job EXCEPT !.config = config]
       /\ Moved(w, b).lines = moved /\ Moved(w, b).buffers = w.buffers
       /\ Moved(w, b).status = w.status
    BY <1>4, <1>6, <1>8, WorldTypes, WorldIs
<1>11. SameLines(Moved(w, b), w)
    BY <1>3, <1>4, <1>10 DEF SameLines
<1> HIDE DEF Moved
<1> QED BY <1>9, <1>10, <1>11 DEF SameInputs, SameFlags

\* Moving objects leaves a world as it has to be.
LEMMA MovedSound ==
    ASSUME NEW w, Sound(w), NEW b
    PROVE  Sound(Moved(w, b))
    BY MovedIs DEF Sound, SameInputs, SameFlags, OwnsOutput, HasOutput

\* An empty buffer in the place of the job's own: nothing else is freed.
LEMMA FreeOwnIs ==
    ASSUME NEW w, Sound(w)
    PROVE  /\ FreeOwn(w) \in Worlds
           /\ SameInputs(FreeOwn(w), w) /\ SameFlags(FreeOwn(w), w)
           /\ SameLines(FreeOwn(w), w)
           /\ FreeOwn(w).job.output = w.job.output
           /\ FreeOwn(w).job.output_cxx = w.job.output_cxx
           /\ FreeOwn(w).buffers[Own] = <<>>
           /\ \A b \in Buffers : Placed(FreeOwn(w).buffers[b], b)
           /\ FreeOwn(w).status = w.status
<1>1. w \in Worlds /\ Own \in Buffers
    BY Given DEF Sound
<1>2. PICK m \in Worlds : m = Moved(w, Own)
    BY <1>1, MovedIs
<1>3. /\ SameInputs(m, w) /\ SameFlags(m, w) /\ SameLines(m, w)
      /\ m.job.output = w.job.output /\ m.job.output_cxx = w.job.output_cxx
      /\ m.buffers = w.buffers /\ m.status = w.status
    BY <1>1, <1>2, MovedIs
<1>4. FreeOwn(w) = [m EXCEPT !.buffers = [m.buffers EXCEPT ![Own] = <<>>]]
    BY <1>2 DEF FreeOwn, Worlds
<1>5. m.buffers \in [Buffers -> Seq(Objects)] /\ <<>> \in Seq(Objects)
    BY <1>2, WorldTypes
<1>6. [m.buffers EXCEPT ![Own] = <<>>] \in [Buffers -> Seq(Objects)]
    BY <1>5
<1>7. FreeOwn(w) = World(m.job, m.lines, [m.buffers EXCEPT ![Own] = <<>>], m.status)
    BY <1>4 DEF World, Worlds
<1>8. /\ FreeOwn(w) \in Worlds /\ FreeOwn(w).job = m.job /\ FreeOwn(w).lines = m.lines
      /\ FreeOwn(w).buffers = [m.buffers EXCEPT ![Own] = <<>>] /\ FreeOwn(w).status = m.status
    <2>1. m.job \in Jobs /\ m.lines \in [DOMAIN Lines -> Seq(Monitors)]
          /\ m.status \in {"success", "failure"}
        BY <1>2, WorldTypes
    <2> HIDE DEF FreeOwn
    <2> QED BY <1>6, <1>7, <2>1 DEF World, Worlds
<1>9. FreeOwn(w).buffers[Own] = <<>>
    BY <1>1, <1>5, <1>8
<1>10. ASSUME NEW b \in Buffers PROVE Placed(FreeOwn(w).buffers[b], b)
    <2>1. CASE b = Own
        BY <1>9, <2>1 DEF Placed
    <2>2. CASE b # Own
        BY <1>3, <1>5, <1>8, <2>2 DEF Sound
    <2> QED BY <2>1, <2>2
<1> HIDE DEF FreeOwn
<1> QED BY <1>3, <1>8, <1>9, <1>10 DEF SameInputs, SameFlags, SameLines

\* Another output buffer, and nothing else.
LEMMA SetOutputIs ==
    ASSUME NEW w \in Worlds, NEW output \in Buffers \cup {NoBuffer}
    PROVE  /\ SetOutput(w, output) \in Worlds
           /\ SameInputs(SetOutput(w, output), w) /\ SameFlags(SetOutput(w, output), w)
           /\ SetOutput(w, output).job.config = w.job.config
           /\ SetOutput(w, output).job.elem_offset = w.job.elem_offset
           /\ SetOutput(w, output).lines = w.lines
           /\ SetOutput(w, output).buffers = w.buffers
           /\ SetOutput(w, output).status = w.status
           /\ SetOutput(w, output).job.output = output
<1>1. PICK cxx \in BOOLEAN : cxx = (w.job.output_cxx /\ output = w.job.output)
    OBVIOUS
<1> DEFINE j == [w.job EXCEPT !.output = output, !.output_cxx = cxx]
<1>2. SetOutput(w, output) = World(j, w.lines, w.buffers, w.status)
    <2> DEFINE u == [w EXCEPT !.job.output = output]
    <2>1. w.job \in Jobs
        BY WorldTypes
    <2>2. /\ u.job = [w.job EXCEPT !.output = output] /\ u.lines = w.lines
          /\ u.buffers = w.buffers /\ u.status = w.status /\ u \in Worlds
        BY <2>1 DEF Worlds, Jobs
    <2>3. SetOutput(w, output) = [u EXCEPT !.job.output_cxx = cxx]
        BY <1>1, <2>1 DEF SetOutput, Worlds, Jobs
    <2> HIDE DEF u
    <2>4. [u EXCEPT !.job.output_cxx = cxx]
            = World([u.job EXCEPT !.output_cxx = cxx], u.lines, u.buffers, u.status)
        BY <2>2 DEF Worlds, World
    <2>5. [u.job EXCEPT !.output_cxx = cxx] = j
        BY <2>1, <2>2 DEF Jobs
    <2> QED BY <2>2, <2>3, <2>4, <2>5
<1>3. /\ j \in Jobs /\ j.output = output /\ j.config = w.job.config
      /\ j.particles = w.job.particles /\ j.sets = w.job.sets
      /\ j.extents = w.job.extents /\ j.line = w.job.line
      /\ j.elem_output = w.job.elem_output /\ j.monitor_output = w.job.monitor_output
      /\ j.elem_offset = w.job.elem_offset
    BY DEF Worlds, Jobs
<1> HIDE DEF j, SetOutput
<1>4. /\ SetOutput(w, output) \in Worlds /\ SetOutput(w, output).job = j
      /\ SetOutput(w, output).lines = w.lines /\ SetOutput(w, output).buffers = w.buffers
      /\ SetOutput(w, output).status = w.status
    BY <1>2, <1>3, WorldTypes DEF World, Worlds
<1> QED BY <1>3, <1>4 DEF SameInputs, SameFlags

\* Every world is on its lines.
LEMMA SameLinesOften ==
    ASSUME NEW w, NEW r, NEW s, w \in Worlds
    PROVE  /\ r.lines = w.lines => SameLines(r, w)
           /\ SameLines(r, s) /\ SameLines(s, w) => SameLines(r, w)
    BY DEF SameLines, SameLine, SameSchedule

\* A job that has to choose a buffer ends up with one, or fails where it is.
LEMMA SelectOutputIs ==
    ASSUME NEW w, Sound(w), NEW output \in Buffers \cup {NoBuffer},
           output = Own => OwnsOutput(w.job), Succeeds(w)
    PROVE  LET s == SelectOutput(w, output)
           IN  /\ ~Succeeds(s) => s = Failed(w)
               /\ Succeeds(s) =>
                    /\ Sound(s) /\ HasOutput(s.job) /\ SameInputs(s, w) /\ SameFlags(s, w)
                    /\ SameLines(s, w)
<1>1. w \in Worlds /\ Own \in Buffers /\ NoBuffer # Own /\ NoBuffer \notin Buffers
    BY Given DEF Sound
<1>2. CASE output = NoBuffer /\ HasOutput(w.job)
    <2>1. SelectOutput(w, output) = w
        BY <1>2 DEF SelectOutput
    <2> QED BY <1>1, <1>2, <2>1, SameLinesOften DEF SameInputs, SameFlags
<1>3. CASE output = NoBuffer /\ ~HasOutput(w.job)
    <2> DEFINE j == [w.job EXCEPT !.output = Own, !.output_cxx = TRUE]
    <2>1. SelectOutput(w, output) = World(j, w.lines, w.buffers, w.status)
        BY <1>1, <1>3 DEF SelectOutput, World, Worlds
    <2>2. /\ j \in Jobs /\ j.output = Own /\ j.output_cxx = TRUE
          /\ j.particles = w.job.particles /\ j.sets = w.job.sets
          /\ j.extents = w.job.extents /\ j.line = w.job.line
          /\ j.elem_output = w.job.elem_output /\ j.monitor_output = w.job.monitor_output
        BY <1>1 DEF Worlds, Jobs
    <2> HIDE DEF j
    <2>3. PICK s \in Worlds : /\ s = SelectOutput(w, output)
                              /\ s.job = j /\ s.lines = w.lines /\ s.buffers = w.buffers
                              /\ s.status = w.status
        BY <1>1, <2>1, <2>2, WorldTypes DEF World, Worlds
    <2>4. Sound(s) /\ HasOutput(s.job)
        BY <1>1, <2>2, <2>3 DEF Sound, OwnsOutput, HasOutput
    <2>5. SameInputs(s, w) /\ SameFlags(s, w) /\ SameLines(s, w) /\ Succeeds(s)
        BY <1>1, <2>2, <2>3, SameLinesOften DEF SameInputs, SameFlags, Succeeds
    <2> QED BY <2>3, <2>4, <2>5
<1>4. CASE output # NoBuffer /\ ~OwnsOutput(w.job)
    <2>1. SelectOutput(w, output) = SetOutput(w, output)
        BY <1>4 DEF SelectOutput
    <2>2. output # Own
        BY <1>4
    <2>3. Sound(SetOutput(w, output)) /\ HasOutput(SetOutput(w, output).job)
        BY <1>1, <1>4, <2>2, SetOutputIs DEF Sound, OwnsOutput, HasOutput, SameInputs, SameFlags
    <2> QED BY <1>1, <2>1, <2>3, SetOutputIs, SameLinesOften DEF Succeeds
<1>5. CASE output # NoBuffer /\ OwnsOutput(w.job) /\ output # Own
    <2>1. SelectOutput(w, output) = SetOutput(FreeOwn(w), output)
        BY <1>5 DEF SelectOutput
    <2>2. PICK f \in Worlds : f = FreeOwn(w)
        BY FreeOwnIs
    <2>3. /\ SameInputs(f, w) /\ SameFlags(f, w) /\ SameLines(f, w) /\ f.status = w.status
          /\ f.buffers[Own] = <<>> /\ \A b \in Buffers : Placed(f.buffers[b], b)
        BY <2>2, FreeOwnIs
    <2>4. PICK s \in Worlds : s = SetOutput(f, output)
        BY SetOutputIs
    <2>5. /\ SameInputs(s, f) /\ SameFlags(s, f) /\ s.lines = f.lines /\ s.status = f.status
          /\ s.buffers = f.buffers /\ s.job.output = output
        BY <2>4, SetOutputIs
    <2>6. Sound(s) /\ HasOutput(s.job)
        BY <1>1, <1>5, <2>3, <2>5 DEF Sound, OwnsOutput, HasOutput, SameInputs, SameFlags
    <2>7. SameInputs(s, w) /\ SameFlags(s, w) /\ SameLines(s, w) /\ Succeeds(s)
        BY <1>1, <2>3, <2>5, SameLinesOften DEF SameInputs, SameFlags, Succeeds
    <2> QED BY <2>1, <2>2, <2>4, <2>6, <2>7
<1>6. CASE output # NoBuffer /\ OwnsOutput(w.job) /\ output = Own
    <2>1. SelectOutput(w, output) = Failed(w) /\ ~Succeeds(Failed(w))
        BY <1>1, <1>6 DEF SelectOutput, Failed, Succeeds, Worlds
    <2> QED BY <2>1
<1> QED BY <1>2, <1>3, <1>4, <1>5, <1>6

-----------------------------------------------------------------------------
(* Preparing the output.                                                   *)

\* Objects have been laid out, and nothing leads to them yet.
LaidOut(s) ==
    /\ HasOutput(s.job) /\ Windows(s) /\ OffsetIn(s)
    /\ s.job.config.out_store_addr = NoAddress
    /\ s.job.config # NoConfig => s.job.elem_offset < s.job.monitor_offset

\* Laying out makes a world of that kind.
LEMMA LayOutIs ==
    ASSUME NEW w, Sound(w), HasOutput(w.job), Equipped(w), NEW until \in Nat
    PROVE  LET s == LayOutOutput(w, until)
           IN  /\ Sound(s) /\ Succeeds(s) /\ LaidOut(s)
               /\ SameInputs(s, w) /\ SameFlags(s, w) /\ SameLines(s, w)
<1> DEFINE x       == w.job.extents
           line    == w.lines[w.job.line]
           objects == w.buffers[w.job.output]
           grown   == Grown(objects, w.job.output, OutputSizes(line, x, until))
           l       == [w.lines EXCEPT ![w.job.line] = PreparedLine(line, x)]
           b       == [w.buffers EXCEPT ![w.job.output] = grown]
           turns   == IF NeedsElemByElem(x.min_turn, until) THEN until ELSE 0
           j       == [w.job EXCEPT !.config = ConfigFor(w, until), !.until = turns,
                            !.monitor_offset = MonitorOffset(objects, x, until),
                            !.elem_offset = ElemByElemOffset(objects, x, until)]
<1>1. /\ w \in Worlds /\ w.job \in Jobs /\ x \in ExtentSets
      /\ w.lines \in [DOMAIN Lines -> Seq(Monitors)] /\ w.buffers \in [Buffers -> Seq(Objects)]
    BY WorldTypes DEF Sound
<1>2. /\ w.job.output \in Buffers /\ objects \in Seq(Objects) /\ Placed(objects, w.job.output)
      /\ w.job.line \in DOMAIN Lines /\ line \in Seq(Monitors)
    BY <1>1, WorldTypes DEF Sound, HasOutput, Equipped
<1>3. PICK len \in Nat : len = Len(objects)
    BY <1>2
<1>4. /\ OutputSizes(line, x, until) \in Seq(Nat)
      /\ NeedsElemByElem(x.min_turn, until) => Len(OutputSizes(line, x, until)) > 0
      /\ NeedsElemByElem(x.min_turn, until) => Len(ElemByElemSizes(x, until)) = 1
      /\ ~NeedsElemByElem(x.min_turn, until) => Len(ElemByElemSizes(x, until)) = 0
    BY <1>1, <1>2, OutputSizesTyped
<1>5. grown \in Seq(Objects) /\ Placed(grown, w.job.output)
    BY <1>2, <1>4, GrownPlaced
<1>6. /\ PreparedLine(line, x) \in Seq(Monitors)
      /\ SameLine(PreparedLine(line, x), line)
      /\ \A i \in DOMAIN line : IsPrepared(line[i], x.min_turn) =>
            /\ PreparedLine(line, x)[i].min_particle_id = x.min_particle_id
            /\ PreparedLine(line, x)[i].max_particle_id = x.max_particle_id
    BY <1>1, <1>2, PreparedLineIs
<1>7. /\ ConfigFor(w, until) \in Configs
      /\ ConfigFor(w, until).out_store_addr = NoAddress
      /\ ~NeedsElemByElem(x.min_turn, until) => ConfigFor(w, until) = NoConfig
    BY <1>1, FreshConfig DEF ConfigFor
<1>8. /\ ElemByElemOffset(objects, x, until) \in Nat /\ MonitorOffset(objects, x, until) \in Nat
      /\ NeedsElemByElem(x.min_turn, until) =>
            ElemByElemOffset(objects, x, until) < MonitorOffset(objects, x, until)
    <2>1. CASE NeedsElemByElem(x.min_turn, until)
        <3>1. /\ ElemByElemOffset(objects, x, until) = len
              /\ MonitorOffset(objects, x, until) = len + 1
            BY <1>3, <1>4, <2>1 DEF ElemByElemOffset, MonitorOffset
        <3> HIDE DEF objects, x
        <3> QED BY <3>1
    <2>2. CASE ~NeedsElemByElem(x.min_turn, until)
        <3>1. /\ ElemByElemOffset(objects, x, until) = 0
              /\ MonitorOffset(objects, x, until) = len + 0
            BY <1>3, <1>4, <2>2 DEF ElemByElemOffset, MonitorOffset
        <3> HIDE DEF objects, x
        <3> QED BY <2>2, <3>1
    <2> QED BY <2>1, <2>2
<1>9. LayOutOutput(w, until) = World(j, l, b, "success")
    BY Zenon DEF LayOutOutput
<1>10. /\ l \in [DOMAIN Lines -> Seq(Monitors)] /\ l[w.job.line] = PreparedLine(line, x)
       /\ \A k \in DOMAIN Lines : k # w.job.line => l[k] = w.lines[k]
    BY <1>1, <1>2, <1>6
<1>11. /\ b \in [Buffers -> Seq(Objects)] /\ b[w.job.output] = grown
       /\ \A k \in Buffers : k # w.job.output => b[k] = w.buffers[k]
    BY <1>1, <1>2, <1>5
<1>12. turns \in Nat
    OBVIOUS
<1> HIDE DEF x, line, objects, grown, turns
<1>13. /\ j \in Jobs /\ j.config = ConfigFor(w, until)
       /\ j.monitor_offset = MonitorOffset(objects, x, until)
       /\ j.elem_offset = ElemByElemOffset(objects, x, until)
       /\ j.particles = w.job.particles /\ j.sets = w.job.sets
       /\ j.extents = w.job.extents /\ j.line = w.job.line
       /\ j.output = w.job.output /\ j.output_cxx = w.job.output_cxx
       /\ j.elem_output = w.job.elem_output /\ j.monitor_output = w.job.monitor_output
    BY <1>1, <1>7, <1>8, <1>12 DEF Jobs
<1> HIDE DEF j, l, b
<1>14. PICK s \in Worlds : /\ s = LayOutOutput(w, until)
                           /\ s.job = j /\ s.lines = l /\ s.buffers = b /\ s.status = "success"
    BY <1>9, <1>10, <1>11, <1>13 DEF World, Worlds
<1>15. SameInputs(s, w) /\ SameFlags(s, w) /\ Succeeds(s)
    BY <1>13, <1>14 DEF SameInputs, SameFlags, Succeeds
<1>16. SameLines(s, w)
    <2> SUFFICES ASSUME NEW k \in DOMAIN Lines PROVE SameLine(s.lines[k], w.lines[k])
        BY DEF SameLines
    <2>1. CASE k = w.job.line
        BY <1>6, <1>10, <1>14, <2>1 DEF line
    <2>2. CASE k # w.job.line
        BY <1>10, <1>14, <2>2 DEF SameLine, SameSchedule
    <2> QED BY <2>1, <2>2
<1>17. Sound(s)
    <2>1. \A k \in Buffers : Placed(s.buffers[k], k)
        BY <1>5, <1>11, <1>14 DEF Sound
    <2>2. ~OwnsOutput(s.job) => s.buffers[Own] = <<>>
        BY <1>11, <1>13, <1>14, Given DEF Sound, OwnsOutput
    <2> QED BY <1>13, <1>14, <2>1, <2>2 DEF Sound, OwnsOutput, HasOutput
<1>18. Windows(s)
    <2>1. LineOf(s) = PreparedLine(line, x) /\ s.job.extents = x
        BY <1>10, <1>13, <1>14 DEF LineOf, x
    <2>2. ASSUME NEW i \in Watching(s)
          PROVE  i \in DOMAIN line /\ IsPrepared(line[i], x.min_turn)
        BY <1>6, <2>1, <2>2 DEF Watching, SameLine, SameSchedule, IsPrepared
    <2> QED BY <1>6, <2>1, <2>2 DEF Windows
<1>19. OffsetIn(s)
    <2>1. j.elem_offset # 0 => NeedsElemByElem(x.min_turn, until) /\ j.elem_offset = len
        BY <1>3, <1>13 DEF ElemByElemOffset
    <2>2. NeedsElemByElem(x.min_turn, until) => len < Len(grown)
        <3>1. PICK sizes \in Seq(Nat) : sizes = OutputSizes(line, x, until)
            BY <1>4
        <3>2. NeedsElemByElem(x.min_turn, until) => Len(sizes) > 0
            BY <1>4, <3>1
        <3>3. Len(grown) = len + Len(sizes)
            BY <1>2, <1>3, <3>1 DEF Grown, grown
        <3> QED BY <3>1, <3>2, <3>3
    <2> QED BY <1>2, <1>11, <1>13, <1>14, <2>1, <2>2 DEF OffsetIn, HasOutput
<1>20. LaidOut(s)
    BY <1>7, <1>8, <1>13, <1>14, <1>17, <1>18, <1>19 DEF LaidOut, HasOutput
<1> QED BY <1>14, <1>15, <1>16, <1>17, <1>20

\* What is said of the inputs of a world goes for one with the same inputs.
LEMMA SameInputsEquipped ==
    ASSUME NEW w, NEW s, SameInputs(s, w)
    PROVE  Equipped(w) => Equipped(s)
    BY DEF SameInputs, Equipped

\* Preparing the output succeeds and lays out objects, or fails before it
\* changes anything.
LEMMA PrepareOutputIs ==
    ASSUME NEW w, Sound(w), Succeeds(w), Equipped(w),
           NEW output \in Buffers \cup {NoBuffer}, output = Own => OwnsOutput(w.job),
           NEW until \in Nat, NEW moves \in BOOLEAN
    PROVE  LET s == PrepareOutput(w, output, until, moves)
           IN  /\ ~Succeeds(s) => s = Failed(w)
               /\ Succeeds(s) => /\ Sound(s) /\ LaidOut(s) /\ SameInputs(s, w)
                                 /\ SameFlags(s, w) /\ SameLines(s, w)
<1> DEFINE s == SelectOutput(w, output)
           m == If(moves, s, LAMBDA r : Moved(r, r.job.output))
<1>1. CASE ~Succeeds(s)
    BY <1>1, SelectOutputIs DEF PrepareOutput, Then
<1>2. CASE Succeeds(s)
    <2>1. PrepareOutput(w, output, until, moves) = LayOutOutput(m, until)
        BY <1>2 DEF PrepareOutput, Then
    <2>2. Sound(s) /\ HasOutput(s.job) /\ SameInputs(s, w) /\ SameFlags(s, w) /\ SameLines(s, w)
        BY <1>2, SelectOutputIs
    <2>3. m = IF moves THEN Moved(s, s.job.output) ELSE s
        BY DEF If
    <2> HIDE DEF s, m
    <2>4. s \in Worlds /\ w \in Worlds /\ s.job.output \in Buffers
        BY <2>2, WorldTypes DEF Sound, HasOutput
    <2>5. Sound(m) /\ HasOutput(m.job) /\ SameInputs(m, s) /\ SameFlags(m, s) /\ SameLines(m, s)
        <3>1. CASE moves
            BY <2>2, <2>3, <2>4, <3>1, MovedIs, MovedSound DEF HasOutput
        <3>2. CASE ~moves
            BY <2>2, <2>3, <2>4, <3>2, SameLinesOften DEF SameInputs, SameFlags
        <3> QED BY <3>1, <3>2
    <2>6. Equipped(m)
        BY <2>2, <2>5, SameInputsEquipped
    <2>7. PICK r : r = LayOutOutput(m, until)
        OBVIOUS
    <2>8. /\ Sound(r) /\ Succeeds(r) /\ LaidOut(r)
          /\ SameInputs(r, m) /\ SameFlags(r, m) /\ SameLines(r, m)
        BY <2>5, <2>6, <2>7, LayOutIs
    <2>9. SameInputs(r, w) /\ SameFlags(r, w)
        BY <2>2, <2>5, <2>8 DEF SameInputs, SameFlags
    <2>10. SameLines(r, w)
        BY <2>2, <2>4, <2>5, <2>8, SameLinesOften
    <2> QED BY <2>1, <2>7, <2>8, <2>9, <2>10
<1> QED BY <1>1, <1>2

-----------------------------------------------------------------------------
(* Assigning the objects.                                                  *)

\* An output that has been laid out, before and after its objects are given
\* to the monitors and the configuration.
Prepared(s) ==
    /\ HasOutput(s.job) /\ Windows(s) /\ ConfigLive(s)
    /\ s.job.config # NoConfig => s.job.elem_offset < s.job.monitor_offset

\* The buffers and where the two parts of the output begin.
SameOutput(r, s) ==
    /\ r.job.output = s.job.output
    /\ r.job.elem_offset = s.job.elem_offset
    /\ r.job.monitor_offset = s.job.monitor_offset
    /\ r.buffers = s.buffers

\* A configuration is live in a world with the same output.
LEMMA SameConfigLive ==
    ASSUME NEW s, NEW r, SameOutput(r, s), r.job.config = s.job.config, ConfigLive(s)
    PROVE  ConfigLive(r)
    BY DEF SameOutput, ConfigLive, OffsetIn, HasRoom, HasOutput

\* A monitor that knows the ids of the particles takes an object, as large as
\* what it may store.
LEMMA KnowsIds ==
    ASSUME NEW m \in Monitors, NEW x, ExtentsOK(x), x \in ExtentSets,
           m.min_particle_id = x.min_particle_id, m.max_particle_id = x.max_particle_id
    PROVE  /\ Takes(m, x.min_turn) <=> IsPrepared(m, x.min_turn)
           /\ StoredNumParticles(m) = ParticlesPerTurn(m) * m.num_stores
<1>1. 0 <= m.min_particle_id /\ m.min_particle_id <= m.max_particle_id
    BY DEF ExtentsOK
<1>2. ParticlesPerTurn(m) > 0
    BY <1>1 DEF ParticlesPerTurn, Monitors
<1> QED BY <1>1, <1>2 DEF Takes, StoredNumParticles

\* The monitors of a line that know the ids take the objects in their order.
LEMMA ObjectsInOrder ==
    ASSUME NEW s, Sound(s), Equipped(s), Windows(s), NEW i \in Watching(s)
    PROVE  /\ Takes(LineOf(s)[i], s.job.extents.min_turn)
           /\ NextObject(LineOf(s), s.job.extents.min_turn, s.job.monitor_offset, i)
                = ObjectOf(s, i)
           /\ StoredNumParticles(LineOf(s)[i])
                = ParticlesPerTurn(LineOf(s)[i]) * LineOf(s)[i].num_stores
<1> DEFINE line == LineOf(s)
           x == s.job.extents
           taking == {k \in DOMAIN line : k < i /\ Takes(line[k], x.min_turn)}
           watching == Watching(s)
<1>1. /\ s \in Worlds /\ x \in ExtentSets /\ s.job.monitor_offset \in Nat
      /\ s.lines \in [DOMAIN Lines -> Seq(Monitors)] /\ s.job.line \in DOMAIN Lines
    BY WorldTypes DEF Sound, Equipped
<1>2. line \in Seq(Monitors)
    BY <1>1 DEF LineOf
<1>3. PICK len \in Nat : DOMAIN line = 1 .. len /\ \A k \in 1 .. len : line[k] \in Monitors
    BY <1>2
<1>4. ASSUME NEW k \in watching
      PROVE  /\ k \in 1 .. len /\ Takes(line[k], x.min_turn)
             /\ StoredNumParticles(line[k]) = ParticlesPerTurn(line[k]) * line[k].num_stores
    <2>1. k \in 1 .. len /\ IsPrepared(line[k], x.min_turn)
        BY <1>3 DEF Watching
    <2>2. /\ line[k].min_particle_id = x.min_particle_id
          /\ line[k].max_particle_id = x.max_particle_id
        BY DEF Windows
    <2> QED BY <1>1, <1>3, <2>1, <2>2, KnowsIds DEF Equipped
<1>5. taking = {k \in watching : k < i}
    <2>1. ASSUME NEW k \in taking PROVE k \in watching /\ k < i
        BY DEF Takes, Watching
    <2>2. ASSUME NEW k \in watching, k < i PROVE k \in taking
        BY <1>3, <1>4, <2>2
    <2> QED BY <2>1, <2>2
<1>6. watching \subseteq 1 .. len
    BY <1>4
<1> HIDE DEF watching, taking
<1>7. Cardinality({k \in watching : k <= i}) = Cardinality({k \in watching : k < i}) + 1
    BY <1>6, CountedOnce DEF watching
<1>8. Cardinality({k \in watching : k < i}) \in Nat
    <2>1. {k \in watching : k < i} \subseteq 1 .. len
        BY <1>6
    <2> QED BY <2>1, PositionsFinite
<1>9. NextObject(line, x.min_turn, s.job.monitor_offset, i)
        = s.job.monitor_offset + 1 + Cardinality(taking)
    BY DEF NextObject, taking
<1>10. ObjectOf(s, i) = s.job.monitor_offset + Cardinality({k \in watching : k <= i})
    BY DEF ObjectOf, watching
<1>11. NextObject(line, x.min_turn, s.job.monitor_offset, i) = ObjectOf(s, i)
    <2>1. PICK c \in Nat : c = Cardinality({k \in watching : k < i})
        BY <1>8
    <2>2. PICK offset \in Nat : offset = s.job.monitor_offset
        BY <1>1
    <2>3. NextObject(line, x.min_turn, s.job.monitor_offset, i) = offset + 1 + c
        BY <1>5, <1>9, <2>1, <2>2
    <2>4. ObjectOf(s, i) = offset + (c + 1)
        BY <1>7, <1>10, <2>1, <2>2
    <2> HIDE DEF line, x
    <2> QED BY <2>3, <2>4
<1> QED BY <1>4, <1>11 DEF watching

\* Failing is seen in the status alone.
LEMMA FailedIs ==
    ASSUME NEW w \in Worlds
    PROVE  /\ Failed(w) = World(w.job, w.lines, w.buffers, "failure")
           /\ Failed(w) \in Worlds
           /\ Sound(w) => Sound(Failed(w))
           /\ ConfigLive(w) => ConfigLive(Failed(w))
           /\ ~Succeeds(Failed(w))
<1>1. Failed(w) = World(w.job, w.lines, w.buffers, "failure")
    BY DEF Failed, World, Worlds
<1>2. PICK f \in Worlds : /\ f = Failed(w)
                          /\ f.job = w.job /\ f.lines = w.lines /\ f.buffers = w.buffers
                          /\ f.status = "failure"
    <2> HIDE DEF Failed
    <2> QED BY <1>1 DEF World, Worlds
<1> QED BY <1>1, <1>2 DEF Sound, ConfigLive, OffsetIn, HasRoom, Succeeds

\* Giving the objects to the monitors keeps what is there, and if it succeeds
\* every monitor with turns ahead has its object, and none stopped it.
LEMMA AssignMonitorOutputIs ==
    ASSUME NEW s, Sound(s), Succeeds(s), Equipped(s), Prepared(s)
    PROVE  LET r == AssignMonitorOutput(s)
           IN  /\ Sound(r) /\ Prepared(r) /\ SameInputs(r, s) /\ SameLines(r, s)
               /\ SameOutput(r, s) /\ r.job.config = s.job.config
               /\ \A k \in DOMAIN Lines : \A i \in DOMAIN s.lines[k] :
                    r.lines[k][i] = s.lines[k][i] \/ LedTo(r.lines[k][i], s.buffers[s.job.output])
               /\ Succeeds(r) =>
                    /\ MonitorsLive(r) /\ r.job.monitor_output
                    /\ Reaches(LineOf(s), s.buffers[s.job.output], s.job.extents.min_turn,
                               s.job.monitor_offset, Len(LineOf(s)))
<1> DEFINE line    == LineOf(s)
           objects == s.buffers[s.job.output]
           first   == s.job.extents.min_turn
           a       == AssignMonitors(line, objects, first, s.job.monitor_offset)
           tried   == ~(line = <<>> \/ s.job.monitor_offset >= Len(objects))
           ok      == tried /\ a.status = "success"
           l       == IF tried THEN [s.lines EXCEPT ![s.job.line] = a.line] ELSE s.lines
           status  == IF ok THEN "success" ELSE "failure"
           j       == [s.job EXCEPT !.monitor_output = ok]
<1>1. /\ s \in Worlds /\ s.job \in Jobs /\ s.job.extents \in ExtentSets
      /\ s.job.monitor_offset \in Nat /\ s.job.line \in DOMAIN Lines
      /\ s.lines \in [DOMAIN Lines -> Seq(Monitors)] /\ s.buffers \in [Buffers -> Seq(Objects)]
      /\ s.job.output \in Buffers /\ first \in Int
    <2>1. s \in Worlds /\ s.job.line # None /\ s.job.output # NoBuffer
        BY DEF Sound, Equipped, Prepared, HasOutput
    <2> QED BY <2>1, WorldTypes DEF ExtentSets
<1>2. line \in Seq(Monitors) /\ objects \in Seq(Objects)
    BY <1>1 DEF LineOf
<1>3. /\ a.line \in Seq(Monitors) /\ a.status \in {"success", "failure"}
      /\ DOMAIN a.line = DOMAIN line
      /\ \A i \in DOMAIN line : SameButAddress(a.line[i], line[i])
      /\ \A i \in DOMAIN line : a.line[i] = line[i] \/ LedTo(a.line[i], objects)
      /\ a.status = "success" =>
            Reaches(line, objects, first, s.job.monitor_offset, Len(line))
      /\ a.status = "success" =>
            \A i \in DOMAIN line : Takes(line[i], first) =>
                LET n == NextObject(line, first, s.job.monitor_offset, i)
                IN  /\ n \in DOMAIN objects
                    /\ a.line[i].out_address = objects[n].addr
                    /\ ParticlesPerTurn(line[i]) * line[i].num_stores <= objects[n].size
    BY <1>1, <1>2, AssignMonitorsIs, SMTT(30)
<1>4. AssignMonitorOutput(s) = World(j, l, s.buffers, status)
    <2> DEFINE off == [s EXCEPT !.job.monitor_output = FALSE]
    <2>1. /\ off.job = [s.job EXCEPT !.monitor_output = FALSE] /\ off.lines = s.lines
          /\ off.buffers = s.buffers /\ off.status = s.status /\ off \in Worlds
        BY <1>1 DEF Worlds, Jobs
    <2>2. CASE ~tried
        <3>1. AssignMonitorOutput(s) = Failed(off)
            BY <2>2 DEF AssignMonitorOutput, LineOf
        <3> HIDE DEF off, a
        <3>2. Failed(off) = World(off.job, off.lines, off.buffers, "failure")
            BY <2>1, FailedIs
        <3> QED BY <2>1, <2>2, <3>1, <3>2
    <2>3. CASE tried
        <3>1. AssignMonitorOutput(s) =
                [off EXCEPT !.lines[s.job.line] = a.line, !.status = a.status,
                            !.job.monitor_output = (a.status = "success")]
            BY <2>3 DEF AssignMonitorOutput, LineOf
        <3>2. PICK u : u = a.line
            OBVIOUS
        <3>3. PICK v \in {"success", "failure"} : v = a.status
            BY <1>3
        <3>4. PICK good \in BOOLEAN : good = (v = "success")
            OBVIOUS
        <3> HIDE DEF off
        <3>5. [off EXCEPT !.lines[s.job.line] = u, !.status = v, !.job.monitor_output = good]
                = World([off.job EXCEPT !.monitor_output = good],
                        [off.lines EXCEPT ![s.job.line] = u], off.buffers, v)
            <4>1. PICK d \in Worlds : d = off
                BY <2>1
            <4>2. PICK k : k = s.job.line
                OBVIOUS
            <4>3. [d EXCEPT !.lines[k] = u, !.status = v, !.job.monitor_output = good]
                    = World([d.job EXCEPT !.monitor_output = good],
                            [d.lines EXCEPT ![k] = u], d.buffers, v)
                <5>1. PICK p : p = [d.lines EXCEPT ![k] = u]
                    OBVIOUS
                <5>2. PICK q : q = [d.job EXCEPT !.monitor_output = good]
                    OBVIOUS
                <5>3. d = World(d.job, d.lines, d.buffers, d.status)
                    BY DEF World, Worlds
                <5>4. [d EXCEPT !.lines = p, !.status = v] = World(d.job, p, d.buffers, v)
                    <6>1. [d EXCEPT !.lines = p] = World(d.job, p, d.buffers, d.status)
                        BY DEF World, Worlds
                    <6>2. [World(d.job, p, d.buffers, d.status) EXCEPT !.status = v]
                            = World(d.job, p, d.buffers, v)
                        BY DEF World
                    <6> QED BY <6>1, <6>2
                <5>5. [World(d.job, p, d.buffers, v) EXCEPT !.job = q] = World(q, p, d.buffers, v)
                    BY DEF World
                <5>6. World(d.job, p, d.buffers, v).job = d.job
                    BY DEF World
                <5>7. [d EXCEPT !.lines[k] = u, !.status = v, !.job.monitor_output = good]
                        = [World(d.job, p, d.buffers, v) EXCEPT !.job.monitor_output = good]
                    BY <5>1, <5>4
                <5>8. [World(d.job, p, d.buffers, v) EXCEPT !.job.monitor_output = good]
                        = [World(d.job, p, d.buffers, v) EXCEPT !.job = q]
                    BY <5>2, <5>6
                <5> QED BY <5>1, <5>2, <5>5, <5>7, <5>8
            <4> QED BY <4>1, <4>2, <4>3
        <3>6. [off.job EXCEPT !.monitor_output = good] = [s.job EXCEPT !.monitor_output = good]
            BY <1>1, <2>1 DEF Jobs
        <3>7. good = ok /\ v = status
            BY <2>3, <3>3, <3>4
        <3>8. [off.lines EXCEPT ![s.job.line] = u] = l
            BY <2>1, <2>3, <3>2
        <3> HIDE DEF a, ok, status, l
        <3> QED BY <2>1, <3>1, <3>2, <3>3, <3>4, <3>5, <3>6, <3>7, <3>8
    <2> QED BY <2>2, <2>3
<1>5. /\ l \in [DOMAIN Lines -> Seq(Monitors)]
      /\ tried => l[s.job.line] = a.line
      /\ ~tried => l = s.lines
      /\ \A k \in DOMAIN Lines : k # s.job.line => l[k] = s.lines[k]
    <2> HIDE DEF a
    <2> QED BY <1>1, <1>3
<1>6. ok \in BOOLEAN /\ status \in {"success", "failure"} /\ (status = "success" <=> ok)
    OBVIOUS
<1>7. ok => tried /\ a.status = "success"
    OBVIOUS
<1> HIDE DEF a, ok, status, l, tried
<1>8. /\ j \in Jobs /\ j.monitor_output = ok
      /\ j.particles = s.job.particles /\ j.sets = s.job.sets
      /\ j.extents = s.job.extents /\ j.line = s.job.line
      /\ j.output = s.job.output /\ j.output_cxx = s.job.output_cxx
      /\ j.config = s.job.config /\ j.elem_output = s.job.elem_output
      /\ j.elem_offset = s.job.elem_offset /\ j.monitor_offset = s.job.monitor_offset
    BY <1>1, <1>6 DEF Jobs
<1> HIDE DEF j
<1>9. PICK r \in Worlds : /\ r = AssignMonitorOutput(s)
                          /\ r.job = j /\ r.lines = l /\ r.buffers = s.buffers /\ r.status = status
    <2>1. PICK b : b = s.buffers /\ b \in [Buffers -> Seq(Objects)]
        BY <1>1
    <2>2. AssignMonitorOutput(s) = World(j, l, b, status)
        BY <1>4, <2>1
    <2> QED BY <1>5, <1>6, <1>8, <2>1, <2>2 DEF World, Worlds
<1>10. SameInputs(r, s) /\ SameOutput(r, s)
    BY <1>8, <1>9 DEF SameInputs, SameOutput
<1>11. /\ DOMAIN LineOf(r) = DOMAIN line
       /\ \A i \in DOMAIN line : SameButAddress(LineOf(r)[i], line[i])
    <2>1. LineOf(r) = l[s.job.line]
        BY <1>8, <1>9 DEF LineOf
    <2>2. CASE tried
        BY <1>3, <1>5, <2>1, <2>2
    <2>3. CASE ~tried
        BY <1>5, <2>1, <2>3 DEF SameButAddress, SameSchedule, LineOf
    <2> QED BY <2>2, <2>3
<1>12. SameLines(r, s)
    <2> SUFFICES ASSUME NEW k \in DOMAIN Lines PROVE SameLine(r.lines[k], s.lines[k])
        BY DEF SameLines
    <2>1. CASE k = s.job.line
        BY <1>8, <1>9, <1>11, <2>1 DEF SameLine, SameButAddress, LineOf
    <2>2. CASE k # s.job.line
        BY <1>5, <1>9, <2>2 DEF SameLine, SameSchedule
    <2> QED BY <2>1, <2>2
<1>13. Watching(r) = Watching(s)
    <2>1. r.job.extents = s.job.extents
        BY <1>10 DEF SameInputs
    <2> HIDE DEF line
    <2>2. \A i \in DOMAIN line : IsPrepared(LineOf(r)[i], first) <=> IsPrepared(line[i], first)
        BY <1>11 DEF SameButAddress, SameSchedule, IsPrepared
    <2> QED BY <1>11, <2>1, <2>2 DEF Watching, line
<1>14. Windows(r)
    <2>1. r.job.extents = s.job.extents
        BY <1>10 DEF SameInputs
    <2>2. ASSUME NEW i \in Watching(s)
          PROVE  /\ LineOf(r)[i].min_particle_id = r.job.extents.min_particle_id
                 /\ LineOf(r)[i].max_particle_id = r.job.extents.max_particle_id
        <3>1. i \in DOMAIN line
            BY DEF Watching
        <3> QED BY <1>11, <2>1, <3>1 DEF SameButAddress, Windows, Prepared
    <2> QED BY <1>13, <2>2 DEF Windows
<1>15. Prepared(r)
    <2>1. ConfigLive(r)
        BY <1>8, <1>9, <1>10, SameConfigLive DEF Prepared
    <2> QED BY <1>8, <1>9, <1>14, <2>1 DEF Prepared, HasOutput
<1>16. Sound(r)
    BY <1>6, <1>8, <1>9 DEF Sound, OwnsOutput, HasOutput, Prepared
<1>17. ASSUME ok PROVE MonitorsLive(r)
    <2> SUFFICES ASSUME NEW i \in Watching(s)
                 PROVE  /\ ObjectOf(r, i) \in Nat
                        /\ LineOf(r)[i].out_address = Address(r.job.output, ObjectOf(r, i))
                        /\ HasRoom(r, ObjectOf(r, i), StoredNumParticles(LineOf(r)[i]))
        BY <1>13 DEF MonitorsLive
    <2>1. /\ Takes(line[i], first)
          /\ NextObject(line, first, s.job.monitor_offset, i) = ObjectOf(s, i)
          /\ StoredNumParticles(line[i]) = ParticlesPerTurn(line[i]) * line[i].num_stores
          /\ i \in DOMAIN line
        BY ObjectsInOrder DEF Prepared, Watching
    <2>2. ObjectOf(r, i) = ObjectOf(s, i)
        BY <1>8, <1>9, <1>13 DEF ObjectOf
    <2>3. PICK n : n = ObjectOf(s, i)
        OBVIOUS
    <2>4. LineOf(r) = a.line
        BY <1>5, <1>7, <1>8, <1>9, <1>17 DEF LineOf
    <2> HIDE DEF line, objects
    <2>5. /\ n \in DOMAIN objects /\ LineOf(r)[i].out_address = objects[n].addr
          /\ StoredNumParticles(line[i]) <= objects[n].size
        BY <1>3, <1>7, <1>17, <2>1, <2>3, <2>4
    <2>6. StoredNumParticles(LineOf(r)[i]) = StoredNumParticles(line[i])
        BY <1>11, <2>1 DEF SameButAddress, SameSchedule, StoredNumParticles, ParticlesPerTurn
    <2>7. objects[n].addr = Address(s.job.output, n)
        BY <1>1, <2>5 DEF Sound, Placed, objects
    <2>8. n \in Nat
        BY <1>2, <2>5
    <2>9. HasRoom(r, n, StoredNumParticles(LineOf(r)[i]))
        BY <1>8, <1>9, <2>5, <2>6 DEF HasRoom, objects, Prepared, HasOutput
    <2> QED BY <1>8, <1>9, <2>2, <2>3, <2>5, <2>7, <2>8, <2>9
<1>18. ASSUME NEW k \in DOMAIN Lines, NEW i \in DOMAIN s.lines[k]
       PROVE  r.lines[k][i] = s.lines[k][i] \/ LedTo(r.lines[k][i], objects)
    <2>1. CASE tried /\ k = s.job.line
        <3>1. r.lines[k] = a.line /\ s.lines[k] = line
            BY <1>5, <1>9, <2>1 DEF LineOf
        <3> QED BY <1>3, <3>1
    <2>2. CASE ~(tried /\ k = s.job.line)
        BY <1>5, <1>9, <2>2
    <2> QED BY <2>1, <2>2
<1>19. ok => Reaches(line, objects, first, s.job.monitor_offset, Len(line))
    BY <1>3, <1>7
<1> QED BY <1>6, <1>8, <1>9, <1>10, <1>12, <1>15, <1>16, <1>17, <1>18, <1>19 DEF Succeeds

\* Replacing the job replaces nothing else.
LEMMA JobReplaced ==
    ASSUME NEW w \in Worlds, NEW j
    PROVE  /\ [w EXCEPT !.job = j] = World(j, w.lines, w.buffers, w.status)
           /\ [w EXCEPT !.job = j].job = j /\ [w EXCEPT !.job = j].lines = w.lines
           /\ [w EXCEPT !.job = j].buffers = w.buffers
           /\ [w EXCEPT !.job = j].status = w.status
           /\ j \in Jobs => [w EXCEPT !.job = j] \in Worlds
    BY DEF World, Worlds

\* A world with another job.
WithJob(w, j) == [w EXCEPT !.job = j]

\* Only the job is another.
LEMMA WithJobIs ==
    ASSUME NEW w \in Worlds, NEW j \in Jobs, NEW r, r = WithJob(w, j)
    PROVE  /\ r \in Worlds /\ r.job = j /\ r.lines = w.lines
           /\ r.buffers = w.buffers /\ r.status = w.status
           /\ r = World(j, w.lines, w.buffers, w.status)
    BY DEF WithJob, World, Worlds

\* A job with another configuration and flag, and a world with that job.
WithConfig(j, e, c) == [j EXCEPT !.elem_output = e, !.config = c]

\* Only these two change in it.
LEMMA ConfigChanged ==
    ASSUME NEW s \in Worlds, NEW c \in Configs, NEW e \in BOOLEAN,
           NEW status \in {"success", "failure"},
           NEW r, r = World(WithConfig(s.job, e, c),
                            s.lines, s.buffers, status)
    PROVE  /\ r \in Worlds /\ SameInputs(r, s) /\ SameOutput(r, s) /\ r.lines = s.lines
           /\ r.job.output_cxx = s.job.output_cxx
           /\ r.job.monitor_output = s.job.monitor_output
           /\ r.job.elem_output = e /\ r.job.config = c /\ r.status = status
<1> DEFINE j == WithConfig(s.job, e, c)
<1>1. s.job \in Jobs
    BY WorldTypes
<1>2. /\ j \in Jobs
      /\ j.particles = s.job.particles /\ j.sets = s.job.sets
      /\ j.extents = s.job.extents /\ j.line = s.job.line
      /\ j.output = s.job.output /\ j.output_cxx = s.job.output_cxx
      /\ j.config = c /\ j.elem_output = e /\ j.monitor_output = s.job.monitor_output
      /\ j.elem_offset = s.job.elem_offset /\ j.monitor_offset = s.job.monitor_offset
    BY <1>1 DEF Jobs, WithConfig
<1> HIDE DEF j
<1>3. /\ s.lines \in [DOMAIN Lines -> Seq(Monitors)] /\ s.buffers \in [Buffers -> Seq(Objects)]
    BY WorldTypes
<1>3a. r = World(j, s.lines, s.buffers, status)
    BY DEF j
<1>4. /\ r \in Worlds /\ r.job = j /\ r.lines = s.lines /\ r.buffers = s.buffers
      /\ r.status = status
    BY <1>2, <1>3, <1>3a DEF World, Worlds
<1>5. SameInputs(r, s) /\ SameOutput(r, s)
    BY <1>2, <1>4 DEF SameInputs, SameOutput
<1> QED BY <1>2, <1>4, <1>5 DEF j

\* Monitors that are live stay so while the lines and the output do.
LEMMA SameMonitorsLive ==
    ASSUME NEW s, NEW r, SameInputs(r, s), SameOutput(r, s),
           r.lines = s.lines \/ LineOf(r) = LineOf(s)
    PROVE  /\ LineOf(r) = LineOf(s) /\ Watching(r) = Watching(s)
           /\ Windows(s) => Windows(r)
           /\ MonitorsLive(s) => MonitorsLive(r)
<1>1. LineOf(r) = LineOf(s) /\ Watching(r) = Watching(s)
    BY DEF SameInputs, LineOf, Watching
<1>2. Windows(s) => Windows(r)
    BY <1>1 DEF Windows, SameInputs
<1>3. ASSUME MonitorsLive(s), NEW i \in Watching(s)
      PROVE  /\ ObjectOf(r, i) \in Nat
             /\ LineOf(r)[i].out_address = Address(r.job.output, ObjectOf(r, i))
             /\ HasRoom(r, ObjectOf(r, i), StoredNumParticles(LineOf(r)[i]))
    <2>1. ObjectOf(r, i) = ObjectOf(s, i)
        BY <1>1 DEF ObjectOf, SameOutput
    <2> QED BY <1>1, <1>3, <2>1 DEF MonitorsLive, SameOutput, HasRoom, HasOutput
<1> QED BY <1>1, <1>2, <1>3 DEF MonitorsLive

\* Giving its object to the configuration keeps what is there.
LEMMA AssignConfigOutputIs ==
    ASSUME NEW s, Sound(s), Succeeds(s), Equipped(s), Prepared(s)
    PROVE  LET r == AssignConfigOutput(s)
           IN  /\ Sound(r) /\ Prepared(r) /\ SameInputs(r, s) /\ SameLines(r, s)
               /\ SameOutput(r, s) /\ r.lines = s.lines
               /\ r.job.monitor_output = s.job.monitor_output
               /\ MonitorsLive(s) => MonitorsLive(r)
               /\ \E addr \in Nat : r.job.config = [s.job.config EXCEPT !.out_store_addr = addr]
               /\ Succeeds(r) => HasRoom(r, s.job.elem_offset + 1, OutStoreNumParticles(s.job.config))
<1> DEFINE objects == s.buffers[s.job.output]
           at == s.job.elem_offset + 1
           config == s.job.config
           off == [s EXCEPT !.job.elem_output = FALSE]
           Goal(r) == /\ Sound(r) /\ Prepared(r) /\ SameInputs(r, s) /\ SameLines(r, s)
                      /\ SameOutput(r, s) /\ r.lines = s.lines
                      /\ r.job.monitor_output = s.job.monitor_output
                      /\ MonitorsLive(s) => MonitorsLive(r)
                      /\ \E addr \in Nat :
                            r.job.config = [s.job.config EXCEPT !.out_store_addr = addr]
                      /\ Succeeds(r) =>
                            HasRoom(r, s.job.elem_offset + 1, OutStoreNumParticles(s.job.config))
<1> SUFFICES Goal(AssignConfigOutput(s))
    OBVIOUS
<1>1. /\ s \in Worlds /\ s.job \in Jobs /\ s.job.config \in Configs /\ at \in Nat \ {0}
      /\ s.job.output \in Buffers /\ s.buffers \in [Buffers -> Seq(Objects)]
      /\ s.status = "success" /\ objects \in Seq(Objects)
    <2>1. s \in Worlds /\ s.job.output # NoBuffer
        BY DEF Sound, Prepared, HasOutput
    <2> QED BY <2>1, WorldTypes DEF Succeeds
<1>2. ASSUME NEW c \in Configs, NEW e \in BOOLEAN, NEW status \in {"success", "failure"},
             NEW r, r = World(WithConfig(s.job, e, c),
                              s.lines, s.buffers, status),
             c # NoConfig => config # NoConfig,
             NEW addr \in Nat, c = [config EXCEPT !.out_store_addr = addr],
             status = "success" =>
                at \in DOMAIN objects /\ objects[at].size >= OutStoreNumParticles(config),
             c = config \/ /\ at \in DOMAIN objects
                           /\ c.out_store_addr = Address(s.job.output, at)
                           /\ objects[at].size >= OutStoreNumParticles(c)
      PROVE  Goal(r)
    <2>1. /\ r \in Worlds /\ SameInputs(r, s) /\ SameOutput(r, s) /\ r.lines = s.lines
          /\ r.job.output_cxx = s.job.output_cxx
          /\ r.job.monitor_output = s.job.monitor_output
          /\ r.job.elem_output = e /\ r.job.config = c /\ r.status = status
        <3> HIDE DEF config, objects, at
        <3>1. s \in Worlds
            BY <1>1
        <3>2. r = World(WithConfig(s.job, e, c),
                        s.lines, s.buffers, status)
            BY <1>2
        <3> QED BY <3>1, <3>2, ConfigChanged
    <2>2. SameLines(r, s)
        BY <1>1, <2>1, SameLinesOften
    <2>3. Sound(r)
        BY <1>1, <2>1 DEF Sound, SameInputs, SameOutput, OwnsOutput, HasOutput, Prepared
    <2>4. ConfigLive(r)
        <3>1. CASE c = config
            BY <2>1, <3>1, SameConfigLive DEF Prepared
        <3>2. CASE c # config
            <4> SUFFICES ASSUME c.out_store_addr # NoAddress PROVE ConfigLive(r)
                BY <2>1 DEF ConfigLive, OffsetIn, SameOutput, HasOutput, Prepared
            <4>1. c # NoConfig
                <5>1. NoConfig.out_store_addr = NoAddress
                    BY DEF NoConfig, Preset, EmptyConfig
                <5> QED BY <5>1
            <4>2. s.job.elem_offset < s.job.monitor_offset
                BY <1>2, <4>1 DEF Prepared
            <4> QED BY <1>2, <2>1, <3>2, <4>2
                DEF ConfigLive, OffsetIn, SameOutput, HasRoom, HasOutput, Prepared
        <3> QED BY <3>1, <3>2
    <2>5. Prepared(r)
        BY <1>2, <2>1, <2>4, SameMonitorsLive DEF Prepared, SameOutput, HasOutput
    <2>6. \E b \in Nat : r.job.config = [s.job.config EXCEPT !.out_store_addr = b]
        BY <1>2, <2>1
    <2>7. Succeeds(r) => HasRoom(r, at, OutStoreNumParticles(config))
        BY <1>2, <2>1 DEF Succeeds, HasRoom, SameOutput, HasOutput, Prepared
    <2> QED BY <2>1, <2>2, <2>3, <2>5, <2>6, <2>7, SameMonitorsLive
<1> HIDE DEF Goal
<1>5. off = World([s.job EXCEPT !.elem_output = FALSE], s.lines, s.buffers, s.status)
    BY <1>1, JobReplaced
<1>6. [s.job EXCEPT !.config = config] = s.job
    BY <1>1 DEF Jobs
<1>6a. PICK old \in Nat : config = [config EXCEPT !.out_store_addr = old]
    <2>1. config.out_store_addr \in Nat
        BY <1>1 DEF Configs
    <2>2. config = [config EXCEPT !.out_store_addr = config.out_store_addr]
        <3>1. PICK c \in Configs : c = config
            BY <1>1
        <3>2. c = [c EXCEPT !.out_store_addr = c.out_store_addr]
            BY DEF Configs
        <3> QED BY <3>1, <3>2
    <2> QED BY <2>1, <2>2
<1>7. CASE config = NoConfig \/ at > Len(objects)
    <2>1. AssignConfigOutput(s) = Failed(s)
        BY <1>7 DEF AssignConfigOutput
    <2>2. PICK e \in BOOLEAN : e = s.job.elem_output
        BY <1>1 DEF Jobs
    <2>3. WithConfig(s.job, e, config) = s.job
        BY <1>1, <2>2 DEF Jobs, WithConfig
    <2>4. Failed(s) = World(WithConfig(s.job, e, config),
                            s.lines, s.buffers, "failure")
        BY <1>1, <2>3, FailedIs
    <2>5. PICK r : r = World(WithConfig(s.job, e, config), s.lines, s.buffers, "failure")
        OBVIOUS
    <2>6. config \in Configs
        BY <1>1
    <2>7. Goal(r)
        <3> HIDE DEF config, objects, at
        <3> QED BY <1>2, <1>6a, <2>5, <2>6
    <2> QED BY <2>1, <2>4, <2>5, <2>7
<1>8. CASE /\ ~(config = NoConfig \/ at > Len(objects))
           /\ objects[at].size < OutStoreNumParticles(config)
    <2>1. AssignConfigOutput(s) = Failed(off)
        BY <1>8 DEF AssignConfigOutput
    <2> HIDE DEF off
    <2>2. WithConfig(s.job, FALSE, config)
            = [s.job EXCEPT !.elem_output = FALSE]
        BY <1>1 DEF Jobs, WithConfig
    <2>3. off = World(WithConfig(s.job, FALSE, config),
                      s.lines, s.buffers, s.status)
        BY <1>5, <2>2
    <2>4. off \in Worlds
        <3>1. [s.job EXCEPT !.elem_output = FALSE] \in Jobs
            BY <1>1 DEF Jobs
        <3> QED BY <1>1, <3>1, JobReplaced DEF off
    <2>5. Failed(off) = World(off.job, off.lines, off.buffers, "failure")
        BY <2>4, FailedIs
    <2>6. /\ off.job = WithConfig(s.job, FALSE, config)
          /\ off.lines = s.lines /\ off.buffers = s.buffers
        BY <2>3 DEF World
    <2>7. Failed(off) = World(WithConfig(s.job, FALSE, config),
                              s.lines, s.buffers, "failure")
        BY <2>5, <2>6
    <2>8. PICK e \in BOOLEAN : e = FALSE
        OBVIOUS
    <2>9. PICK r : r = World(WithConfig(s.job, e, config), s.lines, s.buffers, "failure")
        OBVIOUS
    <2>10. config \in Configs
        BY <1>1
    <2>11. Goal(r)
        <3> HIDE DEF config, objects, at
        <3> QED BY <1>2, <1>6a, <2>9, <2>10
    <2>12. Failed(off) = World(WithConfig(s.job, e, config), s.lines, s.buffers, "failure")
        BY <2>7, <2>8
    <2> QED BY <2>1, <2>9, <2>11, <2>12
<1>9. CASE /\ ~(config = NoConfig \/ at > Len(objects))
           /\ ~(objects[at].size < OutStoreNumParticles(config))
    <2>1. PICK addr : addr = objects[at].addr
        OBVIOUS
    <2>2. AssignConfigOutput(s) = [s EXCEPT !.job.elem_output = TRUE,
                                            !.job.config.out_store_addr = addr]
        BY <1>9, <2>1 DEF AssignConfigOutput
    <2>3. at \in DOMAIN objects
        BY <1>1, <1>9
    <2>4. objects[at] \in Objects /\ addr = Address(s.job.output, at) /\ addr \in Nat
        <3>1. objects[at] \in Objects /\ addr = Address(s.job.output, at)
            BY <1>1, <2>1, <2>3 DEF Sound, Placed
        <3> QED BY <2>1, <3>1 DEF Objects
    <2>5. PICK c : c = [config EXCEPT !.out_store_addr = addr]
        OBVIOUS
    <2>6. /\ c \in Configs /\ c.out_store_addr = addr
          /\ OutStoreNumParticles(c) = OutStoreNumParticles(config)
        <3>1. addr \in Nat
            BY <2>1, <2>4 DEF Objects
        <3> QED BY <1>1, <2>5, <3>1 DEF Configs, OutStoreNumParticles
    <2>7. objects[at].size >= OutStoreNumParticles(c)
          /\ objects[at].size >= OutStoreNumParticles(config)
        <3>1. objects[at].size \in Nat /\ OutStoreNumParticles(config) \in Nat
            BY <1>1, <2>4, OutStoreTyped DEF Objects
        <3> QED BY <1>9, <2>6, <3>1
    <2>8. [s EXCEPT !.job.elem_output = TRUE, !.job.config.out_store_addr = addr]
            = World(WithConfig(s.job, TRUE, c),
                    s.lines, s.buffers, "success")
        <3>1. PICK q \in Jobs : q = [s.job EXCEPT !.elem_output = TRUE] /\ q.config = config
            <4>1. [s.job EXCEPT !.elem_output = TRUE] \in Jobs
                BY <1>1 DEF Jobs
            <4> QED BY <1>1, <4>1 DEF Jobs
        <3>2. PICK p : p = [q EXCEPT !.config = c]
            OBVIOUS
        <3>3. PICK u \in Worlds : /\ u = [s EXCEPT !.job = q]
                                  /\ u.job = q /\ u.lines = s.lines /\ u.buffers = s.buffers
                                  /\ u.status = s.status
            <4>1. PICK u : u = WithJob(s, q)
                OBVIOUS
            <4>2. /\ u \in Worlds /\ u.job = q /\ u.lines = s.lines
                  /\ u.buffers = s.buffers /\ u.status = s.status
                BY <1>1, <4>1, WithJobIs
            <4> QED BY <4>1, <4>2 DEF WithJob
        <3>4. [u EXCEPT !.job.config.out_store_addr = addr] = [u EXCEPT !.job = p]
            BY <2>5, <3>1, <3>2, <3>3
        <3>5. [u EXCEPT !.job = p] = World(p, u.lines, u.buffers, u.status)
            BY JobReplaced
        <3> QED BY <1>1, <3>1, <3>2, <3>3, <3>4, <3>5 DEF WithConfig
    <2> HIDE DEF objects, at, config
    <2> QED BY <1>2, <1>9, <2>2, <2>3, <2>4, <2>5, <2>6, <2>7, <2>8
<1> QED BY <1>7, <1>8, <1>9

-----------------------------------------------------------------------------
(* Clearing.                                                               *)

\* What holds between calls, and after any part of one.
Steady(w) == Sound(w) /\ ConfigLive(w)

\* A world is made of its parts.
LEMMA WorldMade ==
    ASSUME NEW j \in Jobs, NEW l \in [DOMAIN Lines -> Seq(Monitors)],
           NEW b \in [Buffers -> Seq(Objects)], NEW status \in {"success", "failure"},
           NEW r, r = World(j, l, b, status)
    PROVE  /\ r \in Worlds /\ r.job = j /\ r.lines = l /\ r.buffers = b /\ r.status = status
    BY DEF World, Worlds

\* A job of a given kind in the place of another keeps a world steady.
LEMMA JobSteady ==
    ASSUME NEW w, Steady(w), NEW j \in Jobs,
           j.output = w.job.output, j.output_cxx = w.job.output_cxx,
           j.config = w.job.config, j.elem_offset = w.job.elem_offset,
           j.monitor_offset = w.job.monitor_offset,
           j.elem_output = w.job.elem_output, j.monitor_output = w.job.monitor_output,
           j.particles # None => SetsOf(j.sets, j.particles),
           NEW lns \in [DOMAIN Lines -> Seq(Monitors)], NEW status \in {"success", "failure"}
    PROVE  Steady(World(j, lns, w.buffers, status))
<1>1. w \in Worlds /\ w.buffers \in [Buffers -> Seq(Objects)]
    BY WorldTypes DEF Steady, Sound
<1>2. PICK r \in Worlds : /\ r = World(j, lns, w.buffers, status)
                          /\ r.job = j /\ r.lines = lns /\ r.buffers = w.buffers
    <2>1. PICK r : r = World(j, lns, w.buffers, status)
        OBVIOUS
    <2> QED BY <1>1, <2>1, WorldMade
<1>3. Sound(r)
    BY <1>1, <1>2 DEF Steady, Sound, OwnsOutput, HasOutput
<1>4. ConfigLive(r)
    BY <1>2, SameConfigLive DEF Steady, SameOutput
<1> QED BY <1>2, <1>3, <1>4 DEF Steady

\* Dropping the particles.
LEMMA ClearParticlesIs ==
    ASSUME NEW w, Steady(w)
    PROVE  LET r == ClearParticles(w)
           IN  /\ Steady(r) /\ r.status = w.status /\ r.job.output = w.job.output
               /\ r.job.particles = None /\ r.job.sets = {0}
               /\ r.job.line = w.job.line /\ r.lines = w.lines
<1>1. w \in Worlds /\ w.job \in Jobs /\ w.lines \in [DOMAIN Lines -> Seq(Monitors)]
      /\ w.status \in {"success", "failure"}
    BY WorldTypes DEF Steady, Sound
<1>0. PICK z \in SUBSET Nat : z = {0}
    <2>1. {0} \in SUBSET Nat
        OBVIOUS
    <2> QED BY <2>1
<1> DEFINE j == [w.job EXCEPT !.particles = None, !.sets = z, !.extents = NoExtents]
<1>2. ClearParticles(w) = World(j, w.lines, w.buffers, w.status)
    <2> DEFINE u == [w EXCEPT !.job.particles = None]
    <2>1. u.job = [w.job EXCEPT !.particles = None] /\ u.lines = w.lines
          /\ u.buffers = w.buffers /\ u.status = w.status
        BY <1>1 DEF Worlds
    <2>2. u \in Worlds
        <3>1. [w.job EXCEPT !.particles = None] \in Jobs
            BY <1>1 DEF Jobs
        <3> QED BY <1>1, <3>1, JobReplaced
    <2> DEFINE v == [u EXCEPT !.job.sets = z]
    <2>3. v.job = [u.job EXCEPT !.sets = z] /\ v.lines = u.lines
          /\ v.buffers = u.buffers /\ v.status = u.status /\ v \in Worlds
        <3> HIDE DEF u
        <3>1. [u.job EXCEPT !.sets = z] \in Jobs
            <4>1. u.job \in Jobs
                BY <2>2, WorldTypes
            <4> QED BY <4>1 DEF Jobs
        <3> QED BY <2>2, <3>1, JobReplaced
    <2>4. ClearParticles(w) = [v EXCEPT !.job.extents = NoExtents]
        BY <1>0 DEF ClearParticles
    <2> HIDE DEF v, u
    <2>5. [v EXCEPT !.job.extents = NoExtents]
            = World([v.job EXCEPT !.extents = NoExtents], v.lines, v.buffers, v.status)
        BY <2>3, JobReplaced
    <2>6. [v.job EXCEPT !.extents = NoExtents] = j
        BY <1>1, <2>1, <2>3 DEF Jobs
    <2> QED BY <2>1, <2>3, <2>4, <2>5, <2>6
<1>3. NoExtents \in ExtentSets
    BY DEF NoExtents, ExtentSets
<1>4. /\ j \in Jobs /\ j.particles = None /\ j.sets = z
      /\ j.output = w.job.output /\ j.output_cxx = w.job.output_cxx
      /\ j.config = w.job.config /\ j.elem_offset = w.job.elem_offset
      /\ j.monitor_offset = w.job.monitor_offset
      /\ j.elem_output = w.job.elem_output /\ j.monitor_output = w.job.monitor_output
      /\ j.line = w.job.line
    <2> HIDE DEF NoExtents
    <2> QED BY <1>1, <1>3 DEF Jobs
<1> HIDE DEF j
<1>5. Steady(World(j, w.lines, w.buffers, w.status))
    BY <1>1, <1>4, JobSteady
<1>6. /\ World(j, w.lines, w.buffers, w.status).job = j
      /\ World(j, w.lines, w.buffers, w.status).lines = w.lines
      /\ World(j, w.lines, w.buffers, w.status).status = w.status
    BY DEF World
<1> QED BY <1>0, <1>2, <1>4, <1>5, <1>6

\* Dropping the line.
LEMMA ClearLineIs ==
    ASSUME NEW w, Steady(w)
    PROVE  LET r == ClearLine(w)
           IN  /\ Steady(r) /\ r.status = w.status /\ r.job.output = w.job.output
               /\ r.job.particles = w.job.particles /\ r.job.sets = w.job.sets
               /\ r.job.extents = w.job.extents /\ r.job.line = None /\ r.lines = w.lines
<1>1. w \in Worlds /\ w.job \in Jobs /\ w.lines \in [DOMAIN Lines -> Seq(Monitors)]
      /\ w.status \in {"success", "failure"}
    BY WorldTypes DEF Steady, Sound
<1> DEFINE j == [w.job EXCEPT !.line = None, !.line_cxx = FALSE]
<1>2. ClearLine(w) = World(j, w.lines, w.buffers, w.status)
    <2> DEFINE u == [w EXCEPT !.job.line = None]
    <2>1. u.job = [w.job EXCEPT !.line = None] /\ u.lines = w.lines
          /\ u.buffers = w.buffers /\ u.status = w.status
        BY <1>1 DEF Worlds
    <2>2. u \in Worlds
        <3>1. [w.job EXCEPT !.line = None] \in Jobs
            BY <1>1 DEF Jobs
        <3> QED BY <1>1, <3>1, JobReplaced
    <2>3. ClearLine(w) = [u EXCEPT !.job.line_cxx = FALSE]
        BY DEF ClearLine
    <2> HIDE DEF u
    <2>4. [u EXCEPT !.job.line_cxx = FALSE]
            = World([u.job EXCEPT !.line_cxx = FALSE], u.lines, u.buffers, u.status)
        BY <2>2, JobReplaced
    <2>5. [u.job EXCEPT !.line_cxx = FALSE] = j
        BY <1>1, <2>1 DEF Jobs
    <2> QED BY <2>1, <2>3, <2>4, <2>5
<1>3. /\ j \in Jobs /\ j.particles = w.job.particles /\ j.sets = w.job.sets
      /\ j.output = w.job.output /\ j.output_cxx = w.job.output_cxx
      /\ j.config = w.job.config /\ j.elem_offset = w.job.elem_offset
      /\ j.monitor_offset = w.job.monitor_offset
      /\ j.elem_output = w.job.elem_output /\ j.monitor_output = w.job.monitor_output
      /\ j.extents = w.job.extents /\ j.line = None
    BY <1>1 DEF Jobs
<1> HIDE DEF j
<1>4. j.particles # None => SetsOf(j.sets, j.particles)
    BY <1>3 DEF Steady, Sound
<1>5. Steady(World(j, w.lines, w.buffers, w.status))
    BY <1>1, <1>3, <1>4, JobSteady
<1>6. /\ World(j, w.lines, w.buffers, w.status).job = j
      /\ World(j, w.lines, w.buffers, w.status).lines = w.lines
      /\ World(j, w.lines, w.buffers, w.status).status = w.status
    BY DEF World
<1> QED BY <1>2, <1>3, <1>5, <1>6

\* Dropping the output, and the buffer if it is the job's own.
LEMMA ClearOutputIs ==
    ASSUME NEW w, Steady(w)
    PROVE  LET r == ClearOutput(w)
           IN  /\ Steady(r) /\ r.status = w.status
               /\ r.job.particles = w.job.particles /\ r.job.sets = w.job.sets
               /\ r.job.extents = w.job.extents /\ r.job.line = w.job.line
               /\ r.job.output = NoBuffer /\ r.job.config = NoConfig
               /\ ~r.job.elem_output /\ ~r.job.monitor_output
               /\ r.lines = FreeOwn(w).lines
<1>1. w \in Worlds /\ w.job \in Jobs /\ w.status \in {"success", "failure"}
    BY WorldTypes DEF Steady, Sound
<1>2. PICK f \in Worlds : /\ f = FreeOwn(w) /\ f.buffers[Own] = <<>>
                          /\ \A b \in Buffers : Placed(f.buffers[b], b)
    BY FreeOwnIs DEF Steady
<1> DEFINE j == [EmptyJob EXCEPT !.particles = w.job.particles, !.sets = w.job.sets,
                                 !.extents = w.job.extents, !.line = w.job.line,
                                 !.line_cxx = w.job.line_cxx]
<1>3. ClearOutput(w) = World(j, f.lines, f.buffers, w.status)
    BY <1>2 DEF ClearOutput
<1>4. NoConfig \in Configs /\ NoConfig.out_store_addr = NoAddress
    BY DEF NoConfig, Preset, EmptyConfig, Configs, Orders, InvalidOrder, TurnElemParticles, NoAddress
<1>5. /\ j \in Jobs /\ j.particles = w.job.particles /\ j.sets = w.job.sets
      /\ j.extents = w.job.extents /\ j.line = w.job.line
      /\ j.output = NoBuffer /\ j.config = NoConfig
      /\ j.elem_output = FALSE /\ j.monitor_output = FALSE
    <2> HIDE DEF NoConfig
    <2> QED BY <1>1, <1>4 DEF EmptyJob, Jobs
<1> HIDE DEF j
<1>6. f.lines \in [DOMAIN Lines -> Seq(Monitors)] /\ f.buffers \in [Buffers -> Seq(Objects)]
    BY <1>2, WorldTypes
<1>7. PICK r \in Worlds : /\ r = ClearOutput(w)
                          /\ r.job = j /\ r.lines = f.lines /\ r.buffers = f.buffers
                          /\ r.status = w.status
    <2>1. PICK r : r = ClearOutput(w)
        OBVIOUS
    <2> QED BY <1>1, <1>3, <1>5, <1>6, <2>1, WorldMade
<1>8. Sound(r)
    <2>1. NoBuffer # Own
        BY DEF NoBuffer, Own
    <2> QED BY <1>2, <1>5, <1>7, <2>1 DEF Steady, Sound, OwnsOutput
<1>9. ConfigLive(r)
    BY <1>4, <1>5, <1>7 DEF ConfigLive, OffsetIn, EmptyJob, j
<1> QED BY <1>2, <1>5, <1>7, <1>8, <1>9 DEF Steady

\* What a reset drops: only what it replaces.  A selection of sets is that of
\* the job, or the particles have been dropped.
LEMMA ClearForResetIs ==
    ASSUME NEW w, Steady(w), NEW particles \in ParticleBuffers, NEW sets, NEW line, NEW output,
           output = Own => OwnsOutput(w.job)
    PROVE  LET r == ClearForReset(w, particles, sets, line, output)
           IN  /\ Steady(r) /\ r.status = w.status
               /\ output = Own => OwnsOutput(r.job)
               /\ \/ r.job.particles = None /\ r.job.sets = {0}
                  \/ /\ r.job.particles = w.job.particles /\ r.job.particles = particles
                     /\ r.job.sets = w.job.sets /\ sets = w.job.sets
<1> DEFINE w1 == If(ReplacesParticles(w.job, particles, sets), w, ClearParticles)
           w2 == If(ReplacesLine(w.job, line), w1, ClearLine)
           w3 == If(ReplacesOutput(w.job, output), w2, ClearOutput)
<1>1. ClearForReset(w, particles, sets, line, output) = w3
    BY DEF ClearForReset
<1>2. /\ Steady(w1) /\ w1.status = w.status /\ w1.job.output = w.job.output
      /\ \/ w1.job.particles = None /\ w1.job.sets = {0}
         \/ /\ w1.job.particles = w.job.particles /\ w1.job.particles = particles
            /\ w1.job.sets = w.job.sets /\ sets = w.job.sets
    <2>1. CASE ReplacesParticles(w.job, particles, sets)
        <3>1. w1 = ClearParticles(w)
            BY <2>1 DEF If
        <3> QED BY <3>1, ClearParticlesIs
    <2>2. CASE ~ReplacesParticles(w.job, particles, sets)
        <3>1. w1 = w
            BY <2>2 DEF If
        <3> QED BY <2>2, <3>1 DEF ReplacesParticles
    <2> QED BY <2>1, <2>2
<1>3. w2 = IF ReplacesLine(w.job, line) THEN ClearLine(w1) ELSE w1
    BY DEF If
<1> HIDE DEF w1
<1>4. /\ Steady(w2) /\ w2.status = w.status /\ w2.job.output = w.job.output
      /\ w2.job.particles = w1.job.particles /\ w2.job.sets = w1.job.sets
    BY <1>2, <1>3, ClearLineIs
<1>5. w3 = IF ReplacesOutput(w.job, output) THEN ClearOutput(w2) ELSE w2
    BY DEF If
<1> HIDE DEF w2
<1>6. /\ Steady(w3) /\ w3.status = w.status
      /\ w3.job.particles = w1.job.particles /\ w3.job.sets = w1.job.sets
    BY <1>4, <1>5, ClearOutputIs
<1>7. ASSUME output = Own PROVE OwnsOutput(w3.job)
    <2>1. ~ReplacesOutput(w.job, output)
        BY <1>7 DEF ReplacesOutput, OwnsOutput, Own, NoBuffer
    <2> QED BY <1>4, <1>5, <1>7, <2>1 DEF OwnsOutput
<1> HIDE DEF w3
<1> QED BY <1>1, <1>2, <1>6, <1>7

-----------------------------------------------------------------------------
(* Resetting.                                                              *)

\* Monitors that learn ids are monitors.
LEMMA LineFor ==
    ASSUME NEW line \in Seq(Monitors), NEW x \in ExtentSets
    PROVE  [i \in DOMAIN line |-> MonitorFor(line[i], x)] \in Seq(Monitors)
<1>1. PICK len \in Nat : DOMAIN line = 1 .. len /\ \A i \in 1 .. len : line[i] \in Monitors
    OBVIOUS
<1>2. \A i \in 1 .. len : MonitorFor(line[i], x) \in Monitors
    <2>1. 0 \in Nat
        OBVIOUS
    <2> QED BY <1>1, <2>1, MonitorTypes
<1> HIDE DEF MonitorFor
<1>3. [i \in 1 .. len |-> MonitorFor(line[i], x)] \in Seq(Monitors)
    BY <1>2
<1> QED BY <1>1, <1>3

\* With valid sets it gives the job its particles, their extents and a line.
LEMMA WithInputsIs ==
    ASSUME NEW w, Steady(w), Succeeds(w), TurnsTyped, NEW particles \in ParticleBuffers,
           SetsOf(w.job.sets, particles), NEW line \in DOMAIN Lines
    PROVE  LET a == WithInputs(w, particles, line)
           IN  /\ Steady(a) /\ Succeeds(a) /\ Equipped(a)
               /\ a.job.output = w.job.output
<1>1. /\ w \in Worlds /\ w.job \in Jobs /\ w.lines \in [DOMAIN Lines -> Seq(Monitors)]
      /\ w.buffers \in [Buffers -> Seq(Objects)] /\ w.status = "success"
    BY WorldTypes DEF Steady, Sound, Succeeds
<1>2. PICK x \in ExtentSets : x = ExtentsOf(particles, w.job.sets) /\ ExtentsOK(x)
    BY ExtentsAre
<1> DEFINE j1 == [w.job EXCEPT !.extents = x]
<1>3. j1 \in Jobs /\ j1.extents = x
    BY <1>1 DEF Jobs
<1>4. PICK w1 \in Worlds : /\ w1 = PrepareParticles(w, particles)
                           /\ w1.job = j1 /\ w1.lines = w.lines
                           /\ w1.buffers = w.buffers /\ w1.status = "success"
    <2>1. PrepareParticles(w, particles) = WithJob(w, j1)
        BY <1>2 DEF PrepareParticles, WithJob
    <2> HIDE DEF j1
    <2>2. PICK r : r = PrepareParticles(w, particles)
        OBVIOUS
    <2> QED BY <1>1, <1>3, <2>1, <2>2, WithJobIs
<1> HIDE DEF j1
<1> DEFINE v == IF w1.job.particles = None THEN w1.lines[line]
                ELSE [i \in DOMAIN w1.lines[line] |-> MonitorFor(w1.lines[line][i], w1.job.extents)]
           lns == [w1.lines EXCEPT ![line] = v]
<1>5. lns \in [DOMAIN Lines -> Seq(Monitors)]
    <2>1. w1.lines[line] \in Seq(Monitors)
        BY <1>1, <1>4
    <2>2. v \in Seq(Monitors)
        BY <1>3, <1>4, <2>1, LineFor
    <2> HIDE DEF v
    <2> QED BY <1>1, <1>4, <2>2
<1>6. PICK w2 \in Worlds : /\ w2 = PrepareLine(w1, line)
                           /\ w2.job = j1 /\ w2.lines = lns
                           /\ w2.buffers = w.buffers /\ w2.status = "success"
    <2>1. PrepareLine(w1, line) = [w1 EXCEPT !.lines = lns]
        BY Zenon DEF PrepareLine
    <2> HIDE DEF lns, v
    <2>2. [w1 EXCEPT !.lines = lns] = World(w1.job, lns, w1.buffers, w1.status)
        BY DEF World, Worlds
    <2>3. PICK r : r = PrepareLine(w1, line)
        OBVIOUS
    <2>4. r = World(j1, lns, w.buffers, "success")
        BY <1>4, <2>1, <2>2, <2>3
    <2>5. /\ r \in Worlds /\ r.job = j1 /\ r.lines = lns
          /\ r.buffers = w.buffers /\ r.status = "success"
        <3>1. w.buffers \in [Buffers -> Seq(Objects)] /\ j1 \in Jobs
            BY <1>1, <1>3
        <3> QED BY <1>5, <2>4, <3>1, WorldMade
    <2> QED BY <2>3, <2>5
<1> HIDE DEF lns
<1>7. PICK cxx \in BOOLEAN : cxx = (w2.job.line_cxx /\ line = w.job.line)
    OBVIOUS
<1> DEFINE j2 == [j1 EXCEPT !.particles = particles]
           j3 == [j2 EXCEPT !.line = line]
           j4 == [j3 EXCEPT !.line_cxx = cxx]
<1>8. j2 \in Jobs
    BY <1>3 DEF Jobs
<1>9. j3 \in Jobs /\ j3.line_cxx = w2.job.line_cxx
    <2>1. j3 \in Jobs
        <3> HIDE DEF j2
        <3> QED BY <1>8 DEF Jobs
    <2>2. j3.line_cxx = j1.line_cxx
        BY <1>3 DEF Jobs
    <2> QED BY <1>6, <2>1, <2>2
<1>10. j4 \in Jobs
    <2> HIDE DEF j3
    <2> QED BY <1>9 DEF Jobs
<1>11. WithInputs(w, particles, line) = World(j4, lns, w.buffers, "success")
    <2>1. WithInputs(w, particles, line) =
            [w2 EXCEPT !.job.particles = particles, !.job.line = line,
                       !.job.line_cxx = cxx]
        BY <1>4, <1>6, <1>7 DEF WithInputs
    <2>2. PICK u \in Worlds : /\ u = WithJob(w2, j2)
                              /\ u.job = j2 /\ u.lines = lns
                              /\ u.buffers = w.buffers /\ u.status = "success"
        <3> HIDE DEF j2
        <3>1. PICK u : u = WithJob(w2, j2)
            OBVIOUS
        <3> QED BY <1>6, <1>8, <3>1, WithJobIs
    <2>3. PICK t \in Worlds : /\ t = WithJob(u, j3)
                              /\ t.job = j3 /\ t.lines = lns
                              /\ t.buffers = w.buffers /\ t.status = "success"
        <3> HIDE DEF j3
        <3>1. PICK t : t = WithJob(u, j3)
            OBVIOUS
        <3> QED BY <2>2, <1>9, <3>1, WithJobIs
    <2>4. [w2 EXCEPT !.job.particles = particles] = u
        BY <1>6, <2>2 DEF WithJob
    <2>5. [u EXCEPT !.job.line = line] = t
        BY <2>2, <2>3 DEF WithJob
    <2>6. [t EXCEPT !.job.line_cxx = cxx] = WithJob(t, j4)
        BY <2>3 DEF WithJob
    <2>7. WithInputs(w, particles, line) = WithJob(t, j4)
        <3>1. WithInputs(w, particles, line) =
                [u EXCEPT !.job.line = line, !.job.line_cxx = cxx]
            BY <2>1, <2>4
        <3>2. WithInputs(w, particles, line) =
                [t EXCEPT !.job.line_cxx = cxx]
            BY <2>5, <3>1
        <3> QED BY <2>6, <3>2
    <2> HIDE DEF j2, j3, j4
    <2> QED BY <1>10, <2>3, <2>7, WithJobIs
<1>12. /\ j4.particles = particles /\ j4.sets = w.job.sets /\ j4.extents = x
       /\ j4.line = line
       /\ j4.output = w.job.output /\ j4.output_cxx = w.job.output_cxx
       /\ j4.config = w.job.config /\ j4.elem_offset = w.job.elem_offset
       /\ j4.monitor_offset = w.job.monitor_offset
       /\ j4.elem_output = w.job.elem_output /\ j4.monitor_output = w.job.monitor_output
    BY <1>1 DEF Jobs, j1
<1> HIDE DEF j4
<1>13. Steady(World(j4, lns, w.buffers, "success"))
    BY <1>5, <1>10, <1>12, JobSteady
<1>14. PICK a \in Worlds : /\ a = WithInputs(w, particles, line) /\ a.job = j4
                           /\ a.status = "success"
    <2>1. PICK a : a = World(j4, lns, w.buffers, "success")
        OBVIOUS
    <2> QED BY <1>1, <1>5, <1>10, <1>11, <2>1, WorldMade
<1>15. Equipped(a)
    BY <1>2, <1>12, <1>14, Given DEF Equipped
<1> QED BY <1>11, <1>12, <1>13, <1>14, <1>15 DEF Succeeds

\* A line that needs no output has no monitor to watch.
LEMMA NothingToWatch ==
    ASSUME NEW w, NEW s, s.job.line \in DOMAIN Lines, SameInputs(w, s), SameLines(w, s)
    PROVE  /\ NeedsMonitors(LineOf(w)) <=> NeedsMonitors(LineOf(s))
           /\ ~NeedsMonitors(LineOf(s)) => Windows(w) /\ MonitorsLive(w)
<1>1. SameLine(LineOf(w), LineOf(s))
    BY DEF SameInputs, SameLines, LineOf
<1>2. NeedsMonitors(LineOf(w)) <=> NeedsMonitors(LineOf(s))
    BY <1>1 DEF SameLine, SameSchedule, NeedsMonitors
<1>3. ~NeedsMonitors(LineOf(w)) => Watching(w) = {}
    BY DEF NeedsMonitors, Watching, IsPrepared
<1> QED BY <1>2, <1>3 DEF Windows, MonitorsLive

\* Once the output is prepared, giving it to whatever needs it.
LEMMA AssignedIs ==
    ASSUME NEW s, Sound(s), Succeeds(s), Equipped(s), Prepared(s), NEW elem \in BOOLEAN
    PROVE  LET r == If(elem, s, AssignConfigOutput)
           IN  /\ Sound(r) /\ Prepared(r) /\ SameInputs(r, s) /\ SameLines(r, s)
               /\ Equipped(r) /\ Steady(r)
               /\ r.job.monitor_output = s.job.monitor_output
               /\ MonitorsLive(s) => MonitorsLive(r)
<1>1. If(elem, s, AssignConfigOutput) = IF elem THEN AssignConfigOutput(s) ELSE s
    BY DEF If
<1>2. CASE elem
    BY <1>1, <1>2, AssignConfigOutputIs, SameInputsEquipped DEF Steady, Prepared
<1>3. CASE ~elem
    <2>1. s \in Worlds
        BY DEF Sound
    <2> QED BY <1>1, <1>3, <2>1, SameLinesOften DEF Steady, Prepared, SameInputs
<1> QED BY <1>2, <1>3

\* A reset with valid sets leaves a steady world, in which the job is set up
\* if the reset succeeded.
LEMMA DoResetIs ==
    ASSUME NEW w, Steady(w), Succeeds(w), TurnsTyped, NEW particles \in ParticleBuffers,
           SetsOf(w.job.sets, particles), NEW line \in DOMAIN Lines,
           NEW output \in Buffers \cup {NoBuffer}, output = Own => OwnsOutput(w.job),
           NEW until \in Nat, NEW moves \in BOOLEAN
    PROVE  LET r == DoReset(w, particles, line, output, until, moves)
           IN  Steady(r) /\ (Succeeds(r) => SetUp(r))
<1>1. PICK a : a = WithInputs(w, particles, line)
    OBVIOUS
<1>2. /\ Steady(a) /\ Succeeds(a) /\ Equipped(a) /\ Sound(a) /\ a \in Worlds
      /\ output = Own => OwnsOutput(a.job)
      /\ a.job.line \in DOMAIN Lines /\ a.job.particles \in ParticleBuffers
    <2>1. Steady(a) /\ Succeeds(a) /\ Equipped(a) /\ a.job.output = w.job.output
        BY <1>1, WithInputsIs
    <2>2. a \in Worlds
        BY <2>1 DEF Steady, Sound
    <2> QED BY <2>1, <2>2, WorldTypes DEF Steady, OwnsOutput, Equipped
<1> DEFINE needs == Required(a, until)
           p     == PrepareOutput(a, output, until, moves)
           e     == If(needs.elem, p, AssignConfigOutput)
           m     == If(needs.monitors, e, AssignMonitorOutput)
           first == IF Succeeds(p) THEN e ELSE p
           both  == IF Succeeds(first) THEN If(needs.monitors, first, AssignMonitorOutput) ELSE first
           set   == If(output # NoBuffer /\ ~HasOutput(a.job), a, LAMBDA s : SetOutput(s, output))
<1>3. DoReset(w, particles, line, output, until, moves) =
        IF needs.elem \/ needs.monitors THEN both ELSE set
    <2>1. DoReset(w, particles, line, output, until, moves) = ResetOutput(a, output, until, moves)
        BY <1>1 DEF DoReset
    <2> QED BY <2>1, Zenon DEF ResetOutput, Then
<1>4. needs.elem \in BOOLEAN /\ (needs.monitors <=> NeedsMonitors(LineOf(a)))
    BY DEF Required, NeedsElemByElem, LineOf
<1> HIDE DEF needs
<1>5. ASSUME needs.elem \/ needs.monitors
      PROVE  Steady(both) /\ (Succeeds(both) => SetUp(both))
    <2>1. CASE ~Succeeds(p)
        <3>1. p = Failed(a)
            BY <1>2, <2>1, PrepareOutputIs
        <3>2. Steady(p)
            BY <1>2, <3>1, FailedIs DEF Steady
        <3>3. both = p
            BY <2>1
        <3> QED BY <2>1, <3>2, <3>3
    <2>2. CASE Succeeds(p)
        <3>1. Sound(p) /\ LaidOut(p) /\ SameInputs(p, a) /\ SameLines(p, a)
            BY <1>2, <2>2, PrepareOutputIs
        <3>2. Prepared(p) /\ Equipped(p) /\ p \in Worlds
            BY <1>2, <3>1, SameInputsEquipped DEF LaidOut, Prepared, ConfigLive, OffsetIn, Sound
        <3>3. first = e
            BY <2>2
        <3> HIDE DEF p
        <3>4. PICK b \in BOOLEAN : b = needs.elem
            BY <1>4
        <3>5. e = If(b, p, AssignConfigOutput)
            BY <3>4
        <3> HIDE DEF first, e
        <3>6. /\ Sound(first) /\ Prepared(first) /\ SameInputs(first, p) /\ SameLines(first, p)
              /\ Equipped(first) /\ Steady(first)
            BY <2>2, <3>1, <3>2, <3>3, <3>5, AssignedIs
        <3>7. SameInputs(first, a) /\ SameLines(first, a)
            BY <1>2, <3>1, <3>6, SameLinesOften DEF SameInputs
        <3>8. CASE ~Succeeds(first)
            BY <3>6, <3>8
        <3>9. CASE Succeeds(first) /\ ~needs.monitors
            <4>1. both = first
                BY <3>9 DEF If
            <4>2. /\ NeedsMonitors(LineOf(first)) <=> NeedsMonitors(LineOf(a))
                  /\ ~NeedsMonitors(LineOf(a)) => MonitorsLive(first)
                BY <1>2, <3>7, NothingToWatch
            <4>3. SetUp(first)
                BY <1>4, <3>6, <3>9, <4>2 DEF SetUp, Prepared
            <4> QED BY <3>6, <4>1, <4>3
        <3>10. CASE Succeeds(first) /\ needs.monitors
            <4>1. both = AssignMonitorOutput(first)
                BY <3>10 DEF If
            <4>2. PICK r : r = AssignMonitorOutput(first)
                OBVIOUS
            <4>3. /\ Sound(r) /\ Prepared(r) /\ SameInputs(r, first)
                  /\ Succeeds(r) => MonitorsLive(r) /\ r.job.monitor_output
                BY <3>6, <3>10, <4>2, AssignMonitorOutputIs
            <4>4. Equipped(r)
                BY <3>6, <4>3, SameInputsEquipped
            <4> HIDE DEF both
            <4> QED BY <4>1, <4>2, <4>3, <4>4 DEF Steady, Prepared, SetUp
        <3> QED BY <3>8, <3>9, <3>10
    <2> QED BY <2>1, <2>2
<1>6. ASSUME ~(needs.elem \/ needs.monitors)
      PROVE  Steady(set) /\ (Succeeds(set) => SetUp(set))
    <2>1. set = IF output # NoBuffer /\ ~HasOutput(a.job) THEN SetOutput(a, output) ELSE a
        BY DEF If
    <2>2. SameInputs(a, a) /\ SameLines(a, a)
        BY <1>2, SameLinesOften DEF SameInputs
    <2>3. ~NeedsMonitors(LineOf(a)) /\ Windows(a) /\ MonitorsLive(a)
        BY <1>2, <1>4, <1>6, <2>2, NothingToWatch
    <2>4. CASE ~(output # NoBuffer /\ ~HasOutput(a.job))
        BY <1>2, <2>1, <2>3, <2>4 DEF SetUp
    <2>5. CASE output # NoBuffer /\ ~HasOutput(a.job)
        <3>1. PICK r \in Worlds :
                /\ r = SetOutput(a, output)
                /\ SameInputs(r, a) /\ SameFlags(r, a) /\ r.job.config = a.job.config
                /\ r.lines = a.lines /\ r.buffers = a.buffers /\ r.job.output = output
                /\ r.job.elem_offset = a.job.elem_offset
            <4>1. PICK r : r = SetOutput(a, output)
                OBVIOUS
            <4> QED BY <1>2, <4>1, SetOutputIs
        <3>2. output # Own
            BY <1>2, <2>5 DEF OwnsOutput, HasOutput, Own, NoBuffer
        <3>3. Sound(r)
            BY <1>2, <2>5, <3>1, <3>2 DEF Sound, OwnsOutput, HasOutput, SameInputs, SameFlags, Own, NoBuffer
        <3>4. a.job.config.out_store_addr = NoAddress
            BY <1>2, <2>5 DEF Steady, ConfigLive, HasRoom
        <3>5. a.job.elem_offset = 0
            BY <1>2, <2>5 DEF Steady, ConfigLive, OffsetIn
        <3>6. ConfigLive(r)
            BY <3>1, <3>4, <3>5 DEF ConfigLive, OffsetIn
        <3>7. SameLines(r, a)
            BY <1>2, <3>1, SameLinesOften
        <3>8. ~NeedsMonitors(LineOf(r)) /\ Windows(r) /\ MonitorsLive(r)
            BY <1>2, <2>3, <3>1, <3>7, NothingToWatch
        <3>9. SetUp(r)
            BY <1>2, <3>1, <3>8, SameInputsEquipped DEF SetUp
        <3> QED BY <2>1, <2>5, <3>1, <3>3, <3>6, <3>9 DEF Steady
    <2> QED BY <2>4, <2>5
<1> HIDE DEF both, set
<1> QED BY <1>3, <1>5, <1>6

-----------------------------------------------------------------------------
(* The calls, from the state between two calls.                            *)

\* A job that differs in its handles and in whether it is usable: whatever
\* was live is.
LEMMA AlikeIs ==
    ASSUME NEW w, Steady(w), NEW j \in Jobs,
           j.particles = w.job.particles, j.sets = w.job.sets,
           j.extents = w.job.extents, j.line = w.job.line,
           j.output = w.job.output, w.job.output_cxx => j.output_cxx,
           j.config = w.job.config, j.elem_offset = w.job.elem_offset,
           j.monitor_offset = w.job.monitor_offset,
           j.elem_output = w.job.elem_output, j.monitor_output = w.job.monitor_output,
           NEW status \in {"success", "failure"},
           NEW r, r = World(j, w.lines, w.buffers, status)
    PROVE  Steady(r) /\ (SetUp(w) => SetUp(r)) /\ r.job = j /\ r.status = status
<1>1. /\ w \in Worlds /\ w.lines \in [DOMAIN Lines -> Seq(Monitors)]
      /\ w.buffers \in [Buffers -> Seq(Objects)]
    BY WorldTypes DEF Steady, Sound
<1>2. /\ r \in Worlds /\ r.job = j /\ r.lines = w.lines /\ r.buffers = w.buffers
      /\ r.status = status
    BY <1>1, WorldMade
<1>3. SameInputs(r, w) /\ SameOutput(r, w)
    BY <1>2 DEF SameInputs, SameOutput
<1>4. Sound(r)
    BY <1>1, <1>2 DEF Steady, Sound, OwnsOutput, HasOutput
<1>5. ConfigLive(r)
    BY <1>2, <1>3, SameConfigLive DEF Steady
<1>6. ASSUME SetUp(w) PROVE SetUp(r)
    <2>1. Equipped(r)
        BY <1>3, <1>6, SameInputsEquipped DEF SetUp
    <2> QED BY <1>2, <1>3, <1>6, <2>1, SameMonitorsLive DEF SetUp
<1> QED BY <1>2, <1>4, <1>5, <1>6 DEF Steady

\* The C++ calls keep handles, which only adds to them.
LEMMA KeepHandlesIs ==
    ASSUME NEW w, Steady(w), NEW output
    PROVE  LET r == KeepHandles(w, output)
           IN  Steady(r) /\ (SetUp(w) => SetUp(r)) /\ r.status = w.status
<1>1. w \in Worlds /\ w.job \in Jobs /\ w.status \in {"success", "failure"}
    BY WorldTypes DEF Steady, Sound
<1>2. PICK cxx \in BOOLEAN :
        cxx = (w.job.output_cxx \/ (HasOutput(w.job) /\ output = w.job.output))
    OBVIOUS
<1> DEFINE j1 == [w.job EXCEPT !.line_cxx = TRUE]
           j  == [j1 EXCEPT !.output_cxx = cxx]
<1>3. j1 \in Jobs /\ j1.output_cxx = w.job.output_cxx
    BY <1>1 DEF Jobs
<1>4. PICK u \in Worlds : /\ u = [w EXCEPT !.job.line_cxx = TRUE] /\ u.job = j1
                          /\ u.lines = w.lines /\ u.buffers = w.buffers /\ u.status = w.status
    <2>1. PICK u : u = WithJob(w, j1)
        OBVIOUS
    <2>2. u = [w EXCEPT !.job.line_cxx = TRUE]
        BY <2>1 DEF WithJob
    <2> HIDE DEF j1
    <2>3. /\ u \in Worlds /\ u.job = j1 /\ u.lines = w.lines
          /\ u.buffers = w.buffers /\ u.status = w.status
        BY <1>1, <1>3, <2>1, WithJobIs
    <2> QED BY <2>2, <2>3
<1>5. KeepHandles(w, output) = [u EXCEPT !.job.output_cxx = cxx]
    <2>1. KeepHandles(w, output) = [w EXCEPT !.job.line_cxx = TRUE, !.job.output_cxx = cxx]
        BY <1>2 DEF KeepHandles
    <2> QED BY <1>4, <2>1
<1>6. [u EXCEPT !.job.output_cxx = cxx] = WithJob(u, j)
    BY <1>4 DEF WithJob
<1>7. j \in Jobs
    <2> HIDE DEF j1
    <2> QED BY <1>3 DEF Jobs
<1>8. /\ j.particles = w.job.particles /\ j.sets = w.job.sets
      /\ j.extents = w.job.extents /\ j.line = w.job.line
      /\ j.output = w.job.output /\ (w.job.output_cxx => j.output_cxx)
      /\ j.config = w.job.config /\ j.elem_offset = w.job.elem_offset
      /\ j.monitor_offset = w.job.monitor_offset
      /\ j.elem_output = w.job.elem_output /\ j.monitor_output = w.job.monitor_output
    BY <1>1, <1>2 DEF Jobs
<1> HIDE DEF j, j1
<1>9. KeepHandles(w, output) = World(j, w.lines, w.buffers, w.status)
    <2>1. PICK r : r = KeepHandles(w, output)
        OBVIOUS
    <2>2. r = WithJob(u, j)
        BY <1>5, <1>6, <2>1
    <2>3. r = World(j, u.lines, u.buffers, u.status)
        BY <1>7, <2>2, WithJobIs
    <2> QED BY <1>4, <2>1, <2>3
<1> QED BY <1>1, <1>7, <1>8, <1>9, AlikeIs

\* So does the C++ call that assigns an output buffer.
LEMMA OutputHandleIs ==
    ASSUME NEW w, Steady(w)
    PROVE  LET r == [w EXCEPT !.job.output_cxx = TRUE]
           IN  Steady(r) /\ (SetUp(w) => SetUp(r)) /\ r.status = w.status
<1>1. w \in Worlds /\ w.job \in Jobs /\ w.status \in {"success", "failure"}
    BY WorldTypes DEF Steady, Sound
<1> DEFINE j == [w.job EXCEPT !.output_cxx = TRUE]
<1>2. [w EXCEPT !.job.output_cxx = TRUE] = WithJob(w, j)
    BY DEF WithJob
<1>3. /\ j \in Jobs
      /\ j.particles = w.job.particles /\ j.sets = w.job.sets
      /\ j.extents = w.job.extents /\ j.line = w.job.line
      /\ j.output = w.job.output /\ j.output_cxx = TRUE
      /\ j.config = w.job.config /\ j.elem_offset = w.job.elem_offset
      /\ j.monitor_offset = w.job.monitor_offset
      /\ j.elem_output = w.job.elem_output /\ j.monitor_output = w.job.monitor_output
    BY <1>1 DEF Jobs
<1> HIDE DEF j
<1>4. PICK r : r = WithJob(w, j)
    OBVIOUS
<1>5. r = World(j, w.lines, w.buffers, w.status)
    BY <1>1, <1>3, <1>4, WithJobIs
<1> QED BY <1>1, <1>2, <1>3, <1>4, <1>5, AlikeIs

\* Selecting keeps the sets the particles have, and fails if there are none.
LEMMA SelectSetsIs ==
    ASSUME NEW c, Steady(c), NEW particles, NEW selection \in SUBSET Nat,
           \/ c.job.particles = None
           \/ c.job.particles = particles /\ c.job.sets = selection
    PROVE  LET r == SelectSets(c, particles, selection)
           IN  /\ Steady(r) /\ SameFlags(r, c) /\ r.job.output = c.job.output
               /\ r.job.particles = c.job.particles /\ r.job.extents = c.job.extents
               /\ r.job.line = c.job.line /\ r.job.config = c.job.config
               /\ r.lines = c.lines
               /\ Succeeds(r) => SetsOf(r.job.sets, particles)
<1>1. /\ c \in Worlds /\ c.job \in Jobs /\ c.lines \in [DOMAIN Lines -> Seq(Monitors)]
      /\ c.status \in {"success", "failure"}
    BY WorldTypes DEF Steady, Sound
<1>2. PICK there \in SUBSET Nat : there = {i \in selection : i < Len(Sets[particles])}
    <2>1. {i \in selection : i < Len(Sets[particles])} \in SUBSET Nat
        OBVIOUS
    <2> QED BY <2>1
<1>3. PICK status \in {"success", "failure"} :
        status = IF there = {} THEN "failure" ELSE c.status
    BY <1>1
<1> DEFINE j == [c.job EXCEPT !.sets = there]
<1>4. /\ j \in Jobs /\ j.sets = there /\ j.particles = c.job.particles
      /\ j.extents = c.job.extents /\ j.line = c.job.line
      /\ j.output = c.job.output /\ j.output_cxx = c.job.output_cxx
      /\ j.config = c.job.config /\ j.elem_offset = c.job.elem_offset
      /\ j.monitor_offset = c.job.monitor_offset
      /\ j.elem_output = c.job.elem_output /\ j.monitor_output = c.job.monitor_output
    BY <1>1 DEF Jobs
<1>5. SelectSets(c, particles, selection) = [c EXCEPT !.job.sets = there, !.status = status]
    BY <1>2, <1>3 DEF SelectSets
<1>6. [c EXCEPT !.job.sets = there] = WithJob(c, j)
    BY DEF WithJob
<1> HIDE DEF j
<1>7. PICK u \in Worlds : /\ u = WithJob(c, j) /\ u.job = j /\ u.lines = c.lines
                          /\ u.buffers = c.buffers
    <2>1. PICK u : u = WithJob(c, j)
        OBVIOUS
    <2> QED BY <1>1, <1>4, <2>1, WithJobIs
<1>8. SelectSets(c, particles, selection) = World(j, c.lines, c.buffers, status)
    <2>1. SelectSets(c, particles, selection) = [u EXCEPT !.status = status]
        BY <1>5, <1>6, <1>7
    <2>2. [u EXCEPT !.status = status] = World(u.job, u.lines, u.buffers, status)
        BY DEF World, Worlds
    <2> QED BY <1>7, <2>1, <2>2
<1>9. j.particles # None => SetsOf(j.sets, j.particles)
    <2> SUFFICES ASSUME j.particles # None PROVE SetsOf(j.sets, j.particles)
        OBVIOUS
    <2>1. SetsOf(selection, particles) /\ j.particles = particles
        BY <1>4 DEF Steady, Sound
    <2>2. there = selection
        BY <1>2, <2>1 DEF SetsOf
    <2> QED BY <1>4, <2>1, <2>2
<1>10. Steady(World(j, c.lines, c.buffers, status))
    BY <1>1, <1>4, <1>9, JobSteady
<1>11. /\ World(j, c.lines, c.buffers, status).job = j
       /\ World(j, c.lines, c.buffers, status).lines = c.lines
       /\ World(j, c.lines, c.buffers, status).status = status
    BY DEF World
<1>12. status = "success" => SetsOf(there, particles)
    BY <1>2, <1>3 DEF SetsOf
<1> QED BY <1>4, <1>8, <1>10, <1>11, <1>12 DEF Succeeds, SameFlags

\* Between two calls the world is steady.
LEMMA CurrentIs ==
    ASSUME IInv
    PROVE  /\ Steady(Current) /\ Succeeds(Current) /\ Current.job = job
           /\ Current.lines = lines /\ Current.buffers = buffers /\ Current \in Worlds
           /\ job \in Jobs /\ TurnsTyped
<1>1. Current.job = job /\ Current.status = "success"
      /\ Current.lines = lines /\ Current.buffers = buffers
    BY DEF Current, World
<1>2. Current \in Worlds
    BY DEF IInv, Sound
<1> QED BY <1>1, <1>2, WorldTypes DEF IInv, Steady, Succeeds

\* A reset leaves a steady world, and a job that is set up if it succeeded.
LEMMA ResetWorldIs ==
    ASSUME IInv, NEW particles \in ParticleBuffers, NEW selection \in SUBSET Nat,
           NEW line \in DOMAIN Lines, NEW output \in Buffers \cup {NoBuffer},
           output = Own => OwnsOutput(job), NEW until \in Nat, NEW moves \in BOOLEAN
    PROVE  LET r == ResetWorld(particles, selection, line, output, until, moves)
           IN  Steady(r) /\ (Succeeds(r) => SetUp(r))
<1>1. PICK w : w = Current
    OBVIOUS
<1>2. Steady(w) /\ Succeeds(w) /\ w.job = job /\ TurnsTyped
    BY <1>1, CurrentIs
<1>3. PICK sets : sets = IF selection = Keep THEN job.sets ELSE selection
    OBVIOUS
<1>4. PICK c : c = ClearForReset(w, particles, sets, line, output)
    OBVIOUS
<1>5. /\ Steady(c) /\ Succeeds(c)
      /\ output = Own => OwnsOutput(c.job)
      /\ \/ c.job.particles = None /\ c.job.sets = {0}
         \/ /\ c.job.particles = w.job.particles /\ c.job.particles = particles
            /\ c.job.sets = w.job.sets /\ sets = w.job.sets
    BY <1>2, <1>4, ClearForResetIs DEF Succeeds
<1>6. PICK chosen : chosen = IF selection = Keep THEN c ELSE SelectSets(c, particles, selection)
    OBVIOUS
<1>7. ResetWorld(particles, selection, line, output, until, moves) =
        IF Succeeds(chosen) THEN DoReset(chosen, particles, line, output, until, moves)
                            ELSE chosen
    BY <1>1, <1>3, <1>4, <1>6, Zenon DEF ResetWorld, Then
<1>8. /\ Steady(chosen)
      /\ output = Own => OwnsOutput(chosen.job)
      /\ Succeeds(chosen) => SetsOf(chosen.job.sets, particles)
    <2>1. CASE selection = Keep
        <3>1. chosen = c
            BY <1>6, <2>1
        <3>2. CASE c.job.particles = None /\ c.job.sets = {0}
            <4>1. SetsOf({0}, particles)
                BY Given DEF SetsOf
            <4> QED BY <1>5, <3>1, <3>2, <4>1
        <3>3. CASE c.job.particles = particles
            <4>1. particles # None
                BY Given
            <4>2. SetsOf(c.job.sets, particles)
                BY <1>5, <3>3, <4>1 DEF Steady, Sound
            <4> QED BY <1>5, <3>1, <4>2
        <3> QED BY <1>5, <3>2, <3>3
    <2>2. CASE selection # Keep
        <3>1. sets = selection /\ chosen = SelectSets(c, particles, selection)
            BY <1>3, <1>6, <2>2
        <3>2. \/ c.job.particles = None
              \/ c.job.particles = particles /\ c.job.sets = selection
            BY <1>5, <3>1
        <3>3. /\ Steady(chosen) /\ chosen.job.output = c.job.output
              /\ Succeeds(chosen) => SetsOf(chosen.job.sets, particles)
            BY <1>5, <3>1, <3>2, SelectSetsIs
        <3> QED BY <1>5, <3>3 DEF OwnsOutput
    <2> QED BY <2>1, <2>2
<1>9. CASE Succeeds(chosen)
    <2>1. PICK r : r = DoReset(chosen, particles, line, output, until, moves)
        OBVIOUS
    <2>2. Steady(r) /\ (Succeeds(r) => SetUp(r))
        BY <1>2, <1>8, <1>9, <2>1, DoResetIs
    <2> QED BY <1>7, <1>9, <2>1, <2>2
<1>10. CASE ~Succeeds(chosen)
    BY <1>7, <1>8, <1>10
<1> QED BY <1>9, <1>10

\* Assigning another output buffer does the same, monitors first.
LEMMA AssignOutputWorldIs ==
    ASSUME IInv, job.usable, NEW output \in Buffers \cup {NoBuffer},
           output = Own => OwnsOutput(job), NEW moves \in BOOLEAN
    PROVE  LET r == AssignOutputWorld(output, moves)
           IN  Steady(r) /\ (Succeeds(r) => SetUp(r))
<1>1. PICK w : w = Current
    OBVIOUS
<1>2. /\ Steady(w) /\ Succeeds(w) /\ w.job = job /\ w \in Worlds /\ Sound(w) /\ SetUp(w)
      /\ Equipped(w) /\ job \in Jobs /\ w.job.line \in DOMAIN Lines
      /\ output = Own => OwnsOutput(w.job)
    <2>1. /\ Steady(w) /\ Succeeds(w) /\ w.job = job /\ w \in Worlds /\ job \in Jobs
        BY <1>1, CurrentIs
    <2>2. SetUp(w)
        BY <1>1 DEF IInv
    <2> QED BY <2>1, <2>2, WorldTypes DEF Steady, SetUp, Equipped
<1>3. PICK until \in Nat : until = NumElemByElemTurns
    <2>1. job.until \in Nat /\ job.extents \in ExtentSets
        BY <1>2 DEF Jobs
    <2>2. job.extents.min_turn \in Int
        BY <2>1 DEF ExtentSets
    <2> QED BY <2>1, <2>2 DEF NumElemByElemTurns
<1>4. PICK needs : needs = Required(w, until)
    OBVIOUS
<1>5. needs.elem \in BOOLEAN /\ (needs.monitors <=> NeedsMonitors(LineOf(w)))
    BY <1>4 DEF Required, NeedsElemByElem, LineOf
<1> DEFINE p == PrepareOutput(w, output, until, moves)
           m == If(needs.monitors /\ p.job.monitor_output, p, AssignMonitorOutput)
           first == IF Succeeds(p) THEN m ELSE p
           both == IF Succeeds(first)
                   THEN If(needs.elem /\ first.job.elem_output, first, AssignConfigOutput)
                   ELSE first
<1>6. AssignOutputWorld(output, moves) =
        IF needs.elem \/ needs.monitors THEN both ELSE Failed(w)
    BY <1>1, <1>3, <1>4, Zenon DEF AssignOutputWorld, Then
<1>7. Steady(both) /\ (Succeeds(both) => SetUp(both))
    <2>1. CASE ~Succeeds(p)
        <3>1. p = Failed(w)
            BY <1>2, <2>1, PrepareOutputIs
        <3>2. Steady(p)
            BY <1>2, <3>1, FailedIs DEF Steady
        <3>3. both = p
            BY <2>1
        <3> QED BY <2>1, <3>2, <3>3
    <2>2. CASE Succeeds(p)
        <3>1. Sound(p) /\ LaidOut(p) /\ SameInputs(p, w) /\ SameLines(p, w) /\ SameFlags(p, w)
            BY <1>2, <2>2, PrepareOutputIs
        <3>2. Prepared(p) /\ Equipped(p) /\ p \in Worlds
            BY <1>2, <3>1, SameInputsEquipped DEF LaidOut, Prepared, ConfigLive, OffsetIn, Sound
        <3>3. /\ NeedsMonitors(LineOf(p)) <=> needs.monitors
              /\ ~needs.monitors => MonitorsLive(p)
            BY <1>2, <1>5, <3>1, NothingToWatch
        <3>4. needs.monitors => p.job.monitor_output
            BY <1>2, <1>5, <3>1 DEF SetUp, SameFlags
        <3>5. first = IF needs.monitors THEN AssignMonitorOutput(p) ELSE p
            BY <2>2, <3>4 DEF If
        <3> HIDE DEF p
        <3>6. PICK f : f = first
            OBVIOUS
        <3> HIDE DEF first
        <3>7. /\ Sound(f) /\ Prepared(f) /\ SameInputs(f, p) /\ SameLines(f, p)
              /\ Succeeds(f) => /\ MonitorsLive(f)
                                /\ needs.monitors => f.job.monitor_output
            <4>1. CASE needs.monitors
                BY <2>2, <3>1, <3>2, <3>5, <3>6, <4>1, AssignMonitorOutputIs
            <4>2. CASE ~needs.monitors
                BY <3>1, <3>2, <3>3, <3>5, <3>6, <4>2, SameLinesOften DEF SameInputs
            <4> QED BY <4>1, <4>2
        <3>8. Equipped(f) /\ Steady(f) /\ f \in Worlds
            BY <3>2, <3>7, SameInputsEquipped DEF Steady, Prepared, Sound
        <3>9. CASE ~Succeeds(f)
            BY <3>6, <3>8, <3>9
        <3>10. CASE Succeeds(f)
            <4>1. PICK elem \in BOOLEAN : elem = (needs.elem /\ f.job.elem_output)
                OBVIOUS
            <4>2. PICK r : r = If(elem, f, AssignConfigOutput)
                OBVIOUS
            <4>3. both = r
                BY <3>6, <3>10, <4>1, <4>2
            <4>4. /\ Sound(r) /\ Prepared(r) /\ SameInputs(r, f) /\ SameLines(r, f)
                  /\ Equipped(r) /\ Steady(r)
                  /\ r.job.monitor_output = f.job.monitor_output
                  /\ MonitorsLive(f) => MonitorsLive(r)
                BY <3>7, <3>8, <3>10, <4>2, AssignedIs
            <4>5. NeedsMonitors(LineOf(r)) <=> needs.monitors
                <5>1. SameInputs(r, p) /\ SameLines(r, p)
                    BY <3>2, <3>7, <4>4, SameLinesOften DEF SameInputs
                <5>2. p.job.line \in DOMAIN Lines
                    BY <1>2, <3>1 DEF SameInputs
                <5> QED BY <3>3, <5>1, <5>2, NothingToWatch
            <4>6. Succeeds(r) => SetUp(r)
                BY <3>7, <3>10, <4>4, <4>5 DEF SetUp, Prepared
            <4> QED BY <4>3, <4>4, <4>6
        <3> QED BY <3>9, <3>10
    <2> QED BY <2>1, <2>2
<1>8. Steady(Failed(w)) /\ ~Succeeds(Failed(w))
    BY <1>2, FailedIs DEF Steady
<1> HIDE DEF both
<1> QED BY <1>6, <1>7, <1>8

\* What a call leaves becomes the state.
LEMMA BecomeIs ==
    ASSUME IInv, NEW w, Steady(w), Succeeds(w) => SetUp(w), Become(w)
    PROVE  IInv'
<1>1. /\ w \in Worlds /\ w.job \in Jobs /\ w.lines \in [DOMAIN Lines -> Seq(Monitors)]
      /\ w.buffers \in [Buffers -> Seq(Objects)]
    BY WorldTypes DEF Steady, Sound
<1>2. PICK usable \in BOOLEAN : usable = Succeeds(w)
    BY DEF Succeeds
<1> DEFINE j == [w.job EXCEPT !.usable = usable]
<1>3. /\ j \in Jobs /\ j.usable = usable
      /\ j.particles = w.job.particles /\ j.sets = w.job.sets
      /\ j.extents = w.job.extents /\ j.line = w.job.line
      /\ j.output = w.job.output /\ j.output_cxx = w.job.output_cxx
      /\ j.config = w.job.config /\ j.elem_offset = w.job.elem_offset
      /\ j.monitor_offset = w.job.monitor_offset
      /\ j.elem_output = w.job.elem_output /\ j.monitor_output = w.job.monitor_output
    BY <1>1 DEF Jobs
<1>4. job' = j /\ lines' = w.lines /\ buffers' = w.buffers /\ turn' = turn
    BY <1>2 DEF Become
<1> HIDE DEF j
<1>5. PICK r : r = World(j, w.lines, w.buffers, "success")
    OBVIOUS
<1>6. Steady(r) /\ (SetUp(w) => SetUp(r))
    BY <1>3, <1>5, AlikeIs
<1>7. Current' = r
    BY <1>4, <1>5 DEF Current
<1>8. TurnsTyped'
    BY <1>4 DEF IInv, TurnsTyped
<1>9. job'.usable => SetUp(w)
    BY <1>2, <1>3, <1>4
<1> QED BY <1>6, <1>7, <1>8, <1>9 DEF IInv, Steady

\* Tracking changes the turns of the particles the job has.
LEMMA TurnsToIs ==
    ASSUME IInv, job.usable, NEW s \in Seq(Nat), Len(s) = Len(turn[job.particles]),
           turn' = [turn EXCEPT ![job.particles] = s], UNCHANGED <<lines, buffers, job>>
    PROVE  IInv'
<1>1. job.particles \in ParticleBuffers /\ TurnsTyped
    <2>1. Equipped(Current)
        BY DEF IInv, SetUp
    <2> QED BY <2>1, CurrentIs DEF Equipped, Jobs
<1>2. /\ turn' \in [ParticleBuffers -> Seq(Nat)]
      /\ turn'[job.particles] = s
      /\ \A b \in ParticleBuffers : b # job.particles => turn'[b] = turn[b]
    BY <1>1 DEF TurnsTyped
<1>3. TurnsTyped'
    BY <1>1, <1>2 DEF TurnsTyped
<1>4. Current' = Current
    BY DEF Current
<1> QED BY <1>3, <1>4 DEF IInv

-----------------------------------------------------------------------------
(* The theorems.                                                           *)

\* The state is typed when no call has been made.
LEMMA InitIs ==
    ASSUME Init
    PROVE  IInv
<1>1. TurnsTyped
    <2>1. ASSUME NEW b \in ParticleBuffers
          PROVE  turn[b] \in Seq(Nat) /\ Len(turn[b]) = Len(Sets[b])
        <3>0. Sets[b] \in Seq(Nat \X Nat)
            BY Given
        <3>1. PICK n \in Nat : n = Len(Sets[b]) /\ DOMAIN Sets[b] = 1 .. n
            BY <3>0
        <3>2. turn[b] = [i \in 1 .. n |-> 0]
            BY <3>1 DEF Init
        <3> QED BY <3>1, <3>2
    <2> QED BY <2>1 DEF TurnsTyped, Init
<1>2. NoConfig \in Configs /\ NoConfig.out_store_addr = NoAddress
    BY DEF NoConfig, Preset, EmptyConfig, Configs, Orders, InvalidOrder, TurnElemParticles, NoAddress
<1>3. NoExtents \in ExtentSets
    BY DEF NoExtents, ExtentSets
<1>4. PICK z \in SUBSET Nat : z = {0}
    <2>1. {0} \in SUBSET Nat
        OBVIOUS
    <2> QED BY <2>1
<1>5. /\ job \in Jobs /\ job.particles = None /\ job.output = NoBuffer /\ job.config = NoConfig
      /\ ~job.elem_output /\ ~job.monitor_output /\ ~job.usable /\ job.elem_offset = 0
    <2> HIDE DEF NoConfig, NoExtents
    <2> QED BY <1>2, <1>3, <1>4 DEF Init, EmptyJob, Jobs
<1>6. /\ lines \in [DOMAIN Lines -> Seq(Monitors)] /\ buffers \in [Buffers -> Seq(Objects)]
      /\ \A b \in Buffers : buffers[b] = <<>>
    BY Given DEF Init
<1>7. PICK r : r = Current
    OBVIOUS
<1>8. /\ r \in Worlds /\ r.job = job /\ r.lines = lines /\ r.buffers = buffers
    BY <1>5, <1>6, <1>7, WorldMade DEF Current
<1>9. Sound(r)
    <2>1. \A b \in Buffers : Placed(r.buffers[b], b)
        BY <1>6, <1>8 DEF Placed
    <2>2. NoBuffer # Own
        BY DEF NoBuffer, Own
    <2> QED BY <1>5, <1>6, <1>8, <2>1, <2>2, Given DEF Sound, OwnsOutput
<1>10. ConfigLive(r)
    BY <1>2, <1>5, <1>8 DEF ConfigLive, OffsetIn
<1> QED BY <1>1, <1>5, <1>7, <1>9, <1>10 DEF IInv

\* Every call, and every turn, keeps the invariant.
LEMMA NextIs ==
    ASSUME IInv, [Next]_vars
    PROVE  IInv'
<1>1. /\ Steady(Current) /\ Current.job = job /\ Current.lines = lines
      /\ Current.buffers = buffers /\ Current \in Worlds /\ job \in Jobs /\ TurnsTyped
    BY CurrentIs
<1>2. Outputs \subseteq Buffers \cup {NoBuffer} /\ (Own \in Outputs => OwnsOutput(job))
    BY Given DEF Outputs, Own, NoBuffer
<1>3. job.usable => /\ job.particles \in ParticleBuffers /\ job.line \in DOMAIN Lines
                    /\ job.until \in Nat
    BY <1>1 DEF IInv, SetUp, Equipped, Jobs
<1>4. CASE Reset
    <2>1. PICK particles \in ParticleBuffers, selection \in Selections \cup {Keep},
               line \in DOMAIN Lines, output \in Outputs, until \in Untils,
               cxx \in BOOLEAN, moves \in BOOLEAN :
            LET w == ResetWorld(particles, selection, line, output, until, moves)
            IN  Become(If(cxx /\ Succeeds(w), w, LAMBDA s : KeepHandles(s, output)))
        BY <1>4 DEF Reset
    <2>2. selection \in SUBSET Nat /\ until \in Nat
        BY TrackJobAssumption DEF Keep
    <2>3. PICK w : w = ResetWorld(particles, selection, line, output, until, moves)
        OBVIOUS
    <2>4. Steady(w) /\ (Succeeds(w) => SetUp(w))
        BY <1>2, <2>2, <2>3, ResetWorldIs
    <2>5. PICK k : k = IF cxx /\ Succeeds(w) THEN KeepHandles(w, output) ELSE w
        OBVIOUS
    <2>6. Become(k)
        BY <2>1, <2>3, <2>5 DEF If
    <2>7. Steady(k) /\ (Succeeds(k) => SetUp(k))
        BY <2>4, <2>5, KeepHandlesIs DEF Succeeds
    <2> QED BY <2>6, <2>7, BecomeIs
<1>5. CASE Clear
    <2>1. PICK w : w = ClearOutput(ClearLine(ClearParticles(Current)))
        OBVIOUS
    <2>2. Steady(w)
        BY <1>1, <2>1, ClearParticlesIs, ClearLineIs, ClearOutputIs
    <2>3. Steady(Failed(w)) /\ ~Succeeds(Failed(w))
        BY <2>2, FailedIs DEF Steady, Sound
    <2>4. Become(Failed(w))
        BY <1>5, <2>1 DEF Clear
    <2> QED BY <2>3, <2>4, BecomeIs
<1>6. CASE SelectParticleSet
    <2>1. PICK index \in 0 .. Len(Sets[job.particles]) - 1, moves \in BOOLEAN :
            Become(ResetWorld(job.particles, {index}, job.line, NoBuffer, job.until, moves))
        BY <1>6 DEF SelectParticleSet
    <2>2. job.usable
        BY <1>6 DEF SelectParticleSet
    <2>3. {index} \in SUBSET Nat /\ NoBuffer # Own
        BY DEF NoBuffer, Own
    <2>4. PICK w : w = ResetWorld(job.particles, {index}, job.line, NoBuffer, job.until, moves)
        OBVIOUS
    <2>5. PICK selection \in SUBSET Nat : selection = {index}
        BY <2>3
    <2>6. Steady(w) /\ (Succeeds(w) => SetUp(w))
        BY <1>3, <2>2, <2>3, <2>4, <2>5, ResetWorldIs
    <2> QED BY <2>1, <2>4, <2>6, BecomeIs
<1>7. CASE AssignOutputBuffer
    <2>1. PICK output \in Outputs, cxx \in BOOLEAN, moves \in BOOLEAN :
            LET w == AssignOutputWorld(output, moves)
            IN  Become(If(cxx /\ ~Succeeds(w) /\ HasOutput(w.job), w,
                          LAMBDA s : [s EXCEPT !.job.output_cxx = TRUE]))
        BY <1>7 DEF AssignOutputBuffer
    <2>2. job.usable
        BY <1>7 DEF AssignOutputBuffer
    <2>3. PICK w : w = AssignOutputWorld(output, moves)
        OBVIOUS
    <2>4. Steady(w) /\ (Succeeds(w) => SetUp(w))
        BY <1>2, <2>2, <2>3, AssignOutputWorldIs
    <2>5. PICK k : k = IF cxx /\ ~Succeeds(w) /\ HasOutput(w.job)
                       THEN [w EXCEPT !.job.output_cxx = TRUE] ELSE w
        OBVIOUS
    <2>6. Become(k)
        BY <2>1, <2>3, <2>5 DEF If
    <2>7. Steady(k) /\ (Succeeds(k) => SetUp(k))
        <3>1. PICK h : h = [w EXCEPT !.job.output_cxx = TRUE]
            OBVIOUS
        <3>2. Steady(h) /\ (SetUp(w) => SetUp(h)) /\ h.status = w.status
            BY <2>4, <3>1, OutputHandleIs
        <3> QED BY <2>4, <2>5, <3>1, <3>2 DEF Succeeds
    <2> QED BY <2>6, <2>7, BecomeIs
<1>8. CASE ResetMonitors
    <2>1. PICK l \in DOMAIN Lines :
            /\ l # job.line
            /\ lines' = [lines EXCEPT ![l] = [i \in DOMAIN lines[l] |-> MonitorReset(lines[l][i])]]
            /\ turn' = turn /\ buffers' = buffers /\ job' = job
        BY <1>8 DEF ResetMonitors
    <2>2. lines \in [DOMAIN Lines -> Seq(Monitors)] /\ buffers \in [Buffers -> Seq(Objects)]
        BY <1>1, WorldTypes
    <2>3. [i \in DOMAIN lines[l] |-> MonitorReset(lines[l][i])] \in Seq(Monitors)
        <3>1. PICK len \in Nat : /\ DOMAIN lines[l] = 1 .. len
                                 /\ \A i \in 1 .. len : lines[l][i] \in Monitors
            BY <2>2
        <3>2. \A i \in 1 .. len : MonitorReset(lines[l][i]) \in Monitors
            <4>1. NoExtents \in ExtentSets /\ 0 \in Nat
                BY DEF NoExtents, ExtentSets
            <4> QED BY <3>1, <4>1, MonitorTypes
        <3> QED BY <3>1, <3>2
    <2>4. lines' \in [DOMAIN Lines -> Seq(Monitors)] /\ (job.line \in DOMAIN Lines => lines'[job.line] = lines[job.line])
        BY <2>1, <2>2, <2>3
    <2>5. PICK r : r = Current'
        OBVIOUS
    <2>6. r = World(job, lines', buffers, "success")
        BY <2>1, <2>5 DEF Current
    <2>7. /\ r.job = job /\ r.lines = lines' /\ r.buffers = buffers
        BY <2>6 DEF World
    <2>8. Steady(r)
        <3>1. job.particles # None => SetsOf(job.sets, job.particles)
            BY <1>1 DEF Steady, Sound
        <3> QED BY <1>1, <2>4, <2>6, <3>1, JobSteady
    <2>9. ASSUME job.usable PROVE SetUp(r)
        <3>1. PICK w : w = Current
            OBVIOUS
        <3>2. SetUp(w) /\ w.job = job /\ w.lines = lines /\ w.buffers = buffers
            BY <1>1, <2>9, <3>1 DEF IInv
        <3>3. LineOf(r) = LineOf(w)
            BY <1>3, <2>4, <2>7, <2>9, <3>2 DEF LineOf
        <3>4. SameInputs(r, w) /\ SameOutput(r, w)
            BY <2>7, <3>2 DEF SameInputs, SameOutput
        <3>5. Equipped(r)
            BY <3>2, <3>4, SameInputsEquipped DEF SetUp
        <3> QED BY <2>7, <3>2, <3>3, <3>4, <3>5, SameMonitorsLive DEF SetUp
    <2>10. TurnsTyped'
        BY <1>1, <2>1 DEF TurnsTyped
    <2> QED BY <2>1, <2>5, <2>8, <2>9, <2>10 DEF IInv, Steady
<1>9. CASE TrackUntil
    <2>1. PICK until \in Untils :
            turn' = [turn EXCEPT ![job.particles] =
                        [i \in DOMAIN turn[job.particles] |->
                            IF i - 1 \in job.sets THEN MaxOf({turn[job.particles][i], until})
                            ELSE turn[job.particles][i]]]
        BY <1>9 DEF TrackUntil, TurnsTo
    <2>2. job.usable /\ UNCHANGED <<lines, buffers, job>>
        BY <1>9 DEF TrackUntil
    <2>3. PICK t \in Seq(Nat) : t = turn[job.particles]
        BY <1>1, <1>3, <2>2 DEF TurnsTyped
    <2>4. \A i \in DOMAIN t : MaxOf({t[i], until}) \in Nat
        <3> SUFFICES ASSUME NEW i \in DOMAIN t PROVE MaxOf({t[i], until}) \in Nat
            OBVIOUS
        <3>1. t[i] \in Nat /\ until \in Nat
            BY TrackJobAssumption
        <3>2. CASE t[i] <= until
            <4>1. {t[i], until} \in SUBSET Nat /\ {t[i], until} # {}
                BY <3>1
            <4>2. \A x \in {t[i], until} : x <= until
                BY <3>1, <3>2
            <4> QED BY <3>1, <4>1, <4>2, MaxOfNat
        <3>3. CASE until < t[i]
            <4>1. {t[i], until} \in SUBSET Nat /\ {t[i], until} # {}
                BY <3>1
            <4>2. \A x \in {t[i], until} : x <= t[i]
                BY <3>1, <3>3
            <4> QED BY <3>1, <4>1, <4>2, MaxOfNat
        <3> QED BY <3>1, <3>2, <3>3
    <2>5. PICK s : s = [i \in DOMAIN t |-> IF i - 1 \in job.sets THEN MaxOf({t[i], until}) ELSE t[i]]
        OBVIOUS
    <2>6. s \in Seq(Nat) /\ Len(s) = Len(t)
        <3>1. PICK len \in Nat : len = Len(t) /\ DOMAIN t = 1 .. len
            OBVIOUS
        <3>2. ASSUME NEW i \in 1 .. len PROVE s[i] \in Nat
            <4>0. i \in DOMAIN t /\ t[i] \in Nat
                BY <3>1
            <4>1. t[i] \in Nat /\ MaxOf({t[i], until}) \in Nat
                BY <2>4, <4>0, Zenon
            <4>2. s[i] = IF i - 1 \in job.sets THEN MaxOf({t[i], until}) ELSE t[i]
                BY <2>5, <3>1
            <4> QED BY <4>1, <4>2
        <3>3. DOMAIN s = 1 .. len /\ s = [i \in 1 .. len |-> s[i]]
            BY <2>5, <3>1
        <3> QED BY <3>1, <3>2, <3>3
    <2> QED BY <2>1, <2>2, <2>3, <2>5, <2>6, TurnsToIs
<1>10. CASE TrackLine
    <2>1. turn' = [turn EXCEPT ![job.particles] =
                        [i \in DOMAIN turn[job.particles] |->
                            IF i - 1 \in job.sets THEN turn[job.particles][i] + 1
                            ELSE turn[job.particles][i]]]
        BY <1>10 DEF TrackLine, TurnsTo
    <2>2. job.usable /\ UNCHANGED <<lines, buffers, job>>
        BY <1>10 DEF TrackLine
    <2>3. PICK t \in Seq(Nat) : t = turn[job.particles]
        BY <1>1, <1>3, <2>2 DEF TurnsTyped
    <2>4. PICK s : s = [i \in DOMAIN t |-> IF i - 1 \in job.sets THEN t[i] + 1 ELSE t[i]]
        OBVIOUS
    <2>5. s \in Seq(Nat) /\ Len(s) = Len(t)
        <3>1. PICK len \in Nat : len = Len(t) /\ DOMAIN t = 1 .. len
            OBVIOUS
        <3>2. \A i \in 1 .. len : (IF i - 1 \in job.sets THEN t[i] + 1 ELSE t[i]) \in Nat
            BY <3>1
        <3> QED BY <2>4, <3>1, <3>2
    <2> QED BY <2>1, <2>2, <2>3, <2>4, <2>5, TurnsToIs
<1>11. CASE UNCHANGED vars
    <2>1. Current' = Current /\ job' = job /\ turn' = turn
        BY <1>11 DEF vars, Current
    <2> QED BY <2>1 DEF IInv, TurnsTyped
<1> QED BY <1>4, <1>5, <1>6, <1>7, <1>8, <1>9, <1>10, <1>11 DEF Next

\* What the invariant says holds in every state of the job.
THEOREM JobInvariant == Spec => []IInv
<1>1. Init => IInv
    BY InitIs
<1>2. IInv /\ [Next]_vars => IInv'
    BY NextIs
<1> QED BY <1>1, <1>2, PTL DEF Spec

\* The state keeps its shape whatever is called, and whether the buffers move
\* or not: the job's buffers, line, offsets and configuration are of the kind
\* that the accessors of TrackJobBaseNew take them to be.
THEOREM JobTypeOK == Spec => []TypeOK
<1>1. IInv => TypeOK
    <2> SUFFICES ASSUME IInv PROVE TypeOK
        OBVIOUS
    <2>1. /\ job \in Jobs /\ TurnsTyped /\ Current \in Worlds
          /\ Current.lines = lines /\ Current.buffers = buffers
        BY CurrentIs
    <2>2. lines \in [DOMAIN Lines -> Seq(Monitors)] /\ buffers \in [Buffers -> Seq(Objects)]
        BY <2>1, WorldTypes
    <2>3. ASSUME NEW b \in ParticleBuffers PROVE DOMAIN turn[b] = DOMAIN Sets[b]
        <3>1. turn[b] \in Seq(Nat) /\ Len(turn[b]) = Len(Sets[b])
            BY <2>1 DEF TurnsTyped
        <3>2. Sets[b] \in Seq(Nat \X Nat)
            BY Given
        <3> QED BY <3>1, <3>2
    <2> QED BY <2>1, <2>2, <2>3 DEF TypeOK, Jobs, TurnsTyped
<1> QED BY <1>1, JobInvariant, PTL

\* The accessors of the job never fail their assertions, and a buffer that
\* has been freed is empty.
THEOREM JobAssertionsHold == Spec => []JobAssertions
<1>1. IInv => JobAssertions
    <2> SUFFICES ASSUME IInv PROVE JobAssertions
        OBVIOUS
    <2>1. /\ Sound(Current) /\ ConfigLive(Current)
          /\ Current.job = job /\ Current.buffers = buffers
        BY CurrentIs DEF Steady
    <2> QED BY <2>1 DEF Sound, ConfigLive, OffsetIn, JobAssertions
<1> QED BY <1>1, JobInvariant, PTL

\* An address leads to the object it is the place of.
LEMMA ObjectAtIs ==
    ASSUME IInv, NEW n, HasOutput(job), n \in DOMAIN buffers[job.output]
    PROVE  ObjectAt(Address(job.output, n)) = n
<1> DEFINE objects == buffers[job.output]
           at      == {i \in 1 .. Len(objects) : objects[i].addr = Address(job.output, n)}
<1>1. /\ job.output \in Buffers /\ objects \in Seq(Objects) /\ Placed(objects, job.output)
    <2>1. /\ Current \in Worlds /\ Current.job = job /\ Current.buffers = buffers
          /\ Sound(Current)
        BY CurrentIs DEF Steady
    <2>2. job.output \in Buffers /\ buffers \in [Buffers -> Seq(Objects)]
        BY <2>1, WorldTypes DEF HasOutput
    <2> QED BY <2>1, <2>2 DEF Sound
<1>2. PICK len \in Nat : len = Len(objects) /\ DOMAIN objects = 1 .. len
    BY <1>1
<1>3. PICK base \in Int : base = 1 + job.output * MaxObjects
    <2>1. job.output \in Int /\ MaxObjects \in Int
        BY <1>1, Given
    <2> QED BY <2>1
<1>4. \A i : Address(job.output, i) = base + i
    BY <1>3 DEF Address
<1>5. \A i \in 1 .. len : objects[i].addr = base + i
    BY <1>1, <1>2, <1>4 DEF Placed
<1>6. n \in 1 .. len
    BY <1>2
<1> HIDE DEF objects
<1>7. at = {n}
    <2>1. ASSUME NEW i \in 1 .. len PROVE objects[i].addr = Address(job.output, n) <=> i = n
        BY <1>4, <1>5, <1>6
    <2> QED BY <1>2, <1>6, <2>1
<1>8. ObjectAt(Address(job.output, n)) = IF at # {} THEN Min(at) ELSE 0
    BY DEF ObjectAt, SelectInSeq, objects
<1> HIDE DEF at
<1>9. Min(at) = n
    BY <1>6, <1>7 DEF Min
<1> QED BY <1>7, <1>8, <1>9

\* What the monitors and the configuration of a job that is set up lead to.
LEMMA LeadsToIs ==
    ASSUME IInv, job.usable
    PROVE  /\ Monitored = Watching(Current)
           /\ \A i \in Monitored :
                 /\ ObjectAt(lines[job.line][i].out_address)
                        = job.monitor_offset + Cardinality({k \in Monitored : k <= i})
                 /\ Holds(lines[job.line][i].out_address, StoredNumParticles(lines[job.line][i]))
                 /\ lines[job.line][i].min_particle_id = job.extents.min_particle_id
                 /\ lines[job.line][i].max_particle_id = job.extents.max_particle_id
           /\ job.config.out_store_addr # NoAddress =>
                 /\ ObjectAt(job.config.out_store_addr) = job.elem_offset + 1
                 /\ job.elem_offset < job.monitor_offset
                 /\ Holds(job.config.out_store_addr, OutStoreNumParticles(job.config))
<1>1. PICK w : w = Current
    OBVIOUS
<1>2. /\ w \in Worlds /\ w.job = job /\ w.lines = lines /\ w.buffers = buffers
      /\ ConfigLive(w) /\ SetUp(w) /\ job \in Jobs
    BY <1>1, CurrentIs DEF Steady, IInv
<1>3. Monitored = Watching(w)
    BY <1>2 DEF Monitored, Watching, LineOf
<1>4. ASSUME NEW n, NEW k, HasRoom(w, n, k)
      PROVE  /\ ObjectAt(Address(job.output, n)) = n
             /\ Holds(Address(job.output, n), k)
    <2>1. /\ HasOutput(job) /\ n \in DOMAIN buffers[job.output]
          /\ buffers[job.output][n].size >= k
        BY <1>2, <1>4 DEF HasRoom
    <2>2. ObjectAt(Address(job.output, n)) = n
        BY <2>1, ObjectAtIs
    <2>3. n > 0
        <3>1. buffers[job.output] \in Seq(Objects)
            BY <1>2, <2>1, WorldTypes DEF HasOutput
        <3> QED BY <2>1, <3>1
    <2> QED BY <2>1, <2>2, <2>3 DEF Holds
<1>5. ASSUME NEW i \in Monitored
      PROVE  /\ ObjectAt(lines[job.line][i].out_address)
                    = job.monitor_offset + Cardinality({k \in Monitored : k <= i})
             /\ Holds(lines[job.line][i].out_address, StoredNumParticles(lines[job.line][i]))
             /\ lines[job.line][i].min_particle_id = job.extents.min_particle_id
             /\ lines[job.line][i].max_particle_id = job.extents.max_particle_id
    <2>1. LineOf(w) = lines[job.line]
        BY <1>2 DEF LineOf
    <2>2. /\ lines[job.line][i].min_particle_id = job.extents.min_particle_id
          /\ lines[job.line][i].max_particle_id = job.extents.max_particle_id
        BY <1>2, <1>3, <2>1 DEF SetUp, Windows
    <2>3. PICK n : n = ObjectOf(w, i)
        OBVIOUS
    <2>4. /\ lines[job.line][i].out_address = Address(job.output, n)
          /\ HasRoom(w, n, StoredNumParticles(lines[job.line][i]))
        BY <1>2, <1>3, <2>1, <2>3 DEF SetUp, MonitorsLive
    <2>5. n = job.monitor_offset + Cardinality({k \in Monitored : k <= i})
        BY <1>2, <1>3, <2>3 DEF ObjectOf
    <2> QED BY <1>4, <2>2, <2>4, <2>5
<1>6. ASSUME job.config.out_store_addr # NoAddress
      PROVE  /\ ObjectAt(job.config.out_store_addr) = job.elem_offset + 1
             /\ job.elem_offset < job.monitor_offset
             /\ Holds(job.config.out_store_addr, OutStoreNumParticles(job.config))
    <2>1. /\ job.config.out_store_addr = Address(job.output, job.elem_offset + 1)
          /\ HasRoom(w, job.elem_offset + 1, OutStoreNumParticles(job.config))
          /\ job.elem_offset < job.monitor_offset
        BY <1>2, <1>6 DEF ConfigLive
    <2> QED BY <1>4, <2>1
<1> QED BY <1>1, <1>3, <1>5, <1>6

\* Whatever calls came before, in a job whose last set-up succeeded a kernel
\* finds an object with room for all it may store behind the address of every
\* monitor that has turns ahead of it, and of the configuration.
THEOREM JobOutputsLive == Spec => []OutputsLive
<1>1. IInv => OutputsLive
    <2> SUFFICES ASSUME IInv, job.usable PROVE OutputsLive
        BY DEF OutputsLive
    <2>1. /\ job.extents.min_particle_id \in Int /\ job.extents.max_particle_id \in Int
        BY CurrentIs DEF Jobs, ExtentSets
    <2>2. ASSUME NEW i \in Monitored
          PROVE  /\ Holds(lines[job.line][i].out_address, StoredNumParticles(lines[job.line][i]))
                 /\ lines[job.line][i].min_particle_id <= job.extents.min_particle_id
                 /\ lines[job.line][i].max_particle_id >= job.extents.max_particle_id
        <3>1. /\ Holds(lines[job.line][i].out_address, StoredNumParticles(lines[job.line][i]))
              /\ lines[job.line][i].min_particle_id = job.extents.min_particle_id
              /\ lines[job.line][i].max_particle_id = job.extents.max_particle_id
            BY LeadsToIs, Zenon
        <3> QED BY <2>1, <3>1
    <2>3. job.config.out_store_addr # NoAddress =>
            Holds(job.config.out_store_addr, OutStoreNumParticles(job.config))
        BY LeadsToIs, Zenon
    <2> QED BY <2>2, <2>3 DEF OutputsLive
<1> QED BY <1>1, JobInvariant, PTL

\* A caller finds the output of the n-th of these monitors n places after the
\* monitor offset of the job, and the element by element output in front.
THEOREM JobOutputInOrder == Spec => []OutputInOrder
<1>1. IInv => OutputInOrder
    BY LeadsToIs DEF OutputInOrder
<1> QED BY <1>1, JobInvariant, PTL

(***************************************************************************)
(* The job on a device: it works on copies of what it names and writes     *)
(* into its own output.                                                    *)
(***************************************************************************)
-----------------------------------------------------------------------------
(* Addresses of the device.                                                *)

Away(addr) == ~PointsTo(addr, DeviceMemory)
AwayLine(line) == \A i \in DOMAIN line : Away(line[i].out_address)

\* The device's memory is a place behind those of the host's buffers.
LEMMA DeviceMemoryIs ==
    DeviceMemory \in Nat /\ \A b \in Buffers : b < DeviceMemory
<1>1. PICK last \in Buffers : \A b \in Buffers : b <= last
    BY DeviceAssumption
<1>2. Buffers \in SUBSET Nat /\ Buffers # {} /\ last \in Nat
    BY <1>1, Given
<1>3. MaxOf(Buffers) \in Buffers /\ \A b \in Buffers : b <= MaxOf(Buffers)
    BY <1>1, <1>2, MaxOfNat
<1>4. PICK max \in Nat : max = MaxOf(Buffers)
    BY <1>2, <1>3
<1>5. DeviceMemory = 1 + max
    BY <1>4 DEF DeviceMemory
<1>6. ASSUME NEW b \in Buffers PROVE b < DeviceMemory
    <2>1. b \in Nat /\ b <= max
        BY <1>2, <1>3, <1>4
    <2> QED BY <1>5, <2>1
<1> QED BY <1>5, <1>6

\* Null, what dangles and what points to an object of the host lead nowhere
\* on the device.
LEMMA AwayIs ==
    /\ Away(NoAddress) /\ Away(NullAddress) /\ Away(Dangling)
    /\ \A b \in Buffers : \A n \in 1 .. MaxObjects : Away(Address(b, n))
<1>1. PICK device \in Nat : device = DeviceMemory
    BY DeviceMemoryIs
<1>2. PICK most \in Nat : most = MaxObjects
    BY Given
<1>3. device * most \in Nat
    BY <1>1, <1>2
<1>4. Away(NoAddress) /\ Away(NullAddress) /\ Away(Dangling)
    BY <1>1, <1>2, <1>3 DEF Away, PointsTo, Address, Dangling, NoAddress, NullAddress
<1>5. ASSUME NEW b \in Buffers, NEW n \in 1 .. MaxObjects PROVE Away(Address(b, n))
    <2>1. b \in Nat /\ b < device /\ n \in Nat /\ n <= most
        BY <1>1, <1>2, DeviceMemoryIs, Given
    <2>2. PICK k \in Nat : device = b + 1 + k
        <3>1. device - b - 1 \in Nat /\ device = b + 1 + (device - b - 1)
            BY <2>1
        <3> QED BY <3>1
    <2>3. device * most = b * most + most + k * most /\ k * most \in Nat /\ b * most \in Nat
        BY <1>2, <2>1, <2>2
    <2>4. ASSUME NEW i \in 1 .. MaxObjects PROVE Address(b, n) # Address(DeviceMemory, i)
        <3>1. Address(b, n) = 1 + b * most + n
            BY <1>2 DEF Address
        <3>2. Address(DeviceMemory, i) = 1 + device * most + i
            BY <1>1, <1>2 DEF Address
        <3>3. PICK x \in Nat, y \in Nat, z \in Nat :
                x = b * most /\ y = k * most /\ z = device * most
            BY <1>3, <2>3
        <3>4. z = x + most + y /\ i \in Nat /\ i >= 1
            BY <1>2, <2>3, <3>3
        <3>5. 1 + x + n # 1 + z + i
            BY <1>2, <2>1, <3>4
        <3> QED BY <3>1, <3>2, <3>3, <3>5
    <2> QED BY <2>4 DEF Away, PointsTo
<1> QED BY <1>4, <1>5

\* Moving leads nothing to the device, and away from it if its own objects move.
LEMMA AfterMoveIs ==
    ASSUME NEW addr \in Nat, NEW b
    PROVE  /\ AfterMove(addr, b) \in Nat
           /\ Away(addr) => Away(AfterMove(addr, b))
           /\ Away(AfterMove(addr, DeviceMemory))
           /\ Away(addr) => AfterMove(addr, DeviceMemory) = addr
<1>1. Dangling \in Nat
    BY DEF Dangling
<1> QED BY <1>1, AwayIs DEF AfterMove, Away

\* A line after objects have moved: only addresses differ.
LEMMA LineAfterMoveIs ==
    ASSUME NEW line \in Seq(Monitors), NEW b
    PROVE  /\ LineAfterMove(line, b) \in Seq(Monitors)
           /\ SameLine(LineAfterMove(line, b), line)
           /\ \A i \in DOMAIN line : SameButAddress(LineAfterMove(line, b)[i], line[i])
           /\ AwayLine(line) => AwayLine(LineAfterMove(line, b))
           /\ AwayLine(LineAfterMove(line, DeviceMemory))
<1>1. PICK len \in Nat : DOMAIN line = 1 .. len
    OBVIOUS
<1>2. ASSUME NEW i \in 1 .. len, NEW c
      PROVE  LET m == LineAfterMove(line, c)[i]
             IN  /\ m \in Monitors /\ SameSchedule(m, line[i]) /\ SameButAddress(m, line[i])
                 /\ m.out_address = AfterMove(line[i].out_address, c)
                 /\ line[i].out_address \in Nat
    <2>1. line[i] \in Monitors /\ line[i].out_address \in Nat
        <3>1. line[i] \in Monitors
            BY <1>1
        <3> QED BY <3>1 DEF Monitors
    <2>2. PICK addr \in Nat : addr = AfterMove(line[i].out_address, c)
        BY <2>1, AfterMoveIs
    <2>3. LineAfterMove(line, c)[i] = [line[i] EXCEPT !.out_address = addr]
        BY <1>1, <2>2 DEF LineAfterMove
    <2> QED BY <2>1, <2>2, <2>3 DEF Monitors, SameSchedule, SameButAddress
<1>3. ASSUME NEW c PROVE DOMAIN LineAfterMove(line, c) = 1 .. len
    BY <1>1 DEF LineAfterMove
<1>4. LineAfterMove(line, b) = [i \in 1 .. len |-> LineAfterMove(line, b)[i]]
    BY <1>1 DEF LineAfterMove
<1>5. LineAfterMove(line, b) \in Seq(Monitors)
    <2>1. [i \in 1 .. len |-> LineAfterMove(line, b)[i]] \in [1 .. len -> Monitors]
        BY <1>2
    <2> QED BY <1>4, <2>1
<1>6. SameLine(LineAfterMove(line, b), line)
    BY <1>1, <1>2, <1>3 DEF SameLine
<1>7. AwayLine(line) => AwayLine(LineAfterMove(line, b))
    BY <1>1, <1>2, <1>3, AfterMoveIs, SMTT(30) DEF AwayLine
<1>8. AwayLine(LineAfterMove(line, DeviceMemory))
    <2>1. ASSUME NEW i \in 1 .. len PROVE Away(LineAfterMove(line, DeviceMemory)[i].out_address)
        <3>1. /\ LineAfterMove(line, DeviceMemory)[i].out_address
                   = AfterMove(line[i].out_address, DeviceMemory)
              /\ line[i].out_address \in Nat
            BY <1>2
        <3> QED BY <3>1, AfterMoveIs
    <2> QED BY <1>3, <2>1 DEF AwayLine
<1>9. \A i \in DOMAIN line : SameButAddress(LineAfterMove(line, b)[i], line[i])
    BY <1>1, <1>2
<1> QED BY <1>9, <1>5, <1>6, <1>7, <1>8

\* What moving changes, part by part.
ConfigMoved(c, b) == [c EXCEPT !.out_store_addr = AfterMove(@, b)]

\* A configuration that led elsewhere does not change when a buffer moves.
LEMMA ConfigMovedIs ==
    ASSUME NEW c \in Configs, NEW b
    PROVE  /\ ConfigMoved(c, b) \in Configs
           /\ Away(c.out_store_addr) => ConfigMoved(c, DeviceMemory) = c
<1>1. c.out_store_addr \in Nat
    BY DEF Configs
<1>2. PICK addr \in Nat : addr = AfterMove(c.out_store_addr, b)
    BY <1>1, AfterMoveIs
<1>3. ConfigMoved(c, b) = [c EXCEPT !.out_store_addr = addr]
    BY <1>2 DEF ConfigMoved
<1>4. [c EXCEPT !.out_store_addr = addr] \in Configs
    BY DEF Configs
<1>5. ASSUME Away(c.out_store_addr) PROVE ConfigMoved(c, DeviceMemory) = c
    <2>1. AfterMove(c.out_store_addr, DeviceMemory) = c.out_store_addr
        BY <1>1, <1>5, AfterMoveIs
    <2>2. ConfigMoved(c, DeviceMemory) = [c EXCEPT !.out_store_addr = c.out_store_addr]
        BY <2>1 DEF ConfigMoved
    <2> QED BY <2>2 DEF Configs
<1> QED BY <1>3, <1>4, <1>5

\* The parts of a world that a move changes, one by one.
LEMMA MovedParts ==
    ASSUME NEW w \in Worlds, NEW b
    PROVE  /\ Moved(w, b).job = [w.job EXCEPT !.config = ConfigMoved(w.job.config, b)]
           /\ \A l \in DOMAIN Lines : Moved(w, b).lines[l] = LineAfterMove(w.lines[l], b)
<1> DEFINE config == ConfigMoved(w.job.config, b)
           moved == [l \in DOMAIN Lines |-> LineAfterMove(w.lines[l], b)]
<1>1. Moved(w, b) = [w EXCEPT !.lines = moved, !.job.config = config]
    BY Zenon DEF Moved, ConfigMoved
<1> HIDE DEF moved, config
<1>2. Moved(w, b) = [w EXCEPT !.lines = moved, !.job = [w.job EXCEPT !.config = config]]
    BY <1>1 DEF Worlds
<1>3. Moved(w, b).job = [w.job EXCEPT !.config = config] /\ Moved(w, b).lines = moved
    BY <1>2 DEF Worlds
<1> QED BY <1>3 DEF config, moved

-----------------------------------------------------------------------------
(* The worlds of a call, on the host and on the device.                    *)

Devices ==
    [ready : BOOLEAN, particles : ParticleBuffers \cup {None}, turn : Seq(Nat),
     line : DOMAIN Lines \cup {None}, monitors : Seq(Monitors), config : Configs,
     output : Buffers \cup {NoBuffer}, objects : Seq(Objects),
     whole : BOOLEAN, stray : BOOLEAN]

\* The device holds turns and monitors of what it names, and its objects are
\* at their places.
DeviceSound(d) ==
    /\ d \in Devices /\ Placed(d.objects, DeviceMemory)
    /\ d.particles = None => d.turn = <<>>
    /\ d.particles # None => Len(d.turn) = Len(Sets[d.particles])
    /\ d.line = None => d.monitors = <<>>
    /\ d.line # None => SameLine(d.monitors, Lines[d.line])

AwayLines(ls)  == \A l \in DOMAIN Lines : AwayLine(ls[l])
Scheduled(h)   == \A l \in DOMAIN Lines : SameLine(h.lines[l], Lines[l])

\* The host's part: steady, lines of the schedules they began with, and the
\* extents of the particles.
HostSound(h) ==
    /\ Steady(h) /\ Scheduled(h)
    /\ h.job.particles # None => ExtentsOK(h.job.extents)

BothSound(w) == HostSound(w.host) /\ DeviceSound(w.dev)

\* No monitor leads to the device.
NothingLeads(w) == AwayLines(w.host.lines) /\ AwayLine(w.dev.monitors)

\* The sets that the parts of a sound host are from ...
LEMMA HostTypes ==
    ASSUME NEW h, HostSound(h)
    PROVE  /\ h \in Worlds /\ h.job \in Jobs /\ h.lines \in [DOMAIN Lines -> Seq(Monitors)]
           /\ h.buffers \in [Buffers -> Seq(Objects)] /\ h.status \in {"success", "failure"}
           /\ h.job.config \in Configs /\ h.job.config.out_store_addr \in Nat
<1>1. h \in Worlds
    BY DEF HostSound, Steady, Sound
<1>2. h.job.config \in Configs
    BY <1>1, WorldTypes
<1> QED BY <1>1, <1>2, WorldTypes DEF Configs

\* Lines that differ from scheduled ones in no schedule are scheduled.
LEMMA StaysScheduled ==
    ASSUME NEW r, NEW h, SameLines(r, h), Scheduled(h)
    PROVE  Scheduled(r)
    BY DEF SameLines, Scheduled, SameLine, SameSchedule

\* The configuration of the host leads to an object of the host.
LEMMA ConfigAway ==
    ASSUME NEW h, HostSound(h), Bounded(h)
    PROVE  Away(h.job.config.out_store_addr)
<1> SUFFICES ASSUME h.job.config.out_store_addr # NoAddress
             PROVE  Away(h.job.config.out_store_addr)
    BY AwayIs
<1> DEFINE b == h.job.output
           n == h.job.elem_offset + 1
<1>1. /\ h.job.config.out_store_addr = Address(b, n)
      /\ b # NoBuffer /\ n \in DOMAIN h.buffers[b]
    BY DEF HostSound, Steady, ConfigLive, HasRoom, HasOutput
<1>2. b \in Buffers /\ h.buffers[b] \in Seq(Objects)
    BY <1>1, HostTypes, WorldTypes
<1>3. n \in 1 .. Len(h.buffers[b]) /\ Len(h.buffers[b]) \in Nat
    BY <1>1, <1>2
<1>4. Len(h.buffers[b]) <= MaxObjects /\ MaxObjects \in Nat
    BY <1>2, Given DEF Bounded
<1> HIDE DEF n, b
<1>5. n \in 1 .. MaxObjects
    BY <1>3, <1>4
<1> QED BY <1>1, <1>2, <1>5, AwayIs

\* Freeing the device's output leaves the host as it was, save monitors that
\* led there.
LEMMA HostFreedIs ==
    ASSUME NEW h, HostSound(h), Away(h.job.config.out_store_addr)
    PROVE  LET r == Moved(h, DeviceMemory)
           IN  /\ HostSound(r) /\ r.job = h.job /\ r.buffers = h.buffers
               /\ r.status = h.status /\ SameLines(r, h) /\ AwayLines(r.lines)
               /\ Equipped(h) /\ Windows(h) => Windows(r)
<1>1. PICK r : r = Moved(h, DeviceMemory)
    OBVIOUS
<1>2. /\ r \in Worlds /\ SameLines(r, h) /\ r.buffers = h.buffers /\ r.status = h.status
    BY <1>1, HostTypes, MovedIs
<1>3. r.job = h.job
    <2>1. r.job = [h.job EXCEPT !.config = ConfigMoved(h.job.config, DeviceMemory)]
        BY <1>1, HostTypes, MovedParts
    <2>2. ConfigMoved(h.job.config, DeviceMemory) = h.job.config /\ h.job \in Jobs
        BY HostTypes, ConfigMovedIs
    <2> QED BY <2>1, <2>2 DEF Jobs
<1>4. AwayLines(r.lines)
    <2>1. h \in Worlds
        BY HostTypes
    <2>2. ASSUME NEW l \in DOMAIN Lines PROVE AwayLine(r.lines[l])
        <3>1. h.lines[l] \in Seq(Monitors)
            BY HostTypes
        <3>2. r.lines[l] = LineAfterMove(h.lines[l], DeviceMemory)
            BY <1>1, <2>1, MovedParts
        <3> QED BY <3>1, <3>2, LineAfterMoveIs
    <2> QED BY <2>2 DEF AwayLines
<1>5. Steady(r)
    <2>1. Sound(r)
        BY <1>1, MovedSound DEF HostSound, Steady
    <2>2. ConfigLive(r)
        BY <1>2, <1>3 DEF HostSound, Steady, ConfigLive, OffsetIn, HasRoom, HasOutput
    <2> QED BY <2>1, <2>2 DEF Steady
<1>6. HostSound(r)
    BY <1>2, <1>3, <1>5, StaysScheduled DEF HostSound
<1>7. ASSUME Equipped(h), Windows(h) PROVE Windows(r)
    <2>1. h.job.line \in DOMAIN Lines /\ h.lines \in [DOMAIN Lines -> Seq(Monitors)]
        BY <1>7, HostTypes, WorldTypes DEF Equipped
    <2>2. PICK line \in Seq(Monitors) : line = LineOf(h)
        BY <2>1 DEF LineOf
    <2>3. LineOf(r) = LineAfterMove(line, DeviceMemory)
        <3>1. h \in Worlds /\ r.job.line = h.job.line
            BY <1>3, HostTypes
        <3>2. r.lines[h.job.line] = LineAfterMove(h.lines[h.job.line], DeviceMemory)
            BY <1>1, <2>1, <3>1, MovedParts
        <3> QED BY <2>2, <3>1, <3>2 DEF LineOf
    <2>4. /\ DOMAIN LineOf(r) = DOMAIN line
          /\ \A i \in DOMAIN line : SameButAddress(LineOf(r)[i], line[i])
        BY <2>3, LineAfterMoveIs DEF SameLine
    <2> QED BY <1>3, <1>7, <2>2, <2>4
            DEF Windows, Watching, IsPrepared, SameButAddress, SameSchedule
<1> QED BY <1>1, <1>2, <1>3, <1>4, <1>6, <1>7

\* What clearing for a reset leaves on the host.
LEMMA HostClearedIs ==
    ASSUME NEW h, HostSound(h), NEW particles \in ParticleBuffers, NEW sets, NEW line, NEW output,
           output = Own => OwnsOutput(h.job)
    PROVE  LET r == ClearForReset(h, particles, sets, line, output)
           IN  /\ HostSound(r) /\ r.status = h.status
               /\ output = Own => OwnsOutput(r.job)
               /\ \/ r.job.particles = None /\ r.job.sets = {0}
                  \/ /\ r.job.particles = particles /\ h.job.particles = particles
                     /\ r.job.sets = h.job.sets /\ sets = h.job.sets
               /\ r.job.line = None \/ r.job.line = line
               /\ AwayLines(h.lines) => AwayLines(r.lines)
               /\ output = NoBuffer =>
                    /\ ~r.job.elem_output /\ ~r.job.monitor_output /\ r.job.config = NoConfig
<1> DEFINE w1 == If(ReplacesParticles(h.job, particles, sets), h, ClearParticles)
           w2 == If(ReplacesLine(h.job, line), w1, ClearLine)
           r == If(ReplacesOutput(h.job, output), w2, ClearOutput)
<1>1. /\ Steady(w1) /\ w1.lines = h.lines /\ w1.job.line = h.job.line
      /\ w1.job.particles # None => ExtentsOK(w1.job.extents)
    BY ClearParticlesIs DEF HostSound, If
<1>2. /\ Steady(w2) /\ w2.lines = h.lines
      /\ w2.job.particles # None => ExtentsOK(w2.job.extents)
      /\ w2.job.line = None \/ w2.job.line = line
    <2> HIDE DEF w1
    <2> QED BY <1>1, ClearLineIs DEF If, ReplacesLine
<1> HIDE DEF w2
<1>3. PICK o : o = ClearOutput(w2)
    OBVIOUS
<1>4. /\ Steady(o) /\ o.job.particles = w2.job.particles /\ o.job.extents = w2.job.extents
      /\ o.job.line = w2.job.line /\ o.job.config = NoConfig
      /\ ~o.job.elem_output /\ ~o.job.monitor_output /\ o.lines = FreeOwn(w2).lines
    BY <1>2, <1>3, ClearOutputIs
<1>5. PICK m : m = Moved(w2, Own)
    OBVIOUS
<1>6. w2 \in Worlds /\ m \in Worlds /\ SameLines(m, w2)
    BY <1>2, <1>5, MovedIs DEF Steady, Sound
<1>7. o.lines = m.lines
    <2>1. FreeOwn(w2) = [m EXCEPT !.buffers[Own] = <<>>]
        BY <1>5 DEF FreeOwn
    <2>2. [m EXCEPT !.buffers[Own] = <<>>].lines = m.lines
        BY <1>6 DEF Worlds
    <2> QED BY <1>4, <2>1, <2>2
<1>8. AwayLines(h.lines) => AwayLines(o.lines)
    <2> SUFFICES ASSUME AwayLines(h.lines), NEW l \in DOMAIN Lines PROVE AwayLine(o.lines[l])
        BY DEF AwayLines
    <2>1. m.lines[l] = LineAfterMove(w2.lines[l], Own)
        BY <1>5, <1>6, MovedParts
    <2>2. w2.lines[l] \in Seq(Monitors) /\ AwayLine(w2.lines[l])
        BY <1>2, <1>6, WorldTypes DEF AwayLines
    <2> QED BY <1>7, <2>1, <2>2, LineAfterMoveIs
<1>9. SameLines(o, w2)
    BY <1>6, <1>7 DEF SameLines
<1>10. Scheduled(w2) /\ Scheduled(o)
    <2>1. Scheduled(w2)
        BY <1>2 DEF Scheduled, HostSound
    <2> QED BY <1>9, <2>1, StaysScheduled
<1>11. r = IF ReplacesOutput(h.job, output) THEN o ELSE w2
    BY <1>3 DEF If
<1>12. r = ClearForReset(h, particles, sets, line, output)
    BY DEF ClearForReset, w2
<1> HIDE DEF r, w1
<1>13. HostSound(r) /\ (r.job.line = None \/ r.job.line = line)
    BY <1>2, <1>4, <1>10, <1>11 DEF HostSound
<1>14. AwayLines(h.lines) => AwayLines(r.lines)
    BY <1>2, <1>8, <1>11
<1>15. output = NoBuffer =>
         ~r.job.elem_output /\ ~r.job.monitor_output /\ r.job.config = NoConfig
    BY <1>4, <1>11 DEF ReplacesOutput
<1>16. /\ r.status = h.status
       /\ output = Own => OwnsOutput(r.job)
       /\ \/ r.job.particles = None /\ r.job.sets = {0}
          \/ /\ r.job.particles = particles /\ h.job.particles = particles
             /\ r.job.sets = h.job.sets /\ sets = h.job.sets
    BY <1>12, ClearForResetIs DEF HostSound
<1> QED BY <1>12, <1>13, <1>14, <1>15, <1>16

-----------------------------------------------------------------------------
(* Freeing arguments.                                                      *)

\* What an argument of the device is named after, and what went before.
SameArguments(r, d) ==
    /\ r.ready = d.ready /\ r.whole = d.whole
    /\ r.particles = d.particles /\ r.line = d.line

\* ... and those of a sound device.
LEMMA DeviceTypes ==
    ASSUME NEW d, DeviceSound(d)
    PROVE  /\ d \in Devices /\ d.monitors \in Seq(Monitors) /\ d.config \in Configs
           /\ d.objects \in Seq(Objects) /\ d.turn \in Seq(Nat)
           /\ d.output \in Buffers \cup {NoBuffer}
           /\ d.particles \in ParticleBuffers \cup {None} /\ d.line \in DOMAIN Lines \cup {None}
           /\ d.ready \in BOOLEAN /\ d.whole \in BOOLEAN /\ d.stray \in BOOLEAN
    BY DEF DeviceSound, Devices

\* A device with other objects, monitors of the same schedules and another
\* configuration.
LEMMA OutputReplaced ==
    ASSUME NEW d, DeviceSound(d), NEW r \in Devices, SameArguments(r, d), r.turn = d.turn,
           Placed(r.objects, DeviceMemory), SameLine(r.monitors, d.monitors)
    PROVE  DeviceSound(r)
<1>1. ASSUME d.line = None PROVE r.monitors = <<>>
    <2>1. d.monitors = <<>>
        BY <1>1 DEF DeviceSound
    <2>2. PICK line \in Seq(Monitors) : line = r.monitors
        BY DEF Devices
    <2>3. DOMAIN line = {}
        BY <2>1, <2>2 DEF SameLine
    <2>4. Len(line) = 0
        BY <2>3
    <2> QED BY <2>2, <2>4, EmptySeq
<1>2. ASSUME d.line # None PROVE SameLine(r.monitors, Lines[d.line])
    BY <1>2 DEF DeviceSound, SameLine, SameSchedule
<1> QED BY <1>1, <1>2 DEF DeviceSound, SameArguments

\* A device without an output: no monitor leads there.
LEMMA WithoutOutputIs ==
    ASSUME NEW d, DeviceSound(d)
    PROVE  LET r == WithoutOutput(d)
               n == [r EXCEPT !.config = NoConfig]
           IN  /\ DeviceSound(r) /\ SameArguments(r, d) /\ AwayLine(r.monitors)
               /\ r.config = ConfigMoved(d.config, DeviceMemory) /\ r.stray = d.stray
               /\ DeviceSound(n) /\ SameArguments(n, d) /\ AwayLine(n.monitors)
               /\ n.config = NoConfig
<1>1. d \in Devices /\ d.monitors \in Seq(Monitors) /\ d.config \in Configs
    BY DeviceTypes
<1>2. PICK c \in Configs : c = ConfigMoved(d.config, DeviceMemory)
    BY <1>1, ConfigMovedIs
<1>3. PICK line \in Seq(Monitors) : /\ line = LineAfterMove(d.monitors, DeviceMemory)
                                    /\ SameLine(line, d.monitors) /\ AwayLine(line)
    BY <1>1, LineAfterMoveIs
<1>4. PICK r : r = WithoutOutput(d)
    OBVIOUS
<1>5. r = [d EXCEPT !.output = NoBuffer, !.objects = <<>>,
                    !.config = ConfigMoved(d.config, DeviceMemory),
                    !.monitors = LineAfterMove(d.monitors, DeviceMemory)]
    BY <1>4, Zenon DEF WithoutOutput, ConfigMoved
<1>6. r = [d EXCEPT !.output = NoBuffer, !.objects = <<>>, !.config = c, !.monitors = line]
    BY <1>2, <1>3, <1>5
<1>7. <<>> \in Seq(Objects) /\ Placed(<<>>, DeviceMemory)
    BY EmptySeq DEF Placed
<1>8. /\ r \in Devices /\ SameArguments(r, d) /\ r.turn = d.turn /\ r.monitors = line
      /\ r.config = c /\ r.stray = d.stray /\ r.objects = <<>>
    <2>1. PICK none \in Seq(Objects) : none = <<>>
        BY <1>7
    <2>2. r = [d EXCEPT !.output = NoBuffer, !.objects = none, !.config = c, !.monitors = line]
        BY <1>6, <2>1
    <2>3. r \in Devices
        BY <1>1, <2>2 DEF Devices
    <2>4. /\ SameArguments(r, d) /\ r.turn = d.turn /\ r.monitors = line
          /\ r.config = c /\ r.stray = d.stray /\ r.objects = none
        BY <1>1, <2>2 DEF Devices, SameArguments
    <2> QED BY <2>1, <2>3, <2>4
<1>9. DeviceSound(r)
    BY <1>3, <1>7, <1>8, OutputReplaced
<1>10. PICK n : n = [r EXCEPT !.config = NoConfig]
    OBVIOUS
<1>11. NoConfig \in Configs
    <2>1. NoExtents \in ExtentSets
        BY DEF NoExtents, ExtentSets
    <2> QED BY <2>1, FreshConfig
<1>12. /\ n \in Devices /\ SameArguments(n, d) /\ n.turn = d.turn /\ n.monitors = line
       /\ n.config = NoConfig /\ n.objects = <<>>
    BY <1>8, <1>10, <1>11 DEF Devices, SameArguments
<1>13. DeviceSound(n)
    BY <1>3, <1>7, <1>12, OutputReplaced
<1> QED BY <1>2, <1>3, <1>4, <1>8, <1>9, <1>10, <1>12, <1>13

\* A device without particles, and one without a line.
LEMMA ParticlesFreedAre ==
    ASSUME NEW d, DeviceSound(d), NEW r, r = [d EXCEPT !.particles = None, !.turn = <<>>]
    PROVE  /\ DeviceSound(r) /\ r.particles = None /\ r.line = d.line
           /\ r.ready = d.ready /\ r.whole = d.whole
<1>1. d \in Devices
    BY DeviceTypes
<1>2. PICK turns \in Seq(Nat) : turns = <<>>
    BY EmptySeq
<1>3. r = [d EXCEPT !.particles = None, !.turn = turns]
    BY <1>2
<1>4. r \in Devices
    BY <1>1, <1>3 DEF Devices
<1>5. /\ r.particles = None /\ r.turn = turns /\ r.line = d.line /\ r.ready = d.ready
      /\ r.whole = d.whole /\ r.monitors = d.monitors /\ r.objects = d.objects
    BY <1>1, <1>3 DEF Devices
<1> QED BY <1>2, <1>4, <1>5 DEF DeviceSound

\* Freeing the argument of the line.
LEMMA LineFreedIs ==
    ASSUME NEW d, DeviceSound(d), NEW r, r = [d EXCEPT !.line = None, !.monitors = <<>>]
    PROVE  /\ DeviceSound(r) /\ r.particles = d.particles /\ r.line = None
           /\ r.ready = d.ready /\ r.whole = d.whole
<1>1. d \in Devices
    BY DeviceTypes
<1>2. PICK none \in Seq(Monitors) : none = <<>>
    BY EmptySeq
<1>3. r = [d EXCEPT !.line = None, !.monitors = none]
    BY <1>2
<1>4. r \in Devices
    BY <1>1, <1>3 DEF Devices
<1>5. /\ r.particles = d.particles /\ r.turn = d.turn /\ r.line = None /\ r.ready = d.ready
      /\ r.whole = d.whole /\ r.monitors = none /\ r.objects = d.objects
    BY <1>1, <1>3 DEF Devices
<1> QED BY <1>2, <1>4, <1>5 DEF DeviceSound

\* The particles and the line of the device are those the job names.
Agree(w) ==
    /\ w.host.job.particles # None /\ w.dev.particles # None =>
           w.dev.particles = w.host.job.particles
    /\ w.host.job.line # None /\ w.dev.line # None => w.dev.line = w.host.job.line

\* A reset begins with what it keeps, or with none.
Started(w, particles, line, output) ==
    /\ BothSound(w)
    /\ w.host.job.particles = None \/ w.host.job.particles = particles
    /\ w.host.job.line = None \/ w.host.job.line = line
    /\ w.dev.particles = None \/ w.dev.particles = particles
    /\ w.dev.line = None \/ w.dev.line = line
    /\ output = Own => OwnsOutput(w.host.job)
    /\ output = NoBuffer =>
         /\ NothingLeads(w) /\ w.host.job.config = NoConfig
         /\ ~w.host.job.elem_output /\ ~w.host.job.monitor_output

\* The two parts of a world of calls.
LEMMA BothIs ==
    ASSUME NEW h, NEW d
    PROVE  Both(h, d).host = h /\ Both(h, d).dev = d
    BY DEF Both

\* Freeing, with what the host sees of it.
LEMMA FreedAre ==
    ASSUME NEW w, DeviceSound(w.dev)
    PROVE  /\ LET r == FreeDeviceParticles(w)
              IN  /\ r.host = w.host /\ DeviceSound(r.dev) /\ r.dev.particles = None
                  /\ r.dev.line = w.dev.line
                  /\ r.dev.ready = w.dev.ready /\ r.dev.whole = w.dev.whole
           /\ LET r == FreeDeviceLine(w)
              IN  /\ r.host = w.host /\ DeviceSound(r.dev) /\ r.dev.line = None
                  /\ r.dev.particles = w.dev.particles
                  /\ r.dev.ready = w.dev.ready /\ r.dev.whole = w.dev.whole
           /\ LET r == FreeDeviceOutputs(w)
              IN  /\ r.host = Moved(w.host, DeviceMemory) /\ DeviceSound(r.dev)
                  /\ SameArguments(r.dev, w.dev) /\ AwayLine(r.dev.monitors)
           /\ LET r == FreeDeviceOutput(w)
              IN  /\ r.host = Moved(w.host, DeviceMemory) /\ DeviceSound(r.dev)
                  /\ SameArguments(r.dev, w.dev) /\ AwayLine(r.dev.monitors)
                  /\ r.dev.config = ConfigMoved(w.dev.config, DeviceMemory)
<1>1. PICK d : d = w.dev /\ DeviceSound(d)
    OBVIOUS
<1>3. PICK p : p = [d EXCEPT !.particles = None, !.turn = <<>>]
    OBVIOUS
<1>4. PICK l : l = [d EXCEPT !.line = None, !.monitors = <<>>]
    OBVIOUS
<1>5. PICK o : o = [WithoutOutput(d) EXCEPT !.config = NoConfig]
    OBVIOUS
<1>6. /\ DeviceSound(p) /\ p.particles = None /\ p.line = d.line
      /\ p.ready = d.ready /\ p.whole = d.whole
    BY <1>1, <1>3, ParticlesFreedAre
<1>7. /\ DeviceSound(l) /\ l.particles = d.particles /\ l.line = None
      /\ l.ready = d.ready /\ l.whole = d.whole
    BY <1>1, <1>4, LineFreedIs
<1>8. DeviceSound(o) /\ SameArguments(o, d) /\ AwayLine(o.monitors)
    BY <1>1, <1>5, WithoutOutputIs
<1>9. /\ DeviceSound(WithoutOutput(d)) /\ SameArguments(WithoutOutput(d), d)
      /\ AwayLine(WithoutOutput(d).monitors)
      /\ WithoutOutput(d).config = ConfigMoved(d.config, DeviceMemory)
    BY <1>1, WithoutOutputIs
<1>10. FreeDeviceParticles(w) = Both(w.host, p)
    BY <1>1, <1>3 DEF FreeDeviceParticles
<1>11. FreeDeviceLine(w) = Both(w.host, l)
    BY <1>1, <1>4 DEF FreeDeviceLine
<1>12. FreeDeviceOutputs(w) = Both(Moved(w.host, DeviceMemory), o)
    BY <1>1, <1>5 DEF FreeDeviceOutputs
<1>13. FreeDeviceOutput(w) = Both(Moved(w.host, DeviceMemory), WithoutOutput(d))
    BY <1>1 DEF FreeDeviceOutput
<1> QED BY <1>1, <1>6, <1>7, <1>8, <1>9, <1>10, <1>11, <1>12, <1>13, BothIs

\* What a reset clears, on the host and with its argument: what is left
\* belongs to what is passed again.
LEMMA DeviceClearedIs ==
    ASSUME NEW w, BothSound(w), Agree(w), Away(w.host.job.config.out_store_addr),
           NEW particles \in ParticleBuffers, NEW sets, NEW line \in DOMAIN Lines, NEW output,
           output = Own => OwnsOutput(w.host.job)
    PROVE  LET r == DeviceClearForReset(w, particles, sets, line, output)
           IN  /\ Started(r, particles, line, output)
               /\ r.host.status = w.host.status
               /\ r.dev.ready = w.dev.ready /\ r.dev.whole = w.dev.whole
               /\ \/ r.host.job.particles = None /\ r.host.job.sets = {0}
                  \/ /\ r.host.job.particles = particles /\ w.host.job.particles = particles
                     /\ r.host.job.sets = w.host.job.sets /\ sets = w.host.job.sets
<1> DEFINE j  == w.host.job
           w1 == If(ReplacesParticles(j, particles, sets), w, FreeDeviceParticles)
           w2 == If(ReplacesLine(j, line), w1, FreeDeviceLine)
           w3 == If(ReplacesOutput(j, output), w2, FreeDeviceOutputs)
<1>1. /\ w1.host = w.host /\ DeviceSound(w1.dev) /\ w1.dev.line = w.dev.line
      /\ w1.dev.ready = w.dev.ready /\ w1.dev.whole = w.dev.whole
      /\ w1.dev.particles = None \/ w1.dev.particles = particles
    <2>1. CASE ReplacesParticles(j, particles, sets)
        <3>1. w1 = FreeDeviceParticles(w)
            BY <2>1 DEF If
        <3> QED BY <3>1, FreedAre DEF BothSound
    <2>2. CASE ~ReplacesParticles(j, particles, sets)
        <3>1. w1 = w /\ j.particles = particles /\ particles # None
            BY <2>2, Given DEF If, ReplacesParticles
        <3> QED BY <3>1 DEF BothSound, Agree
    <2> QED BY <2>1, <2>2
<1>2. w2 = IF ReplacesLine(j, line) THEN FreeDeviceLine(w1) ELSE w1
    BY DEF If
<1>4. w3 = IF ReplacesOutput(j, output) THEN FreeDeviceOutputs(w2) ELSE w2
    BY DEF If
<1> HIDE DEF w1, w2, w3
<1>3. /\ w2.host = w.host /\ DeviceSound(w2.dev)
      /\ w2.dev.ready = w.dev.ready /\ w2.dev.whole = w.dev.whole
      /\ w2.dev.particles = None \/ w2.dev.particles = particles
      /\ w2.dev.line = None \/ w2.dev.line = line
    <2>1. CASE ReplacesLine(j, line)
        <3>1. w2 = FreeDeviceLine(w1)
            BY <1>2, <2>1
        <3> QED BY <1>1, <3>1, FreedAre
    <2>2. CASE ~ReplacesLine(j, line)
        <3>1. w2 = w1 /\ w.host.job.line = line /\ line # None
            BY <1>2, <2>2, Given DEF ReplacesLine
        <3>2. w.dev.line = None \/ w.dev.line = line
            BY <3>1 DEF Agree
        <3> QED BY <1>1, <3>1, <3>2
    <2> QED BY <2>1, <2>2
<1>5. /\ HostSound(w3.host) /\ w3.host.job = j /\ w3.host.status = w.host.status
      /\ DeviceSound(w3.dev) /\ SameArguments(w3.dev, w2.dev)
      /\ output = NoBuffer => NothingLeads(w3)
    <2>1. CASE ReplacesOutput(j, output)
        <3>1. PICK h : h = Moved(w.host, DeviceMemory)
            OBVIOUS
        <3>2. /\ HostSound(h) /\ h.job = j /\ h.status = w.host.status /\ AwayLines(h.lines)
            BY <3>1, HostFreedIs DEF BothSound
        <3>3. w3 = FreeDeviceOutputs(w2)
            BY <1>4, <2>1
        <3> QED BY <1>3, <3>1, <3>2, <3>3, FreedAre DEF NothingLeads
    <2>2. CASE ~ReplacesOutput(j, output)
        <3>1. w3 = w2 /\ output # NoBuffer
            BY <1>4, <2>2 DEF ReplacesOutput
        <3> QED BY <1>3, <3>1 DEF BothSound, SameArguments
    <2> QED BY <2>1, <2>2
<1>6. PICK r : r = DeviceClearForReset(w, particles, sets, line, output)
    OBVIOUS
<1>7. r.host = ClearForReset(w3.host, particles, sets, line, output) /\ r.dev = w3.dev
    BY <1>6, BothIs DEF DeviceClearForReset, OnHost, w1, w2, w3
<1>8. /\ HostSound(r.host) /\ r.host.status = w.host.status
      /\ output = Own => OwnsOutput(r.host.job)
      /\ \/ r.host.job.particles = None /\ r.host.job.sets = {0}
         \/ /\ r.host.job.particles = particles /\ w.host.job.particles = particles
            /\ r.host.job.sets = w.host.job.sets /\ sets = w.host.job.sets
      /\ r.host.job.line = None \/ r.host.job.line = line
      /\ AwayLines(w3.host.lines) => AwayLines(r.host.lines)
      /\ output = NoBuffer =>
           /\ ~r.host.job.elem_output /\ ~r.host.job.monitor_output
           /\ r.host.job.config = NoConfig
    BY <1>5, <1>7, HostClearedIs
<1>9. Started(r, particles, line, output)
    BY <1>3, <1>5, <1>7, <1>8 DEF Started, BothSound, SameArguments, NothingLeads
<1> QED BY <1>3, <1>5, <1>6, <1>7, <1>8, <1>9 DEF SameArguments

-----------------------------------------------------------------------------
(* Preparing the inputs.                                                   *)

\* All that a job keeps of its output.
SameOutputMembers(j, k) ==
    /\ j.output = k.output /\ j.output_cxx = k.output_cxx /\ j.config = k.config
    /\ j.elem_offset = k.elem_offset /\ j.monitor_offset = k.monitor_offset
    /\ j.elem_output = k.elem_output /\ j.monitor_output = k.monitor_output

\* A job that names other inputs, of a world that is sound.
LEMMA OtherInputs ==
    ASSUME NEW h, HostSound(h), NEW j \in Jobs, SameOutputMembers(j, h.job),
           j.particles # None => SetsOf(j.sets, j.particles) /\ ExtentsOK(j.extents),
           NEW lns \in [DOMAIN Lines -> Seq(Monitors)], \A l \in DOMAIN Lines : SameLine(lns[l], h.lines[l]),
           NEW r, r = World(j, lns, h.buffers, h.status)
    PROVE  /\ HostSound(r) /\ r.job = j /\ r.lines = lns
           /\ r.buffers = h.buffers /\ r.status = h.status
<1>1. /\ h \in Worlds /\ h.buffers \in [Buffers -> Seq(Objects)]
      /\ h.status \in {"success", "failure"}
    BY HostTypes
<1>2. r.job = j /\ r.lines = lns /\ r.buffers = h.buffers /\ r.status = h.status
    BY DEF World
<1>3. Steady(r)
    BY <1>1, JobSteady DEF HostSound, SameOutputMembers
<1>4. Scheduled(r)
    BY <1>2, StaysScheduled DEF HostSound, SameLines
<1> QED BY <1>2, <1>3, <1>4 DEF HostSound

\* A line has its own schedules.
LEMMA SameLineItself ==
    ASSUME NEW line
    PROVE  SameLine(line, line)
    BY DEF SameLine, SameSchedule

\* The job learns the extents of the particles.
LEMMA ParticlesPreparedAre ==
    ASSUME NEW h, HostSound(h), TurnsTyped, NEW particles \in ParticleBuffers,
           SetsOf(h.job.sets, particles)
    PROVE  LET r == PrepareParticles(h, particles)
           IN  /\ HostSound(r) /\ r.lines = h.lines /\ r.status = h.status
               /\ ExtentsOK(r.job.extents) /\ SameOutputMembers(r.job, h.job)
               /\ r.job.particles = h.job.particles /\ r.job.sets = h.job.sets
               /\ r.job.line = h.job.line
<1>1. /\ h \in Worlds /\ h.job \in Jobs /\ h.lines \in [DOMAIN Lines -> Seq(Monitors)]
    BY HostTypes
<1>2. PICK x \in ExtentSets : x = ExtentsOf(particles, h.job.sets) /\ ExtentsOK(x)
    BY ExtentsAre
<1>3. PICK j : j = [h.job EXCEPT !.extents = x]
    OBVIOUS
<1>4. /\ j \in Jobs /\ j.extents = x /\ SameOutputMembers(j, h.job)
      /\ j.particles = h.job.particles /\ j.sets = h.job.sets /\ j.line = h.job.line
    BY <1>1, <1>3 DEF Jobs, SameOutputMembers
<1>5. PICK r : r = PrepareParticles(h, particles)
    OBVIOUS
<1>6. r = WithJob(h, j)
    BY <1>2, <1>3, <1>5 DEF PrepareParticles, WithJob
<1>7. r = World(j, h.lines, h.buffers, h.status)
    BY <1>1, <1>4, <1>6, WithJobIs
<1>8. j.particles # None => SetsOf(j.sets, j.particles)
    BY <1>4 DEF HostSound, Steady, Sound
<1>9. HostSound(r) /\ r.job = j /\ r.lines = h.lines /\ r.status = h.status
    BY <1>1, <1>2, <1>4, <1>7, <1>8, SameLineItself, OtherInputs
<1> QED BY <1>2, <1>4, <1>5, <1>9

\* The monitors of the line learn the particle ids.
LEMMA LinePreparedIs ==
    ASSUME NEW h, HostSound(h), NEW line \in DOMAIN Lines
    PROVE  LET r == PrepareLine(h, line)
           IN  /\ HostSound(r) /\ r.job = h.job /\ r.status = h.status
               /\ AwayLines(h.lines) => AwayLines(r.lines)
<1>1. /\ h \in Worlds /\ h.job \in Jobs /\ h.lines \in [DOMAIN Lines -> Seq(Monitors)]
      /\ h.job.extents \in ExtentSets
    BY HostTypes, WorldTypes
<1>2. PICK old \in Seq(Monitors) : old = h.lines[line]
    BY <1>1
<1> DEFINE learnt == [i \in DOMAIN old |-> MonitorFor(old[i], h.job.extents)]
           new == IF h.job.particles = None THEN old ELSE learnt
           lns == [h.lines EXCEPT ![line] = new]
<1>3. learnt \in Seq(Monitors)
    BY <1>1, LineFor
<1>4. SameLine(learnt, old) /\ (AwayLine(old) => AwayLine(learnt))
    <2>1. ASSUME NEW i \in DOMAIN old
          PROVE  /\ SameSchedule(learnt[i], old[i])
                 /\ learnt[i].out_address = old[i].out_address
        <3>1. old[i] \in Monitors
            OBVIOUS
        <3> QED BY <3>1 DEF SameSchedule, MonitorFor, Monitors
    <2>2. DOMAIN learnt = DOMAIN old
        OBVIOUS
    <2> HIDE DEF learnt
    <2> QED BY <2>1, <2>2 DEF SameLine, AwayLine
<1> HIDE DEF learnt
<1>5. new \in Seq(Monitors) /\ SameLine(new, old) /\ (AwayLine(old) => AwayLine(new))
    BY <1>3, <1>4, SameLineItself
<1>6. PICK r : r = PrepareLine(h, line)
    OBVIOUS
<1>7. r = [h EXCEPT !.lines = lns]
    BY <1>2, <1>6, Zenon DEF PrepareLine, learnt
<1> HIDE DEF new
<1>8. lns \in [DOMAIN Lines -> Seq(Monitors)]
    BY <1>1, <1>5
<1>9. ASSUME NEW l \in DOMAIN Lines
      PROVE  SameLine(lns[l], h.lines[l]) /\ (AwayLine(h.lines[l]) => AwayLine(lns[l]))
    <2>1. CASE l = line
        BY <1>1, <1>2, <1>5, <2>1
    <2>2. CASE l # line
        BY <1>1, <2>2, SameLineItself
    <2> QED BY <2>1, <2>2
<1> HIDE DEF lns
<1>10. r = World(h.job, lns, h.buffers, h.status)
    BY <1>1, <1>7 DEF World, Worlds
<1>11. ASSUME h.job.particles # None
       PROVE  SetsOf(h.job.sets, h.job.particles) /\ ExtentsOK(h.job.extents)
    BY <1>11 DEF HostSound, Steady, Sound
<1>12. HostSound(r) /\ r.job = h.job /\ r.lines = lns /\ r.status = h.status
    <2>1. SameOutputMembers(h.job, h.job)
        BY DEF SameOutputMembers
    <2>2. PICK k \in Jobs : k = h.job
        BY <1>1
    <2>3. /\ r = World(k, lns, h.buffers, h.status) /\ SameOutputMembers(k, h.job)
          /\ k.particles # None => SetsOf(k.sets, k.particles) /\ ExtentsOK(k.extents)
        BY <1>10, <1>11, <2>1, <2>2
    <2>4. HostSound(r) /\ r.job = k /\ r.lines = lns /\ r.status = h.status
        BY <1>8, <1>9, <2>3, OtherInputs
    <2> QED BY <2>2, <2>4
<1>13. AwayLines(h.lines) => AwayLines(r.lines)
    BY <1>9, <1>12 DEF AwayLines
<1> QED BY <1>6, <1>12, <1>13

\* Inputs are attached to the job, and nothing else changes.
LEMMA AttachIs ==
    ASSUME NEW w, BothSound(w), NEW j, j.particles \in ParticleBuffers \cup {None},
           j.line \in DOMAIN Lines \cup {None}, j.line_cxx \in BOOLEAN,
           j.particles # None =>
               SetsOf(w.host.job.sets, j.particles) /\ ExtentsOK(w.host.job.extents)
    PROVE  LET r == Attach(w, j)
           IN  /\ BothSound(r) /\ r.dev = w.dev
               /\ r.host.lines = w.host.lines /\ r.host.buffers = w.host.buffers
               /\ r.host.status = w.host.status
               /\ SameOutputMembers(r.host.job, w.host.job)
               /\ r.host.job.sets = w.host.job.sets /\ r.host.job.extents = w.host.job.extents
               /\ r.host.job.particles = j.particles /\ r.host.job.line = j.line
<1>1. PICK h : h = w.host /\ HostSound(h)
    BY DEF BothSound
<1>2. /\ h \in Worlds /\ h.job \in Jobs /\ h.lines \in [DOMAIN Lines -> Seq(Monitors)]
    BY <1>1, HostTypes
<1>3. PICK p \in ParticleBuffers \cup {None}, name \in DOMAIN Lines \cup {None}, cxx \in BOOLEAN :
        p = j.particles /\ name = j.line /\ cxx = j.line_cxx
    OBVIOUS
<1>4. PICK k : k = [h.job EXCEPT !.particles = p, !.line = name, !.line_cxx = cxx]
    OBVIOUS
<1>5. /\ k \in Jobs /\ SameOutputMembers(k, h.job) /\ k.sets = h.job.sets
      /\ k.extents = h.job.extents /\ k.particles = p /\ k.line = name
    BY <1>2, <1>4 DEF Jobs, SameOutputMembers
<1>6. PICK r : r = Attach(w, j)
    OBVIOUS
<1>7. r = Both(WithJob(h, k), w.dev)
    <2>1. r = Both([h EXCEPT !.job = [h.job EXCEPT !.particles = j.particles, !.line = j.line,
                                                   !.line_cxx = j.line_cxx]], w.dev)
        BY <1>1, <1>6, Zenon DEF Attach
    <2> QED BY <1>3, <1>4, <2>1 DEF WithJob
<1>8. PICK g : g = WithJob(h, k)
    OBVIOUS
<1>9. g = World(k, h.lines, h.buffers, h.status)
    BY <1>2, <1>5, <1>8, WithJobIs
<1>10. /\ HostSound(g) /\ g.job = k /\ g.lines = h.lines
       /\ g.buffers = h.buffers /\ g.status = h.status
    <2>1. k.particles # None => SetsOf(k.sets, k.particles) /\ ExtentsOK(k.extents)
        BY <1>1, <1>3, <1>5
    <2>2. \A i \in DOMAIN Lines : SameLine(h.lines[i], h.lines[i])
        BY SameLineItself
    <2>3. HostSound(h)
        BY <1>1
    <2>4. k \in Jobs /\ SameOutputMembers(k, h.job)
        BY <1>5
    <2>5. PICK lns \in [DOMAIN Lines -> Seq(Monitors)] : lns = h.lines
        BY <1>2
    <2>6. g = World(k, lns, h.buffers, h.status) /\ \A i \in DOMAIN Lines : SameLine(lns[i], h.lines[i])
        BY <1>9, <2>2, <2>5
    <2>7. /\ HostSound(g) /\ g.job = k /\ g.lines = lns
          /\ g.buffers = h.buffers /\ g.status = h.status
        BY <2>1, <2>3, <2>4, <2>6, OtherInputs
    <2> QED BY <2>5, <2>7
<1>11. r.host = g /\ r.dev = w.dev
    BY <1>7, <1>8, BothIs
<1> QED BY <1>1, <1>3, <1>5, <1>6, <1>10, <1>11 DEF BothSound

\* Failing is seen in the status of the host alone.
LEMMA HostFailedIs ==
    ASSUME NEW h, HostSound(h)
    PROVE  LET r == Failed(h)
           IN  /\ HostSound(r) /\ ~Succeeds(r) /\ r.job = h.job
               /\ r.lines = h.lines /\ r.buffers = h.buffers
<1>1. h \in Worlds
    BY HostTypes
<1>2. PICK r : r = Failed(h)
    OBVIOUS
<1>3. r = World(h.job, h.lines, h.buffers, "failure")
    BY <1>1, <1>2, FailedIs
<1>4. r.job = h.job /\ r.lines = h.lines /\ r.buffers = h.buffers
    BY <1>3 DEF World
<1>5. Steady(r) /\ ~Succeeds(r)
    BY <1>1, <1>2, FailedIs DEF HostSound, Steady
<1>6. HostSound(r)
    BY <1>4, <1>5 DEF HostSound, Scheduled
<1> QED BY <1>2, <1>4, <1>5, <1>6

\* An argument that is not made is missed.
LEMMA ShortIs ==
    ASSUME NEW d, DeviceSound(d), NEW r, r = [d EXCEPT !.whole = FALSE]
    PROVE  /\ DeviceSound(r) /\ ~r.whole /\ r.ready = d.ready
           /\ r.particles = d.particles /\ r.line = d.line /\ r.monitors = d.monitors
           /\ r.config = d.config
<1>1. d \in Devices
    BY DeviceTypes
<1>2. /\ r \in Devices /\ ~r.whole /\ r.ready = d.ready /\ r.turn = d.turn
      /\ r.particles = d.particles /\ r.line = d.line /\ r.monitors = d.monitors
      /\ r.objects = d.objects /\ r.config = d.config
    BY <1>1 DEF Devices
<1> QED BY <1>2 DEF DeviceSound

\* The set-up of one argument missed it, and failed or not.
Missed(r, w) ==
    /\ r.host = w.host \/ r.host = Failed(w.host)
    /\ DeviceSound(r.dev) /\ ~r.dev.whole /\ r.dev.ready = w.dev.ready
    /\ r.dev.particles = w.dev.particles /\ r.dev.line = w.dev.line
    /\ r.dev.monitors = w.dev.monitors

\* A step that comes to nothing leaves a sound world, no longer whole.
LEMMA MissedIs ==
    ASSUME NEW w, BothSound(w)
    PROVE  Missed(Short(w), w) /\ Missed(Short(Fails(w)), w)
<1>1. PICK d : d = [w.dev EXCEPT !.whole = FALSE]
    OBVIOUS
<1>2. Short(w) = Both(w.host, d)
    BY <1>1 DEF Short
<1>3. Short(Fails(w)) = Both(Failed(w.host), d)
    BY <1>1, BothIs DEF Short, Fails
<1>4. DeviceSound(w.dev)
    BY DEF BothSound
<1>5. /\ DeviceSound(d) /\ ~d.whole /\ d.ready = w.dev.ready /\ d.particles = w.dev.particles
      /\ d.line = w.dev.line /\ d.monitors = w.dev.monitors
    BY <1>1, <1>4, ShortIs
<1> QED BY <1>2, <1>3, <1>5, BothIs DEF Missed

\* The device's particles: those there were, or the ones of the host's buffer.
LEMMA DeviceParticlesAre ==
    ASSUME NEW w, BothSound(w), TurnsTyped, NEW particles \in ParticleBuffers, NEW failing
    PROVE  LET r == DevicePrepareParticles(w, particles, failing)
           IN  \/ Missed(r, w)
               \/ /\ r.host = w.host /\ DeviceSound(r.dev) /\ r.dev.particles = particles
                  /\ r.dev.whole = w.dev.whole /\ w.dev.ready /\ r.dev.ready
                  /\ r.dev.line = w.dev.line /\ r.dev.monitors = w.dev.monitors
<1>1. PICK r : r = DevicePrepareParticles(w, particles, failing)
    OBVIOUS
<1>2. CASE ~w.dev.ready \/ failing = "addresses" \/ failing = "particles"
    <2>1. r = Short(Fails(w)) \/ r = Short(w)
        BY <1>1, <1>2 DEF DevicePrepareParticles
    <2> QED BY <1>1, <2>1, MissedIs
<1>3. CASE ~(~w.dev.ready \/ failing = "addresses" \/ failing = "particles")
    <2>1. PICK d : d = w.dev /\ DeviceSound(d)
        BY DEF BothSound
    <2>2. d \in Devices /\ d.ready
        BY <1>3, <2>1, DeviceTypes
    <2>3. PICK turns \in Seq(Nat) : turns = turn[particles] /\ Len(turns) = Len(Sets[particles])
        BY DEF TurnsTyped
    <2>4. PICK e : e = [d EXCEPT !.particles = particles, !.turn = turns]
        OBVIOUS
    <2>5. r = Both(w.host, e)
        BY <1>1, <1>3, <2>1, <2>3, <2>4 DEF DevicePrepareParticles
    <2>6. /\ e \in Devices /\ e.particles = particles /\ e.turn = turns
          /\ e.whole = d.whole /\ e.ready = d.ready
          /\ e.line = d.line /\ e.monitors = d.monitors /\ e.objects = d.objects
        BY <2>2, <2>4 DEF Devices
    <2>7. DeviceSound(e)
        BY <2>1, <2>3, <2>6, Given DEF DeviceSound
    <2>8. r.host = w.host /\ r.dev = e
        BY <2>5, BothIs
    <2> QED BY <1>1, <2>1, <2>2, <2>6, <2>7, <2>8
<1> QED BY <1>2, <1>3

\* The device's line: the one there was, or that of the host as it is.
LEMMA DeviceLineIs ==
    ASSUME NEW w, BothSound(w), NEW line \in DOMAIN Lines, NEW failing
    PROVE  LET r == DevicePrepareLine(w, line, failing)
           IN  \/ Missed(r, w)
               \/ /\ r.host = w.host /\ DeviceSound(r.dev) /\ r.dev.particles = w.dev.particles
                  /\ r.dev.whole = w.dev.whole /\ w.dev.ready /\ r.dev.ready
                  /\ r.dev.line = line /\ r.dev.monitors = w.host.lines[line]
<1>1. PICK r : r = DevicePrepareLine(w, line, failing)
    OBVIOUS
<1>2. CASE ~w.dev.ready \/ failing = "line"
    <2>1. r = Short(Fails(w))
        BY <1>1, <1>2 DEF DevicePrepareLine
    <2> QED BY <1>1, <2>1, MissedIs
<1>3. CASE ~(~w.dev.ready \/ failing = "line")
    <2>1. PICK d : d = w.dev /\ DeviceSound(d)
        BY DEF BothSound
    <2>2. d \in Devices /\ d.ready
        BY <1>3, <2>1, DeviceTypes
    <2>3. HostSound(w.host)
        BY DEF BothSound
    <2>4. w.host.lines[line] \in Seq(Monitors) /\ SameLine(w.host.lines[line], Lines[line])
        <3>1. w.host.lines \in [DOMAIN Lines -> Seq(Monitors)]
            BY <2>3, HostTypes
        <3>2. SameLine(w.host.lines[line], Lines[line])
            BY <2>3 DEF HostSound, Scheduled
        <3> QED BY <3>1, <3>2
    <2>5. PICK monitors \in Seq(Monitors) : monitors = w.host.lines[line]
        BY <2>4
    <2>6. PICK e : e = [d EXCEPT !.line = line, !.monitors = monitors, !.stray = TRUE]
        OBVIOUS
    <2>7. r = Both(w.host, e)
        BY <1>1, <1>3, <2>1, <2>5, <2>6 DEF DevicePrepareLine
    <2>8. /\ e \in Devices /\ e.particles = d.particles /\ e.turn = d.turn
          /\ e.whole = d.whole /\ e.ready = d.ready
          /\ e.line = line /\ e.monitors = monitors /\ e.objects = d.objects
        BY <2>2, <2>6 DEF Devices
    <2>9. DeviceSound(e)
        BY <2>1, <2>4, <2>5, <2>8, Given DEF DeviceSound
    <2>10. r.host = w.host /\ r.dev = e
        BY <2>7, BothIs
    <2> QED BY <1>1, <2>1, <2>2, <2>5, <2>8, <2>9, <2>10
<1> QED BY <1>2, <1>3

\* What an argument that may be missed leaves of the host and of what leads to
\* the device.
LEMMA MissedKeeps ==
    ASSUME NEW w, BothSound(w), NEW r, Missed(r, w)
    PROVE  /\ BothSound(r) /\ r.host.job = w.host.job /\ r.host.lines = w.host.lines
           /\ NothingLeads(w) => NothingLeads(r)
<1>1. HostSound(w.host)
    BY DEF BothSound
<1>2. HostSound(r.host) /\ r.host.job = w.host.job /\ r.host.lines = w.host.lines
    BY <1>1, HostFailedIs DEF Missed
<1> QED BY <1>2 DEF Missed, BothSound, NothingLeads

\* Preparing the inputs keeps what a reset began with; it made both arguments
\* unless it missed one.
LEMMA InputsPreparedAre ==
    ASSUME NEW particles \in ParticleBuffers, NEW line \in DOMAIN Lines, NEW output, NEW failing,
           TurnsTyped, NEW w, Started(w, particles, line, output), Works(w),
           SetsOf(w.host.job.sets, particles)
    PROVE  LET a == PrepareInputs(w, particles, line, failing)
           IN  /\ Started(a, particles, line, output)
               /\ ExtentsOK(a.host.job.extents) /\ a.host.job.sets = w.host.job.sets
               /\ a.dev.whole =>
                    /\ Works(a) /\ a.dev.ready /\ w.dev.whole
                    /\ a.dev.particles = particles /\ a.dev.line = line
<1>1. HostSound(w.host) /\ DeviceSound(w.dev) /\ BothSound(w)
    BY DEF Started, BothSound
<1>2. PICK h : h = PrepareParticles(w.host, particles)
    OBVIOUS
<1>3. /\ HostSound(h) /\ h.lines = w.host.lines /\ h.status = w.host.status
      /\ ExtentsOK(h.job.extents) /\ SameOutputMembers(h.job, w.host.job)
      /\ h.job.particles = w.host.job.particles /\ h.job.sets = w.host.job.sets
      /\ h.job.line = w.host.job.line
    BY <1>1, <1>2, ParticlesPreparedAre
<1>4. PICK w1 : w1 = Both(h, w.dev)
    OBVIOUS
<1>5. w1.host = h /\ w1.dev = w.dev /\ BothSound(w1)
    BY <1>1, <1>3, <1>4, BothIs DEF BothSound
<1>6. PICK p : p = DevicePrepareParticles(w1, particles, failing)
    OBVIOUS
<1>7. \/ Missed(p, w1)
      \/ /\ p.host = h /\ DeviceSound(p.dev) /\ p.dev.particles = particles
         /\ p.dev.whole = w.dev.whole /\ w.dev.ready /\ p.dev.ready
         /\ p.dev.line = w.dev.line /\ p.dev.monitors = w.dev.monitors
    BY <1>5, <1>6, DeviceParticlesAre
<1>8. /\ BothSound(p) /\ p.host.job = h.job /\ p.host.lines = h.lines
      /\ NothingLeads(w) => NothingLeads(p)
    <2>1. NothingLeads(w) => NothingLeads(w1)
        BY <1>3, <1>5 DEF NothingLeads
    <2>2. CASE Missed(p, w1)
        BY <1>5, <2>1, <2>2, MissedKeeps
    <2>3. CASE p.host = h /\ DeviceSound(p.dev) /\ p.dev.monitors = w.dev.monitors
        BY <1>3, <2>3 DEF BothSound, NothingLeads
    <2> QED BY <1>7, <2>2, <2>3
<1>9. Started(p, particles, line, output)
    BY <1>3, <1>5, <1>7, <1>8 DEF Started, Missed, SameOutputMembers, OwnsOutput
<1>10. p.dev.whole => w.dev.whole /\ Works(p) /\ p.dev.particles = particles
    BY <1>3, <1>7 DEF Missed, Works, Succeeds
<1>11. PICK g : g = PrepareLine(p.host, line)
    OBVIOUS
<1>12. /\ HostSound(g) /\ g.job = h.job /\ g.status = p.host.status
       /\ AwayLines(p.host.lines) => AwayLines(g.lines)
    BY <1>8, <1>11, LinePreparedIs DEF BothSound
<1>13. PICK w2 : w2 = Both(g, p.dev)
    OBVIOUS
<1>14. /\ w2.host = g /\ w2.dev = p.dev /\ BothSound(w2)
       /\ NothingLeads(p) => NothingLeads(w2)
    BY <1>8, <1>12, <1>13, BothIs DEF BothSound, NothingLeads
<1>15. PICK q : q = DevicePrepareLine(w2, line, failing)
    OBVIOUS
<1>16. \/ Missed(q, w2)
       \/ /\ q.host = g /\ DeviceSound(q.dev) /\ q.dev.particles = p.dev.particles
          /\ q.dev.whole = p.dev.whole /\ p.dev.ready /\ q.dev.ready
          /\ q.dev.line = line /\ q.dev.monitors = g.lines[line]
    BY <1>14, <1>15, DeviceLineIs
<1>17. /\ BothSound(q) /\ q.host.job = h.job
       /\ NothingLeads(p) => NothingLeads(q)
    <2>1. CASE Missed(q, w2)
        BY <1>12, <1>14, <2>1, MissedKeeps
    <2>2. CASE q.host = g /\ DeviceSound(q.dev) /\ q.dev.monitors = g.lines[line]
        BY <1>12, <1>14, <2>2 DEF BothSound, NothingLeads, AwayLines
    <2> QED BY <1>16, <2>1, <2>2
<1>18. Started(q, particles, line, output)
    BY <1>8, <1>9, <1>14, <1>16, <1>17 DEF Started, Missed
<1>19. Works(p) /\ q.dev.whole =>
         Works(q) /\ q.dev.ready /\ p.dev.whole /\ q.dev.particles = p.dev.particles
         /\ q.dev.line = line
    BY <1>12, <1>16 DEF Missed, Works, Succeeds
<1>20. PrepareInputs(w, particles, line, failing) = IF Works(p) THEN q ELSE p
    <2>1. OnHost(w, LAMBDA k : PrepareParticles(k, particles)) = w1
        BY <1>2, <1>4 DEF OnHost
    <2>2. OnHost(p, LAMBDA k : PrepareLine(k, line)) = w2
        BY <1>11, <1>13 DEF OnHost
    <2> QED BY <1>6, <1>15, <2>1, <2>2 DEF PrepareInputs, AndThen
<1> QED BY <1>3, <1>8, <1>9, <1>10, <1>17, <1>18, <1>19, <1>20

-----------------------------------------------------------------------------
(* Preparing the output.                                                   *)

\* The objects of the device are as large as those of the host.
LEMMA OnDeviceIs ==
    ASSUME NEW objects \in Seq(Objects)
    PROVE  LET r == OnDevice(objects)
           IN  /\ r \in Seq(Objects) /\ Placed(r, DeviceMemory) /\ Len(r) = Len(objects)
               /\ DOMAIN r = DOMAIN objects
               /\ \A i \in DOMAIN objects : r[i].size = objects[i].size
<1>1. PICK len \in Nat : len = Len(objects) /\ DOMAIN objects = 1 .. len
    OBVIOUS
<1>2. PICK r : r = OnDevice(objects)
    OBVIOUS
<1>3. ASSUME NEW i \in 1 .. len
      PROVE  /\ r[i] \in Objects /\ r[i].addr = Address(DeviceMemory, i)
             /\ r[i].size = objects[i].size
    <2>1. objects[i] \in Objects
        BY <1>1
    <2>2. PICK device \in Nat, most \in Nat : device = DeviceMemory /\ most = MaxObjects
        BY DeviceMemoryIs, Given
    <2>3. PICK start \in Nat : start = device * most
        BY <2>2
    <2>4. Address(DeviceMemory, i) \in Nat \ {0}
        BY <2>2, <2>3 DEF Address
    <2>5. PICK addr \in Nat \ {0} : addr = Address(DeviceMemory, i)
        BY <2>4
    <2>6. r[i] = [objects[i] EXCEPT !.addr = addr]
        BY <1>1, <1>2, <2>5 DEF OnDevice
    <2> QED BY <2>1, <2>5, <2>6 DEF Objects
<1>4. r = [i \in 1 .. len |-> r[i]] /\ DOMAIN r = 1 .. len
    BY <1>1, <1>2 DEF OnDevice
<1>5. r \in Seq(Objects) /\ Len(r) = len
    <2>1. [i \in 1 .. len |-> r[i]] \in [1 .. len -> Objects]
        BY <1>3
    <2> QED BY <1>4, <2>1
<1> QED BY <1>1, <1>2, <1>3, <1>4, <1>5 DEF Placed

\* What a step of a call keeps of the arguments.
Kept(r, w) ==
    /\ r.dev.ready = w.dev.ready /\ r.dev.particles = w.dev.particles
    /\ r.dev.line = w.dev.line /\ (r.dev.whole => w.dev.whole)

\* The configuration of the device is the one of the host if there is any.
ConfigCopied(w) == w.host.job.config # NoConfig => w.dev.config = w.host.job.config

\* Failing for want of an argument changes two members.
LEMMA ShortFailsIs ==
    ASSUME NEW h, NEW d
    PROVE  Short(Fails(Both(h, d))) = Both(Failed(h), [d EXCEPT !.whole = FALSE])
<1>1. Fails(Both(h, d)) = Both(Failed(h), d)
    BY BothIs DEF Fails
<1>2. Short(Both(Failed(h), d)) = Both(Failed(h), [d EXCEPT !.whole = FALSE])
    BY BothIs DEF Short
<1> QED BY <1>1, <1>2

\* Copying the configuration: a success means the device has that of the host.
LEMMA DeviceConfigIs ==
    ASSUME NEW w, BothSound(w), Works(w), NEW failing
    PROVE  LET r == DevicePrepareConfig(w, failing)
           IN  /\ DeviceSound(r.dev) /\ Kept(r, w)
               /\ r.host = w.host \/ r.host = Failed(w.host)
               /\ Works(r) => /\ r.host = w.host /\ w.dev.ready /\ ConfigCopied(r)
<1>1. PICK r : r = DevicePrepareConfig(w, failing)
    OBVIOUS
<1>2. PICK d : d = w.dev /\ DeviceSound(d)
    BY DEF BothSound
<1>3. /\ HostSound(w.host) /\ w.host.job.config \in Configs /\ NoConfig \in Configs
    <2>1. HostSound(w.host)
        BY DEF BothSound
    <2>2. NoExtents \in ExtentSets
        BY DEF NoExtents, ExtentSets
    <2> QED BY <2>1, <2>2, HostTypes, FreshConfig
<1>4. ~Works(Both(Failed(w.host), d))
    BY <1>3, HostFailedIs, BothIs DEF Works
<1>5. ASSUME NEW c \in Configs, NEW e, e = [d EXCEPT !.config = c]
      PROVE  /\ DeviceSound(e) /\ e.config = c /\ e.ready = d.ready /\ e.whole = d.whole
             /\ e.particles = d.particles /\ e.line = d.line
    <2>1. d \in Devices
        BY <1>2, DeviceTypes
    <2>2. /\ e \in Devices /\ e.config = c /\ e.ready = d.ready /\ e.whole = d.whole
          /\ e.particles = d.particles /\ e.line = d.line /\ e.turn = d.turn
          /\ e.monitors = d.monitors /\ e.objects = d.objects
        BY <1>5, <2>1 DEF Devices
    <2> QED BY <1>2, <2>2 DEF DeviceSound
<1>6. CASE ~d.ready
    <2>1. r = Short(Fails(w))
        BY <1>1, <1>2, <1>6 DEF DevicePrepareConfig
    <2>2. PICK e : e = [d EXCEPT !.whole = FALSE]
        OBVIOUS
    <2>3. r = Both(Failed(w.host), e)
        BY <1>2, <2>1, <2>2, BothIs DEF Short, Fails
    <2> QED BY <1>1, <1>2, <1>3, <2>2, <2>3, ShortIs, HostFailedIs, BothIs DEF Kept, Works
<1>7. CASE d.ready /\ w.host.job.config = NoConfig
    <2>1. r = w
        BY <1>1, <1>2, <1>7 DEF DevicePrepareConfig
    <2> QED BY <1>1, <1>2, <1>7, <2>1 DEF Kept, ConfigCopied
<1>8. CASE d.ready /\ w.host.job.config # NoConfig /\ failing = "config"
    <2>1. r = Short(Fails(Both(w.host, [d EXCEPT !.config = NoConfig])))
        BY <1>1, <1>2, <1>8 DEF DevicePrepareConfig
    <2>2. PICK e : e = [d EXCEPT !.config = NoConfig]
        OBVIOUS
    <2>3. PICK f : f = [e EXCEPT !.whole = FALSE]
        OBVIOUS
    <2>4. r = Both(Failed(w.host), f)
        BY <2>1, <2>2, <2>3, ShortFailsIs
    <2>5. /\ DeviceSound(e) /\ e.ready = d.ready /\ e.particles = d.particles /\ e.line = d.line
        BY <1>3, <1>5, <2>2
    <2>6. /\ DeviceSound(f) /\ ~f.whole /\ f.ready = d.ready
          /\ f.particles = d.particles /\ f.line = d.line
        BY <2>3, <2>5, ShortIs
    <2>7. r.host = Failed(w.host) /\ r.dev = f /\ ~Works(r)
        BY <1>3, <2>4, HostFailedIs, BothIs DEF Works
    <2> QED BY <1>1, <1>2, <2>6, <2>7 DEF Kept
<1>9. CASE d.ready /\ w.host.job.config # NoConfig /\ failing # "config"
    <2>1. r = Both(w.host, [d EXCEPT !.config = w.host.job.config])
        BY <1>1, <1>2, <1>9 DEF DevicePrepareConfig
    <2>2. PICK e : e = [d EXCEPT !.config = w.host.job.config]
        OBVIOUS
    <2>3. r.host = w.host /\ r.dev = e
        BY <2>1, <2>2, BothIs
    <2>4. /\ DeviceSound(e) /\ e.config = w.host.job.config
          /\ e.ready = d.ready /\ e.whole = d.whole
          /\ e.particles = d.particles /\ e.line = d.line
        BY <1>3, <1>5, <2>2
    <2> QED BY <1>1, <1>2, <1>9, <2>3, <2>4 DEF Kept, ConfigCopied
<1> QED BY <1>6, <1>7, <1>8, <1>9

\* The device has a copy of the job's output.
OutputCopied(w) ==
    /\ w.dev.ready /\ w.dev.output = w.host.job.output
    /\ w.dev.objects = OnDevice(w.host.buffers[w.host.job.output])

\* Making the argument of the output anew: no monitor leads to the old one.
LEMMA DeviceOutputMadeIs ==
    ASSUME NEW w, BothSound(w), Works(w), NEW failing, HasOutput(w.host.job), w.dev.ready,
           Away(w.host.job.config.out_store_addr), ConfigCopied(w)
    PROVE  LET r == DeviceMakeOutput(w, failing)
           IN  /\ BothSound(r) /\ Kept(r, w) /\ r.host.job = w.host.job
               /\ r.host.buffers = w.host.buffers /\ SameLines(r.host, w.host)
               /\ Works(r) => /\ OutputCopied(r) /\ ConfigCopied(r) /\ NothingLeads(r)
                              /\ Equipped(w.host) /\ Windows(w.host) => Windows(r.host)
<1>1. PICK r : r = DeviceMakeOutput(w, failing)
    OBVIOUS
<1>2. HostSound(w.host) /\ DeviceSound(w.dev)
    BY DEF BothSound
<1>3. PICK f : f = FreeDeviceOutput(w)
    OBVIOUS
<1>4. PICK h : h = Moved(w.host, DeviceMemory)
    OBVIOUS
<1>5. /\ HostSound(h) /\ h.job = w.host.job /\ h.buffers = w.host.buffers
      /\ h.status = w.host.status /\ SameLines(h, w.host) /\ AwayLines(h.lines)
      /\ Equipped(w.host) /\ Windows(w.host) => Windows(h)
    BY <1>2, <1>4, HostFreedIs
<1>6. PICK d : d = f.dev
    OBVIOUS
<1>7. /\ f = Both(h, d) /\ DeviceSound(d) /\ SameArguments(d, w.dev) /\ AwayLine(d.monitors)
      /\ d.config = ConfigMoved(w.dev.config, DeviceMemory)
    <2>1. f.host = h /\ DeviceSound(d) /\ SameArguments(d, w.dev) /\ AwayLine(d.monitors)
          /\ d.config = ConfigMoved(w.dev.config, DeviceMemory)
        BY <1>2, <1>3, <1>4, <1>6, FreedAre
    <2>2. f = Both(f.host, f.dev)
        BY <1>3, BothIs DEF FreeDeviceOutput
    <2> QED BY <1>6, <2>1, <2>2
<1>8. w.host.job.config # NoConfig => d.config = w.host.job.config
    <2> SUFFICES ASSUME w.host.job.config # NoConfig PROVE d.config = w.host.job.config
        OBVIOUS
    <2>1. w.dev.config = w.host.job.config /\ w.host.job.config \in Configs
        BY <1>2, HostTypes DEF ConfigCopied
    <2> QED BY <1>7, <2>1, ConfigMovedIs
<1>9. CASE failing = "output"
    <2>1. r = Short(Fails(Both(h, d)))
        BY <1>1, <1>3, <1>7, <1>9 DEF DeviceMakeOutput
    <2>2. PICK e : e = [d EXCEPT !.whole = FALSE]
        OBVIOUS
    <2>3. r.host = Failed(h) /\ r.dev = e
        BY <2>1, <2>2, ShortFailsIs, BothIs
    <2>4. /\ DeviceSound(e) /\ ~e.whole /\ e.ready = d.ready
          /\ e.particles = d.particles /\ e.line = d.line
        BY <1>7, <2>2, ShortIs
    <2>5. /\ HostSound(r.host) /\ r.host.job = h.job /\ r.host.lines = h.lines
          /\ r.host.buffers = h.buffers /\ ~Works(r)
        BY <1>5, <2>3, HostFailedIs DEF Works
    <2>6. SameLines(r.host, w.host)
        BY <1>5, <2>5 DEF SameLines
    <2> QED BY <1>1, <1>5, <1>7, <2>3, <2>4, <2>5, <2>6 DEF BothSound, Kept, SameArguments
<1>10. CASE failing # "output"
    <2> DEFINE b == w.host.job.output
    <2>1. b \in Buffers /\ w.host.buffers[b] \in Seq(Objects)
        BY <1>2, HostTypes, WorldTypes DEF HasOutput
    <2>2. PICK objects \in Seq(Objects) :
            objects = OnDevice(w.host.buffers[b]) /\ Placed(objects, DeviceMemory)
        BY <2>1, OnDeviceIs
    <2>3. PICK e : e = [d EXCEPT !.output = b, !.objects = objects]
        OBVIOUS
    <2>4. f.host = h /\ f.dev = d
        BY <1>7, BothIs
    <2>5. r = Both(h, e)
        BY <1>1, <1>3, <1>10, <2>2, <2>3, <2>4 DEF DeviceMakeOutput
    <2>6. d \in Devices
        BY <1>7, DeviceTypes
    <2>7. /\ e \in Devices /\ e.output = b /\ e.objects = objects
          /\ e.ready = d.ready /\ e.whole = d.whole /\ e.config = d.config
          /\ e.particles = d.particles /\ e.line = d.line /\ e.turn = d.turn
          /\ e.monitors = d.monitors
        BY <2>1, <2>3, <2>6 DEF Devices
    <2>8. DeviceSound(e)
        BY <1>7, <2>2, <2>7 DEF DeviceSound
    <2>9. r.host = h /\ r.dev = e
        BY <2>5, BothIs
    <2>10. BothSound(r) /\ Kept(r, w)
        BY <1>5, <1>7, <2>7, <2>8, <2>9 DEF BothSound, Kept, SameArguments
    <2>11. OutputCopied(r)
        BY <1>5, <1>7, <2>2, <2>7, <2>9 DEF OutputCopied, SameArguments
    <2>12. ConfigCopied(r) /\ NothingLeads(r)
        BY <1>5, <1>7, <1>8, <2>7, <2>9 DEF ConfigCopied, NothingLeads
    <2> QED BY <1>1, <1>5, <2>9, <2>10, <2>11, <2>12
<1> QED BY <1>9, <1>10

\* The configuration and the output of the device follow those of the host.
LEMMA DeviceOutputPreparedIs ==
    ASSUME NEW w, BothSound(w), Works(w), NEW failing, HasOutput(w.host.job),
           Away(w.host.job.config.out_store_addr)
    PROVE  LET r == DevicePrepareOutput(w, failing)
           IN  /\ BothSound(r) /\ Kept(r, w) /\ r.host.job = w.host.job
               /\ r.host.buffers = w.host.buffers /\ SameLines(r.host, w.host)
               /\ Works(r) => /\ OutputCopied(r) /\ ConfigCopied(r) /\ NothingLeads(r)
                              /\ Equipped(w.host) /\ Windows(w.host) => Windows(r.host)
<1>1. PICK r : r = DevicePrepareOutput(w, failing)
    OBVIOUS
<1>2. PICK c : c = DevicePrepareConfig(w, failing)
    OBVIOUS
<1>3. HostSound(w.host)
    BY DEF BothSound
<1>4. /\ DeviceSound(c.dev) /\ Kept(c, w)
      /\ c.host = w.host \/ c.host = Failed(w.host)
      /\ Works(c) => /\ c.host = w.host /\ w.dev.ready /\ ConfigCopied(c)
    BY <1>2, DeviceConfigIs
<1>5. r = IF Works(c) THEN DeviceMakeOutput(c, failing) ELSE c
    BY <1>1, <1>2 DEF DevicePrepareOutput, AndThen
<1>6. CASE ~Works(c)
    <2>1. /\ HostSound(c.host) /\ c.host.job = w.host.job
          /\ c.host.lines = w.host.lines /\ c.host.buffers = w.host.buffers
        BY <1>3, <1>4, HostFailedIs
    <2>2. SameLines(c.host, w.host)
        BY <2>1, SameLineItself DEF SameLines
    <2> QED BY <1>1, <1>4, <1>5, <1>6, <2>1, <2>2 DEF BothSound
<1>7. CASE Works(c)
    <2>1. c.host = w.host /\ BothSound(c) /\ c.dev.ready /\ ConfigCopied(c)
        BY <1>3, <1>4, <1>7 DEF BothSound, Kept
    <2>2. PICK m : m = DeviceMakeOutput(c, failing)
        OBVIOUS
    <2>3. /\ BothSound(m) /\ Kept(m, c) /\ m.host.job = c.host.job
          /\ m.host.buffers = c.host.buffers /\ SameLines(m.host, c.host)
          /\ Works(m) => /\ OutputCopied(m) /\ ConfigCopied(m) /\ NothingLeads(m)
                         /\ Equipped(c.host) /\ Windows(c.host) => Windows(m.host)
        BY <1>7, <2>1, <2>2, DeviceOutputMadeIs
    <2>4. Kept(m, w)
        BY <1>4, <2>3 DEF Kept
    <2> QED BY <1>1, <1>5, <1>7, <2>1, <2>2, <2>3, <2>4
<1> QED BY <1>6, <1>7

\* An output that is laid out on both sides.
Laid(w) ==
    /\ BothSound(w) /\ Equipped(w.host) /\ Prepared(w.host) /\ OutputCopied(w)

\* Preparing the output on both sides: the host's objects are laid out, the
\* device has a copy of them, and nothing leads there yet.
LEMMA OutputPreparedBothIs ==
    ASSUME NEW w, BothSound(w), Equipped(w.host), NEW output \in Buffers \cup {NoBuffer},
           output = Own => OwnsOutput(w.host.job), NEW until \in Nat, NEW moves \in BOOLEAN,
           NEW failing
    PROVE  LET r == PrepareOutputBoth(w, output, until, moves, failing)
           IN  /\ BothSound(r) /\ Kept(r, w) /\ SameInputs(r.host, w.host)
               /\ Works(r) => /\ Laid(r) /\ ConfigCopied(r) /\ NothingLeads(r)
                              /\ r.host.job.config.out_store_addr = NoAddress
                              /\ SameFlags(r.host, w.host)
<1>1. PICK r : r = PrepareOutputBoth(w, output, until, moves, failing)
    OBVIOUS
<1>2. PICK h : h = w.host /\ HostSound(h) /\ DeviceSound(w.dev)
    BY DEF BothSound
<1>3. /\ h \in Worlds /\ h.job \in Jobs /\ h.lines \in [DOMAIN Lines -> Seq(Monitors)]
      /\ h.buffers \in [Buffers -> Seq(Objects)]
    BY <1>2, HostTypes
<1>4. PICK g : g = [h EXCEPT !.status = "success"]
    OBVIOUS
<1>5. g = World(h.job, h.lines, h.buffers, "success")
    BY <1>3, <1>4 DEF World, Worlds
<1>6. /\ g \in Worlds /\ g.job = h.job /\ g.lines = h.lines /\ g.buffers = h.buffers
      /\ g.status = "success"
    BY <1>3, <1>5, WorldMade
<1>7. /\ Sound(g) /\ Succeeds(g) /\ Equipped(g) /\ Steady(g) /\ Scheduled(g)
      /\ ExtentsOK(g.job.extents)
    BY <1>2, <1>6 DEF HostSound, Steady, Sound, Succeeds, Equipped, ConfigLive, OffsetIn, HasRoom,
                      HasOutput, OwnsOutput, Scheduled
<1>8. PICK p : p = PrepareOutput(g, output, until, moves)
    OBVIOUS
<1>9. /\ ~Succeeds(p) => p = Failed(g)
      /\ Succeeds(p) => /\ Sound(p) /\ LaidOut(p) /\ SameInputs(p, g)
                        /\ SameFlags(p, g) /\ SameLines(p, g)
    BY <1>2, <1>6, <1>7, <1>8, PrepareOutputIs
<1>10. PICK b : b = Both(p, w.dev)
    OBVIOUS
<1>11. b.host = p /\ b.dev = w.dev
    BY <1>10, BothIs
<1>12. r = IF Succeeds(p) THEN DevicePrepareOutput(b, failing) ELSE b
    BY <1>1, <1>2, <1>4, <1>8, <1>10, <1>11 DEF PrepareOutputBoth, AndThen, Works
<1>13. CASE ~Succeeds(p)
    <2>1. HostSound(g)
        BY <1>7 DEF HostSound
    <2>2. HostSound(p) /\ p.job = g.job
        BY <1>9, <1>13, <2>1, HostFailedIs
    <2> QED BY <1>1, <1>2, <1>6, <1>11, <1>12, <1>13, <2>2 DEF BothSound, Kept, SameInputs, Works
<1>14. CASE Succeeds(p)
    <2>1. /\ HostSound(p) /\ Equipped(p) /\ HasOutput(p.job) /\ Windows(p) /\ OffsetIn(p)
          /\ p.job.config.out_store_addr = NoAddress
          /\ p.job.config # NoConfig => p.job.elem_offset < p.job.monitor_offset
        <3>1. Steady(p)
            BY <1>9, <1>14 DEF Steady, ConfigLive, OffsetIn, LaidOut
        <3>2. Scheduled(p)
            BY <1>7, <1>9, <1>14, StaysScheduled
        <3>3. Equipped(p)
            BY <1>7, <1>9, <1>14, SameInputsEquipped
        <3> QED BY <1>9, <1>14, <3>1, <3>2, <3>3 DEF HostSound, LaidOut, Equipped
    <2>2. BothSound(b) /\ Works(b)
        BY <1>2, <1>11, <1>14, <2>1 DEF BothSound, Works
    <2>3. Away(p.job.config.out_store_addr)
        BY <2>1, AwayIs
    <2>4. /\ BothSound(r) /\ Kept(r, b) /\ r.host.job = p.job
          /\ r.host.buffers = p.buffers /\ SameLines(r.host, p)
          /\ Works(r) => /\ OutputCopied(r) /\ ConfigCopied(r) /\ NothingLeads(r)
                         /\ Windows(r.host)
        BY <1>11, <1>12, <1>14, <2>1, <2>2, <2>3, DeviceOutputPreparedIs
    <2>5. SameInputs(r.host, w.host) /\ SameFlags(r.host, w.host) /\ Kept(r, w)
        BY <1>2, <1>6, <1>9, <1>11, <1>14, <2>4 DEF SameInputs, SameFlags, Kept
    <2>6. Works(r) => Laid(r)
        BY <2>1, <2>4 DEF Laid, Prepared, Equipped, ConfigLive, OffsetIn
    <2> QED BY <1>1, <2>1, <2>4, <2>5, <2>6
<1> QED BY <1>13, <1>14

-----------------------------------------------------------------------------
(* Leading the device to its output.                                       *)

\* The n-th object of the device is there and has room.
DeviceRoom(d, n, num_particles) ==
    n \in DOMAIN d.objects /\ d.objects[n].size >= num_particles

\* The configuration of the device leads to the object that is at the place
\* the host reports.
ConfigLed(w) ==
    w.host.job.config.out_store_addr # NoAddress =>
        /\ w.dev.config.out_store_addr = Address(DeviceMemory, w.host.job.elem_offset + 1)
        /\ DeviceRoom(w.dev, w.host.job.elem_offset + 1,
                      OutStoreNumParticles(w.host.job.config))

ConfigThere(w) == w.host.job.config # NoConfig => w.dev.config # NoConfig

\* An address is no part of what a configuration stores.
LEMMA AddressStoresNothing ==
    ASSUME NEW c \in Configs, NEW addr \in Nat
    PROVE  /\ [c EXCEPT !.out_store_addr = addr] \in Configs
           /\ OutStoreNumParticles([c EXCEPT !.out_store_addr = addr]) = OutStoreNumParticles(c)
           /\ addr # NoAddress => [c EXCEPT !.out_store_addr = addr] # NoConfig
<1>1. PICK e : e = [c EXCEPT !.out_store_addr = addr]
    OBVIOUS
<1>2. /\ e \in Configs /\ e.out_store_addr = addr
      /\ OutStoreNumParticles(e) = OutStoreNumParticles(c)
    BY <1>1 DEF Configs, OutStoreNumParticles
<1>3. NoConfig.out_store_addr = NoAddress
    BY DEF NoConfig, Preset, EmptyConfig
<1> QED BY <1>1, <1>2, <1>3

\* The host of a call that changed nothing but the job's output stays sound.
LEMMA StaysHostSound ==
    ASSUME NEW h, HostSound(h), NEW r, Sound(r), Prepared(r), SameInputs(r, h), SameLines(r, h)
    PROVE  HostSound(r)
    BY StaysScheduled DEF HostSound, Steady, Prepared, SameInputs

\* Leading both configurations to the first object; the device's kernel
\* reports nothing, but finds room where the host found it.
LEMMA ConfigAssignedBothIs ==
    ASSUME NEW w, Laid(w), Works(w), ConfigCopied(w)
    PROVE  LET r == AssignConfigBoth(w)
           IN  /\ BothSound(r) /\ Kept(r, w) /\ SameInputs(r.host, w.host)
               /\ SameOutput(r.host, w.host) /\ r.host.lines = w.host.lines
               /\ r.host.job.monitor_output = w.host.job.monitor_output
               /\ r.dev.monitors = w.dev.monitors /\ r.dev.stray = w.dev.stray
               /\ r.dev.objects = w.dev.objects
               /\ Works(r) => Laid(r) /\ ConfigLed(r) /\ ConfigThere(r)
<1>1. PICK r : r = AssignConfigBoth(w)
    OBVIOUS
<1>2. PICK h : h = w.host
    OBVIOUS
<1>3. /\ HostSound(h) /\ Equipped(h) /\ Prepared(h) /\ Sound(h) /\ Succeeds(h)
    BY <1>2 DEF Laid, BothSound, HostSound, Steady, Works
<1>4. PICK a : a = AssignConfigOutput(h)
    OBVIOUS
<1>5. /\ Sound(a) /\ Prepared(a) /\ SameInputs(a, h) /\ SameLines(a, h)
      /\ SameOutput(a, h) /\ a.lines = h.lines
      /\ a.job.monitor_output = h.job.monitor_output
      /\ \E addr \in Nat : a.job.config = [h.job.config EXCEPT !.out_store_addr = addr]
      /\ Succeeds(a) => HasRoom(a, h.job.elem_offset + 1, OutStoreNumParticles(h.job.config))
    BY <1>3, <1>4, AssignConfigOutputIs
<1>6. HostSound(a) /\ Equipped(a)
    BY <1>3, <1>5, StaysHostSound, SameInputsEquipped
<1>7. PICK d : d = w.dev /\ DeviceSound(d)
    BY DEF Laid, BothSound
<1>8. PICK b : b = Both(a, d) /\ b.host = a /\ b.dev = d
    BY BothIs
<1>9. r = IF Succeeds(a) THEN DeviceAssignConfig(b) ELSE b
    BY <1>1, <1>2, <1>4, <1>7, <1>8 DEF AssignConfigBoth, AndThen, OnHost, Works
<1>10. ASSUME NEW e, DeviceSound(e), SameArguments(e, d), e.monitors = d.monitors,
              e.stray = d.stray, e.objects = d.objects, e.output = d.output,
              NEW g, r = Both(g, e), g = a \/ g = Failed(a),
              g = a /\ Succeeds(a) => ConfigLed(r) /\ ConfigThere(r)
       PROVE  /\ BothSound(r) /\ Kept(r, w) /\ SameInputs(r.host, w.host)
              /\ SameOutput(r.host, w.host) /\ r.host.lines = w.host.lines
              /\ r.host.job.monitor_output = w.host.job.monitor_output
              /\ r.dev.monitors = w.dev.monitors /\ r.dev.stray = w.dev.stray
              /\ r.dev.objects = w.dev.objects
              /\ Works(r) => Laid(r) /\ ConfigLed(r) /\ ConfigThere(r)
    <2>1. r.host = g /\ r.dev = e
        BY <1>10, BothIs
    <2>2. /\ HostSound(g) /\ g.job = a.job /\ g.lines = a.lines /\ g.buffers = a.buffers
          /\ Succeeds(g) => g = a
        BY <1>6, <1>10, HostFailedIs
    <2>3. BothSound(r) /\ Kept(r, w)
        BY <1>7, <1>10, <2>1, <2>2 DEF BothSound, Kept, SameArguments
    <2>4. SameInputs(r.host, w.host) /\ SameOutput(r.host, w.host)
        BY <1>2, <1>5, <2>1, <2>2 DEF SameInputs, SameOutput
    <2>5. ASSUME Works(r) PROVE Laid(r)
        <3>1. g = a
            BY <2>1, <2>2, <2>5 DEF Works
        <3>2. OutputCopied(r)
            BY <1>2, <1>5, <1>7, <1>10, <2>1, <3>1 DEF OutputCopied, Laid, SameOutput, SameArguments
        <3> QED BY <1>5, <1>6, <2>1, <2>3, <3>1, <3>2 DEF Laid
    <2> QED BY <1>2, <1>5, <1>7, <1>10, <2>1, <2>2, <2>3, <2>4, <2>5 DEF Works
<1>11. SameArguments(d, d)
    BY DEF SameArguments
<1>12. CASE ~Succeeds(a)
    <2>1. r = Both(a, d)
        BY <1>8, <1>9, <1>12
    <2> QED BY <1>1, <1>7, <1>10, <1>11, <1>12, <2>1
<1>13. CASE Succeeds(a) /\ ~(/\ a.job.elem_output /\ d.config # NoConfig
                             /\ DeviceOutputNamed(b, a.job.elem_offset))
    <2>1. r = Fails(b)
        BY <1>8, <1>9, <1>13 DEF DeviceAssignConfig
    <2>2. r = Both(Failed(a), d)
        BY <1>8, <2>1 DEF Fails
    <2>3. Failed(a) # a
        BY <1>6, <1>13, HostFailedIs
    <2> QED BY <1>1, <1>7, <1>10, <1>11, <2>2, <2>3
<1>14. CASE Succeeds(a) /\ d.config # NoConfig /\ DeviceOutputNamed(b, a.job.elem_offset)
            /\ a.job.elem_output
    <2> DEFINE at == a.job.elem_offset + 1
               o == d.objects[at]
    <2>1. h.job.config # NoConfig
        <3> SUFFICES ASSUME h.job.config = NoConfig PROVE FALSE
            OBVIOUS
        <3>1. a = Failed(h)
            BY <1>4 DEF AssignConfigOutput
        <3> QED BY <1>3, <1>14, <3>1, HostFailedIs
    <2>2. d.config = h.job.config /\ h.job.config \in Configs
        BY <1>2, <1>3, <1>7, <2>1, HostTypes DEF ConfigCopied
    <2>3. PICK size \in Nat : size = OutStoreNumParticles(h.job.config)
        BY <2>2, OutStoreTyped
    <2>4. OutStoreNumParticles(a.job.config) = size
        BY <1>5, <2>2, <2>3, AddressStoresNothing
    <2>5. /\ h.buffers[h.job.output] \in Seq(Objects)
          /\ d.objects = OnDevice(h.buffers[h.job.output])
        <3>1. h.job.output \in Buffers /\ h.buffers \in [Buffers -> Seq(Objects)]
            BY <1>3, HostTypes, WorldTypes DEF Prepared, HasOutput
        <3> QED BY <1>2, <1>7, <3>1 DEF Laid, OutputCopied
    <2>6. PICK objects \in Seq(Objects) :
            objects = h.buffers[h.job.output] /\ d.objects = OnDevice(objects)
        BY <2>5
    <2>7. at \in DOMAIN objects /\ objects[at].size >= size
        BY <1>5, <1>14, <2>3, <2>6 DEF HasRoom, SameOutput
    <2>8. at \in DOMAIN d.objects /\ o.size >= size /\ o.addr = Address(DeviceMemory, at)
          /\ o \in Objects
        <3>1. /\ DOMAIN d.objects = DOMAIN objects /\ d.objects[at].size = objects[at].size
              /\ d.objects \in Seq(Objects) /\ Placed(d.objects, DeviceMemory)
            BY <2>6, <2>7, OnDeviceIs
        <3> QED BY <2>7, <3>1 DEF Placed
    <2>9. ~(o.size < OutStoreNumParticles(d.config))
        <3>1. o.size \in Nat
            BY <2>8 DEF Objects
        <3> QED BY <2>2, <2>3, <2>8, <3>1
    <2>10. PICK addr \in Nat : addr = o.addr /\ addr # NoAddress
        BY <2>8 DEF Objects, NoAddress
    <2> HIDE DEF o
    <2>11. r = Both(a, [d EXCEPT !.config = [d.config EXCEPT !.out_store_addr = addr]])
        <3>1. r = DeviceAssignConfig(b)
            BY <1>9, <1>14
        <3>2. DeviceAssignConfig(b)
                = Both(a, [d EXCEPT !.config = [d.config EXCEPT !.out_store_addr = o.addr]])
            BY <1>8, <1>14, <2>9 DEF DeviceAssignConfig, o
        <3> QED BY <2>10, <3>1, <3>2
    <2>12. PICK c \in Configs : /\ c = [d.config EXCEPT !.out_store_addr = addr]
                                /\ c # NoConfig /\ c.out_store_addr = addr
        <3>1. [d.config EXCEPT !.out_store_addr = addr] \in Configs
            BY <2>2, AddressStoresNothing
        <3>2. [d.config EXCEPT !.out_store_addr = addr] # NoConfig
            BY <2>2, <2>10, AddressStoresNothing
        <3>3. [d.config EXCEPT !.out_store_addr = addr].out_store_addr = addr
            BY <2>2 DEF Configs
        <3> QED BY <3>1, <3>2, <3>3
    <2>13. PICK e : e = [d EXCEPT !.config = c]
        OBVIOUS
    <2>14. d \in Devices
        BY <1>7, DeviceTypes
    <2>15. /\ e \in Devices /\ e.config = c /\ SameArguments(e, d) /\ e.turn = d.turn
           /\ e.monitors = d.monitors /\ e.stray = d.stray /\ e.objects = d.objects
           /\ e.output = d.output
        BY <2>13, <2>14 DEF Devices, SameArguments
    <2>16. DeviceSound(e)
        BY <1>7, <2>15 DEF DeviceSound, SameArguments
    <2>17. r = Both(a, e)
        BY <2>11, <2>12, <2>13
    <2>18. r.host = a /\ r.dev = e
        BY <2>17, BothIs
    <2>19. ConfigLed(r) /\ ConfigThere(r)
        BY <2>4, <2>8, <2>10, <2>12, <2>15, <2>18 DEF ConfigLed, ConfigThere, DeviceRoom, o
    <2> QED BY <1>1, <1>10, <2>15, <2>16, <2>17, <2>19
<1> QED BY <1>12, <1>13, <1>14

\* The monitors of the device with turns ahead of them, and their objects.
DeviceWatching(w) ==
    {i \in DOMAIN w.dev.monitors : IsPrepared(w.dev.monitors[i], w.host.job.extents.min_turn)}
DeviceObjectOf(w, i) ==
    w.host.job.monitor_offset + Cardinality({k \in DeviceWatching(w) : k <= i})

\* How many ids the particles of a job have, and a monitor that knows no more.
IdsOf(w) == w.host.job.extents.max_particle_id - w.host.job.extents.min_particle_id + 1
Ranged(w) ==
    \A i \in DeviceWatching(w) :
        /\ 0 < ParticlesPerTurn(w.dev.monitors[i])
        /\ ParticlesPerTurn(w.dev.monitors[i]) <= IdsOf(w)

\* The monitors of the device lead to the objects in their order.
MonitorsLed(w) ==
    (~w.dev.stray /\ Ranged(w)) =>
        \A i \in DeviceWatching(w) :
            /\ w.dev.monitors[i].out_address = Address(DeviceMemory, DeviceObjectOf(w, i))
            /\ DeviceRoom(w.dev, DeviceObjectOf(w, i), IdsOf(w) * w.dev.monitors[i].num_stores)

\* A monitor that leads to the device leads to an object with room for it.
FitsIn(m, d) ==
    PointsTo(m.out_address, DeviceMemory) =>
        \E n \in DOMAIN d.objects : /\ d.objects[n].addr = m.out_address
                                    /\ d.objects[n].size >= StoredNumParticles(m)
AllFit(w) ==
    /\ \A i \in DOMAIN w.dev.monitors : FitsIn(w.dev.monitors[i], w.dev)
    /\ \A k \in DOMAIN Lines : \A i \in DOMAIN w.host.lines[k] : FitsIn(w.host.lines[k][i], w.dev)

\* Monitors with anything to store were led somewhere.
MonitorFlag(w) == NeedsMonitors(LineOf(w.host)) => w.host.job.monitor_output

HasInputs(w) == w.host.job.particles # None /\ w.host.job.line # None

\* The arguments of a set-up that made all of them.
Named(w) ==
    w.dev.whole =>
        /\ w.dev.ready /\ HasInputs(w)
        /\ w.dev.particles = w.host.job.particles /\ w.dev.line = w.host.job.line
        /\ w.host.job.elem_output \/ w.host.job.monitor_output =>
               w.dev.output = w.host.job.output
        /\ w.host.job.elem_output => ConfigThere(w)

\* What a set-up that reports success leaves.
Done(w) ==
    /\ Named(w) /\ AllFit(w)
    /\ HasInputs(w) => MonitorsLed(w) /\ ConfigLed(w) /\ MonitorFlag(w)

\* The inductive invariant.
Present == Both(Current, dev)
DInv ==
    /\ TurnsTyped /\ BothSound(Present) /\ Agree(Present) /\ Bounded(Current)
    /\ job.usable => Done(Present)

\* The object that the rank of a monitor among those with turns ahead names.
ObjectFor(line, first, offset, i) ==
    offset + Cardinality({k \in {j \in DOMAIN line : IsPrepared(line[j], first)} : k <= i})

\* A line whose monitors know no more ids than those of another with the same
\* schedules is led to objects of the same sizes just as that one is.
LEMMA CopiedLineLed ==
    ASSUME NEW line \in Seq(Monitors), NEW other \in Seq(Monitors), SameLine(line, other),
           NEW objects \in Seq(Objects), NEW copies \in Seq(Objects),
           DOMAIN copies = DOMAIN objects,
           \A n \in DOMAIN objects : copies[n].size = objects[n].size,
           NEW first \in Int, NEW offset \in Nat, NEW ids \in Nat \ {0},
           \A i \in DOMAIN other : IsPrepared(other[i], first) => ParticlesPerTurn(other[i]) = ids,
           \A i \in DOMAIN line : IsPrepared(line[i], first) =>
               0 < ParticlesPerTurn(line[i]) /\ ParticlesPerTurn(line[i]) <= ids,
           Reaches(other, objects, first, offset, Len(other))
    PROVE  \A i \in DOMAIN line : IsPrepared(line[i], first) =>
              LET n == ObjectFor(line, first, offset, i)
              IN  /\ n \in DOMAIN copies
                  /\ AssignMonitors(line, copies, first, offset).line[i].out_address = copies[n].addr
                  /\ ids * line[i].num_stores <= copies[n].size
<1>1. PICK len \in Nat : /\ len = Len(line) /\ DOMAIN line = 1 .. len
                         /\ len = Len(other) /\ DOMAIN other = 1 .. len
    BY DEF SameLine
<1>2. PICK most \in Nat : /\ most = Len(objects) /\ DOMAIN objects = 1 .. most
                          /\ most = Len(copies) /\ DOMAIN copies = 1 .. most
    OBVIOUS
<1>3. ASSUME NEW i \in 1 .. len
      PROVE  /\ line[i] \in Monitors /\ other[i] \in Monitors
             /\ line[i].num_stores = other[i].num_stores /\ line[i].num_stores \in Nat
             /\ ParticlesPerTurn(line[i]) \in Int /\ ParticlesPerTurn(other[i]) \in Int
             /\ IsPrepared(line[i], first) <=> IsPrepared(other[i], first)
             /\ Takes(line[i], first) <=> IsPrepared(line[i], first)
             /\ Takes(other[i], first) <=> IsPrepared(line[i], first)
    <2>1. line[i] \in Monitors /\ other[i] \in Monitors
        BY <1>1
    <2>2. line[i].num_stores = other[i].num_stores /\ line[i].start = other[i].start
        BY <1>1 DEF SameLine, SameSchedule
    <2>3. /\ ParticlesPerTurn(line[i]) \in Int /\ ParticlesPerTurn(other[i]) \in Int
          /\ line[i].num_stores \in Nat
        <3>1. \A m \in Monitors : ParticlesPerTurn(m) \in Int /\ m.num_stores \in Nat
            BY DEF ParticlesPerTurn, Monitors
        <3> QED BY <2>1, <3>1
    <2>4. IsPrepared(line[i], first) <=> IsPrepared(other[i], first)
        BY <2>2 DEF IsPrepared
    <2> QED BY <1>1, <2>1, <2>2, <2>3, <2>4 DEF Takes
<1> DEFINE P == {j \in DOMAIN line : IsPrepared(line[j], first)}
           Before(i) == {k \in P : k < i}
           Until(i)  == {k \in P : k <= i}
<1>4. ASSUME NEW i \in 1 .. len
      PROVE  /\ NextObject(line, first, offset, i) = offset + 1 + Cardinality(Before(i))
             /\ NextObject(other, first, offset, i) = offset + 1 + Cardinality(Before(i))
             /\ Cardinality(Before(i)) \in Nat
             /\ i \in P => Cardinality(Until(i)) = Cardinality(Before(i)) + 1
    <2>1. {k \in DOMAIN line : k < i /\ Takes(line[k], first)} = Before(i)
        BY <1>1, <1>3
    <2>2. {k \in DOMAIN other : k < i /\ Takes(other[k], first)} = Before(i)
        BY <1>1, <1>3
    <2>3. P \subseteq 1 .. len /\ Before(i) \subseteq 1 .. len
        BY <1>1
    <2>4. Cardinality(Before(i)) \in Nat
        BY <2>3, PositionsFinite
    <2> HIDE DEF P
    <2>5. i \in P => Cardinality(Until(i)) = Cardinality(Before(i)) + 1
        BY <2>3, CountedOnce
    <2> QED BY <2>1, <2>2, <2>4, <2>5 DEF NextObject
<1> HIDE DEF P, Before
<1>5. ASSUME NEW i \in 1 .. len
      PROVE  Passes(line, copies, first, offset, i)
    <2>1. Passes(other, objects, first, offset, i)
        BY <1>1, <1>5 DEF Reaches
    <2>2. PICK n \in Nat : /\ n = NextObject(line, first, offset, i)
                           /\ n = NextObject(other, first, offset, i) /\ n >= 1
        <3>1. PICK c \in Nat : c = Cardinality(Before(i))
            BY <1>4
        <3>2. offset + 1 + c \in Nat /\ offset + 1 + c >= 1
            OBVIOUS
        <3> QED BY <1>4, <3>1, <3>2
    <2>3. n \in 1 .. most
        BY <1>2, <2>1, <2>2 DEF Passes
    <2>4. ASSUME IsPrepared(line[i], first)
          PROVE  ParticlesPerTurn(line[i]) * line[i].num_stores <= copies[n].size
        <3>1. ids * line[i].num_stores <= objects[n].size
            BY <1>1, <1>3, <2>1, <2>2, <2>4 DEF Passes
        <3>2. PICK p \in Int, s \in Nat : p = ParticlesPerTurn(line[i]) /\ s = line[i].num_stores
            BY <1>3
        <3>3. p <= ids
            BY <1>1, <1>3, <2>4, <3>2
        <3>4. p * s <= ids * s
            BY <3>3
        <3>5. objects[n].size \in Nat /\ copies[n].size = objects[n].size
            <4>1. objects[n] \in Objects
                BY <1>2, <2>3
            <4>2. objects[n].size \in Nat
                BY <4>1 DEF Objects
            <4> QED BY <1>2, <2>3, <4>2
        <3>6. p * s \in Int /\ ids * s \in Int
            OBVIOUS
        <3> QED BY <3>1, <3>2, <3>4, <3>5, <3>6
    <2> QED BY <1>2, <1>3, <2>2, <2>3, <2>4 DEF Passes
<1>6. Reaches(line, copies, first, offset, Len(line))
    BY <1>1, <1>5 DEF Reaches
<1> SUFFICES ASSUME NEW i \in DOMAIN line, IsPrepared(line[i], first)
             PROVE  LET n == offset + Cardinality(Until(i))
                    IN  /\ n \in DOMAIN copies
                        /\ AssignMonitors(line, copies, first, offset).line[i].out_address
                             = copies[n].addr
                        /\ ids * line[i].num_stores <= copies[n].size
    BY DEF P, ObjectFor
<1>7. i \in 1 .. len /\ i \in P /\ Takes(line[i], first)
    BY <1>1, <1>3 DEF P
<1>8. PICK n \in Nat : /\ n = NextObject(line, first, offset, i)
                       /\ n = NextObject(other, first, offset, i)
                       /\ n = offset + Cardinality(Until(i)) /\ n >= 1
    <2> HIDE DEF Until
    <2>1. PICK c \in Nat : c = Cardinality(Before(i)) /\ Cardinality(Until(i)) = c + 1
        BY <1>4, <1>7 DEF Until
    <2>2. offset + 1 + c \in Nat /\ offset + (c + 1) = offset + 1 + c /\ offset + 1 + c >= 1
        OBVIOUS
    <2> QED BY <1>4, <1>7, <2>1, <2>2
<1>9. /\ n \in DOMAIN copies
      /\ AssignMonitors(line, copies, first, offset).line[i].out_address = copies[n].addr
    <2>1. PICK a : a = AssignMonitors(line, copies, first, offset)
        OBVIOUS
    <2>2. a.status = "success"
        BY <1>6, <2>1, AssignMonitorsIs
    <2>3. /\ NextObject(line, first, offset, i) \in DOMAIN copies
          /\ a.line[i].out_address = copies[NextObject(line, first, offset, i)].addr
        BY <1>7, <2>1, <2>2, AssignMonitorsIs
    <2> QED BY <1>8, <2>1, <2>3
<1>10. ids * line[i].num_stores <= copies[n].size
    <2>1. Passes(other, objects, first, offset, i)
        BY <1>1, <1>7 DEF Reaches
    <2>2. Takes(other[i], first) /\ ParticlesPerTurn(other[i]) = ids
        BY <1>1, <1>3, <1>7
    <2>3. ParticlesPerTurn(other[i]) * other[i].num_stores <= objects[n].size
        BY <1>8, <2>1, <2>2 DEF Passes
    <2> QED BY <1>2, <1>3, <1>7, <1>9, <2>2, <2>3
<1> QED BY <1>8, <1>9, <1>10

\* A monitor that was led to an object of the device fits.
LEMMA LedFits ==
    ASSUME NEW m \in Monitors, NEW d, d.objects \in Seq(Objects), LedTo(m, d.objects)
    PROVE  FitsIn(m, d)
<1>1. PICK n \in DOMAIN d.objects : /\ m.out_address = d.objects[n].addr
                                    /\ ParticlesPerTurn(m) * m.num_stores <= d.objects[n].size
    BY DEF LedTo
<1>2. d.objects[n] \in Objects
    BY <1>1
<1>3. d.objects[n].size \in Nat
    BY <1>2 DEF Objects
<1>4. StoredNumParticles(m) = ParticlesPerTurn(m) * m.num_stores \/ StoredNumParticles(m) = 0
    BY DEF StoredNumParticles
<1>5. d.objects[n].size >= StoredNumParticles(m)
    <2>1. ParticlesPerTurn(m) \in Int /\ m.num_stores \in Nat
        BY DEF ParticlesPerTurn, Monitors
    <2>2. ParticlesPerTurn(m) * m.num_stores \in Int
        BY <2>1
    <2> QED BY <1>1, <1>3, <1>4, <2>2
<1> QED BY <1>1, <1>5 DEF FitsIn

\* One that was led to an object of the host does not lead to the device.
LEMMA LedAway ==
    ASSUME NEW h, HostSound(h), Bounded(h), HasOutput(h.job), NEW m,
           LedTo(m, h.buffers[h.job.output])
    PROVE  Away(m.out_address)
<1>1. PICK b \in Buffers : b = h.job.output
    BY HostTypes, WorldTypes DEF HasOutput
<1>2. PICK objects \in Seq(Objects) : objects = h.buffers[b]
    BY HostTypes
<1>3. PICK n \in DOMAIN objects : m.out_address = objects[n].addr
    BY <1>1, <1>2 DEF LedTo
<1>4. objects[n].addr = Address(b, n)
    BY <1>2, <1>3 DEF HostSound, Steady, Sound, Placed
<1>5. n \in 1 .. MaxObjects
    <2>1. Len(objects) <= MaxObjects /\ MaxObjects \in Nat /\ Len(objects) \in Nat
        BY <1>2, Given DEF Bounded
    <2>2. n \in 1 .. Len(objects)
        BY <1>3
    <2> QED BY <2>1, <2>2
<1> QED BY <1>3, <1>4, <1>5, AwayIs

\* The monitors of the host and of the device are led to the output of each; if
\* that succeeds, those of the device lead to the objects the host reports.
LEMMA MonitorsAssignedBothIs ==
    ASSUME NEW w, Laid(w), Works(w)
    PROVE  LET r == AssignMonitorsBoth(w)
           IN  /\ BothSound(r) /\ Kept(r, w) /\ SameInputs(r.host, w.host)
               /\ SameOutput(r.host, w.host) /\ r.host.job.config = w.host.job.config
               /\ r.dev.config = w.dev.config /\ r.dev.objects = w.dev.objects
               /\ AllFit(w) /\ Bounded(w.host) => AllFit(r)
               /\ Works(r) => Laid(r) /\ r.host.job.monitor_output
               /\ Works(r) /\ w.dev.line = w.host.job.line => MonitorsLed(r)
<1>1. PICK r : r = AssignMonitorsBoth(w)
    OBVIOUS
<1>2. PICK h : h = w.host
    OBVIOUS
<1>3. /\ HostSound(h) /\ Equipped(h) /\ Prepared(h) /\ Sound(h) /\ Succeeds(h)
    BY <1>2 DEF Laid, BothSound, HostSound, Steady, Works
<1>4. PICK a : a = AssignMonitorOutput(h)
    OBVIOUS
<1>5. /\ Sound(a) /\ Prepared(a) /\ SameInputs(a, h) /\ SameLines(a, h)
      /\ SameOutput(a, h) /\ a.job.config = h.job.config
      /\ \A k \in DOMAIN Lines : \A i \in DOMAIN h.lines[k] :
            a.lines[k][i] = h.lines[k][i] \/ LedTo(a.lines[k][i], h.buffers[h.job.output])
      /\ Succeeds(a) =>
            /\ a.job.monitor_output
            /\ Reaches(LineOf(h), h.buffers[h.job.output], h.job.extents.min_turn,
                       h.job.monitor_offset, Len(LineOf(h)))
    BY <1>3, <1>4, AssignMonitorOutputIs
<1>6. HostSound(a) /\ Equipped(a)
    BY <1>3, <1>5, StaysHostSound, SameInputsEquipped
<1>7. PICK d : d = w.dev /\ DeviceSound(d)
    BY DEF Laid, BothSound
<1>8. PICK b : b = Both(a, d) /\ b.host = a /\ b.dev = d
    BY BothIs
<1>9. r = IF Succeeds(a) THEN DeviceAssignMonitors(b) ELSE b
    BY <1>1, <1>2, <1>4, <1>7, <1>8 DEF AssignMonitorsBoth, AndThen, OnHost, Works
<1>10. ASSUME NEW e, DeviceSound(e), SameArguments(e, d), e.config = d.config,
              e.objects = d.objects, e.output = d.output,
              \A i \in DOMAIN e.monitors :
                  \/ i \in DOMAIN d.monitors /\ e.monitors[i] = d.monitors[i]
                  \/ LedTo(e.monitors[i], d.objects),
              NEW g, r = Both(g, e), g = a \/ g = Failed(a),
              g = a /\ Succeeds(a) /\ d.line = h.job.line => MonitorsLed(r)
       PROVE  /\ BothSound(r) /\ Kept(r, w) /\ SameInputs(r.host, w.host)
              /\ SameOutput(r.host, w.host) /\ r.host.job.config = w.host.job.config
              /\ r.dev.config = w.dev.config /\ r.dev.objects = w.dev.objects
              /\ AllFit(w) /\ Bounded(w.host) => AllFit(r)
              /\ Works(r) => Laid(r) /\ r.host.job.monitor_output
              /\ Works(r) /\ w.dev.line = w.host.job.line => MonitorsLed(r)
    <2>1. r.host = g /\ r.dev = e
        BY <1>10, BothIs
    <2>2. /\ HostSound(g) /\ g.job = a.job /\ g.lines = a.lines /\ g.buffers = a.buffers
          /\ Succeeds(g) => g = a
        BY <1>6, <1>10, HostFailedIs
    <2>3. BothSound(r) /\ Kept(r, w)
        BY <1>7, <1>10, <2>1, <2>2 DEF BothSound, Kept, SameArguments
    <2>4. /\ SameInputs(r.host, w.host) /\ SameOutput(r.host, w.host)
          /\ r.host.job.config = w.host.job.config
        BY <1>2, <1>5, <2>1, <2>2 DEF SameInputs, SameOutput
    <2>5. ASSUME Works(r) PROVE Laid(r) /\ r.host.job.monitor_output
        <3>1. g = a /\ Succeeds(a)
            BY <2>1, <2>2, <2>5 DEF Works
        <3>2. OutputCopied(r)
            BY <1>2, <1>5, <1>7, <1>10, <2>1, <3>1 DEF OutputCopied, Laid, SameOutput, SameArguments
        <3> QED BY <1>5, <1>6, <2>1, <2>3, <3>1, <3>2 DEF Laid
    <2>6. ASSUME AllFit(w), Bounded(w.host) PROVE AllFit(r)
        <3>1. ASSUME NEW i \in DOMAIN e.monitors PROVE FitsIn(e.monitors[i], e)
            <4>1. CASE i \in DOMAIN d.monitors /\ e.monitors[i] = d.monitors[i]
                BY <1>7, <1>10, <2>6, <4>1 DEF AllFit, FitsIn
            <4>2. CASE LedTo(e.monitors[i], d.objects)
                <5>1. e.monitors[i] \in Monitors /\ e.objects \in Seq(Objects)
                    BY <1>10, DeviceTypes
                <5> QED BY <1>10, <4>2, <5>1, LedFits
            <4> QED BY <1>10, <4>1, <4>2
        <3>2. ASSUME NEW k \in DOMAIN Lines, NEW i \in DOMAIN g.lines[k]
              PROVE  FitsIn(g.lines[k][i], e)
            <4>1. i \in DOMAIN h.lines[k]
                BY <1>5, <2>2, <3>2 DEF SameLines, SameLine
            <4>2. CASE g.lines[k][i] = h.lines[k][i]
                BY <1>2, <1>7, <1>10, <2>6, <4>1, <4>2 DEF AllFit, FitsIn
            <4>3. CASE LedTo(g.lines[k][i], h.buffers[h.job.output])
                <5>1. Away(g.lines[k][i].out_address)
                    BY <1>2, <1>3, <2>6, <4>3, LedAway DEF Prepared
                <5> QED BY <5>1 DEF FitsIn, Away
            <4> QED BY <1>5, <2>2, <4>1, <4>2, <4>3
        <3> QED BY <2>1, <3>1, <3>2 DEF AllFit
    <2>7. Works(r) /\ w.dev.line = w.host.job.line => MonitorsLed(r)
        BY <1>2, <1>7, <1>10, <2>1, <2>2 DEF Works
    <2>8. r.dev.config = w.dev.config /\ r.dev.objects = w.dev.objects
        BY <1>7, <1>10, <2>1
    <2> QED BY <2>3, <2>4, <2>5, <2>6, <2>7, <2>8
<1>11. SameArguments(d, d)
    BY DEF SameArguments
<1>12. CASE ~Succeeds(a)
    <2>1. r = Both(a, d)
        BY <1>8, <1>9, <1>12
    <2> QED BY <1>1, <1>7, <1>10, <1>11, <1>12, <2>1
<1>13. CASE Succeeds(a) /\ ~(/\ a.job.monitor_output /\ d.line = a.job.line
                             /\ DeviceOutputNamed(b, a.job.monitor_offset))
    <2>1. r = Fails(b)
        BY <1>8, <1>9, <1>13 DEF DeviceAssignMonitors
    <2>2. r = Both(Failed(a), d)
        BY <1>8, <2>1 DEF Fails
    <2>3. Failed(a) # a
        BY <1>6, <1>13, HostFailedIs
    <2> QED BY <1>1, <1>7, <1>10, <1>11, <2>2, <2>3
<1>14. CASE Succeeds(a) /\ a.job.monitor_output /\ d.line = a.job.line
            /\ DeviceOutputNamed(b, a.job.monitor_offset)
    <2> DEFINE first == a.job.extents.min_turn
               offset == a.job.monitor_offset
    <2>1. PICK m : m = AssignMonitors(d.monitors, d.objects, first, offset)
        OBVIOUS
    <2>2. /\ d \in Devices /\ d.monitors \in Seq(Monitors) /\ d.objects \in Seq(Objects)
        BY <1>7, DeviceTypes
    <2>3. /\ a.job.extents \in ExtentSets /\ first \in Int /\ offset \in Nat
          /\ a.job.line \in DOMAIN Lines
        <3>1. a.job.extents \in ExtentSets /\ offset \in Nat
            BY <1>6, HostTypes, WorldTypes
        <3>2. a.job.line \in DOMAIN Lines
            BY <1>6, HostTypes, WorldTypes DEF Equipped
        <3> QED BY <3>1, <3>2 DEF ExtentSets
    <2>4. /\ m.line \in Seq(Monitors) /\ DOMAIN m.line = DOMAIN d.monitors
          /\ \A i \in DOMAIN d.monitors : SameButAddress(m.line[i], d.monitors[i])
          /\ \A i \in DOMAIN d.monitors : m.line[i] = d.monitors[i] \/ LedTo(m.line[i], d.objects)
        BY <2>1, <2>2, <2>3, AssignMonitorsIs
    <2>5. PICK e : e = [d EXCEPT !.stray = FALSE, !.monitors = m.line]
        OBVIOUS
    <2>6. r = Both(a, e)
        <3>1. r = DeviceAssignMonitors(b)
            BY <1>9, <1>14
        <3>2. DeviceAssignMonitors(b) =
                Both(a, [d EXCEPT !.stray = FALSE,
                             !.monitors = AssignMonitors(d.monitors, d.objects, first, offset).line])
            BY <1>8, <1>14, <2>2 DEF DeviceAssignMonitors, Devices
        <3> QED BY <2>1, <2>5, <3>1, <3>2
    <2>7. /\ e \in Devices /\ e.monitors = m.line /\ ~e.stray /\ SameArguments(e, d)
          /\ e.turn = d.turn /\ e.config = d.config /\ e.objects = d.objects
          /\ e.output = d.output
        BY <2>2, <2>4, <2>5 DEF Devices, SameArguments
    <2>8. DeviceSound(e)
        <3>1. SameLine(e.monitors, d.monitors)
            BY <2>4, <2>7 DEF SameLine, SameButAddress
        <3>2. Placed(e.objects, DeviceMemory)
            BY <1>7, <2>7 DEF DeviceSound
        <3> QED BY <1>7, <2>7, <3>1, <3>2, OutputReplaced
    <2>9. r.host = a /\ r.dev = e
        BY <2>6, BothIs
    <2> HIDE DEF first, offset
    <2>10. MonitorsLed(r)
        <3> DEFINE other == LineOf(h)
                   objects == h.buffers[h.job.output]
                   x == h.job.extents
                   ids == x.max_particle_id - x.min_particle_id + 1
        <3>1. /\ first = x.min_turn /\ offset = h.job.monitor_offset /\ a.job.extents = x
              /\ a.job.line = h.job.line
            BY <1>5 DEF SameInputs, SameOutput, first, offset
        <3>2. h.job.line \in DOMAIN Lines /\ other \in Seq(Monitors)
            BY <1>3, HostTypes, WorldTypes DEF Equipped, LineOf
        <3>3. objects \in Seq(Objects) /\ d.objects = OnDevice(objects)
            <4>1. h.job.output \in Buffers /\ h.buffers \in [Buffers -> Seq(Objects)]
                BY <1>3, HostTypes, WorldTypes DEF Prepared, HasOutput
            <4> QED BY <1>2, <1>7, <4>1 DEF Laid, OutputCopied
        <3>4. SameLine(d.monitors, other)
            <4>1. d.line = h.job.line /\ h.job.line # None
                BY <1>3, <1>14, <3>1 DEF Equipped
            <4>2. SameLine(d.monitors, Lines[h.job.line])
                BY <1>7, <4>1 DEF DeviceSound
            <4>3. SameLine(other, Lines[h.job.line])
                BY <1>3, <3>2 DEF HostSound, Scheduled, LineOf
            <4> QED BY <4>2, <4>3 DEF SameLine, SameSchedule
        <3>5. ids \in Nat \ {0} /\ x \in ExtentSets
            <4>1. x \in ExtentSets /\ ExtentsOK(x)
                BY <1>3, HostTypes, WorldTypes DEF Equipped
            <4> QED BY <4>1 DEF ExtentSets, ExtentsOK
        <3>6. \A i \in DOMAIN other : IsPrepared(other[i], first) => ParticlesPerTurn(other[i]) = ids
            BY <1>3, <3>1 DEF Prepared, Windows, Watching, ParticlesPerTurn
        <3>7. Reaches(other, objects, first, offset, Len(other))
            BY <1>5, <1>14, <3>1
        <3>8. ASSUME NEW i \in DOMAIN d.monitors
              PROVE  /\ IsPrepared(m.line[i], first) <=> IsPrepared(d.monitors[i], first)
                     /\ ParticlesPerTurn(m.line[i]) = ParticlesPerTurn(d.monitors[i])
                     /\ m.line[i].num_stores = d.monitors[i].num_stores
            <4>1. SameButAddress(m.line[i], d.monitors[i])
                BY <2>4
            <4> QED BY <4>1 DEF SameButAddress, SameSchedule, IsPrepared, ParticlesPerTurn
        <3>9. /\ DOMAIN d.objects = DOMAIN objects /\ Placed(d.objects, DeviceMemory)
              /\ \A n \in DOMAIN objects : d.objects[n].size = objects[n].size
            BY <3>3, OnDeviceIs
        <3> DEFINE P == {j \in DOMAIN d.monitors : IsPrepared(d.monitors[j], first)}
        <3>10. DeviceWatching(r) = P
            <4>1. DeviceWatching(r) = {j \in DOMAIN m.line : IsPrepared(m.line[j], first)}
                BY <2>7, <2>9 DEF DeviceWatching, first
            <4> QED BY <2>4, <3>8, <4>1
        <3>11. IdsOf(r) = ids
            BY <2>9, <3>1 DEF IdsOf
        <3> HIDE DEF other, objects, ids
        <3> SUFFICES ASSUME Ranged(r), NEW i \in P
                     PROVE  /\ m.line[i].out_address = Address(DeviceMemory, DeviceObjectOf(r, i))
                            /\ DeviceRoom(e, DeviceObjectOf(r, i), ids * m.line[i].num_stores)
            BY <2>7, <2>9, <3>10, <3>11 DEF MonitorsLed
        <3>12. \A k \in DOMAIN d.monitors : IsPrepared(d.monitors[k], first) =>
                   0 < ParticlesPerTurn(d.monitors[k]) /\ ParticlesPerTurn(d.monitors[k]) <= ids
            <4> SUFFICES ASSUME NEW k \in P
                         PROVE  0 < ParticlesPerTurn(d.monitors[k]) /\ ParticlesPerTurn(d.monitors[k]) <= ids
                OBVIOUS
            <4>1. /\ 0 < ParticlesPerTurn(m.line[k])
                  /\ ParticlesPerTurn(m.line[k]) <= IdsOf(r)
                BY <2>7, <2>9, <3>10 DEF Ranged
            <4> QED BY <3>8, <3>11, <4>1
        <3>13. PICK n : n = offset + Cardinality({k \in P : k <= i})
            OBVIOUS
        <3>14. DeviceObjectOf(r, i) = n
            BY <2>9, <3>10, <3>13 DEF DeviceObjectOf, offset
        <3>15. /\ n \in DOMAIN d.objects
               /\ AssignMonitors(d.monitors, d.objects, first, offset).line[i].out_address
                    = d.objects[n].addr
               /\ ids * d.monitors[i].num_stores <= d.objects[n].size
            <4>1. PICK line \in Seq(Monitors), that \in Seq(Monitors), mine \in Seq(Objects),
                       copies \in Seq(Objects), from \in Int, behind \in Nat, most \in Nat \ {0} :
                    /\ line = d.monitors /\ that = other /\ mine = objects /\ copies = d.objects
                    /\ from = first /\ behind = offset /\ most = ids
                BY <2>2, <2>3, <3>2, <3>3, <3>5
            <4>2. /\ SameLine(line, that) /\ DOMAIN copies = DOMAIN mine
                  /\ \A k \in DOMAIN mine : copies[k].size = mine[k].size
                  /\ \A k \in DOMAIN that :
                        IsPrepared(that[k], from) => ParticlesPerTurn(that[k]) = most
                  /\ \A k \in DOMAIN line : IsPrepared(line[k], from) =>
                        0 < ParticlesPerTurn(line[k]) /\ ParticlesPerTurn(line[k]) <= most
                  /\ Reaches(that, mine, from, behind, Len(that))
                BY <3>4, <3>6, <3>7, <3>9, <3>12, <4>1
            <4>3. i \in DOMAIN line /\ IsPrepared(line[i], from)
                  /\ P = {j \in DOMAIN line : IsPrepared(line[j], from)}
                BY <4>1
            <4>4. n = ObjectFor(line, from, behind, i)
                BY <3>13, <4>1 DEF ObjectFor
            <4>5. /\ n \in DOMAIN copies
                  /\ AssignMonitors(line, copies, from, behind).line[i].out_address = copies[n].addr
                  /\ most * line[i].num_stores <= copies[n].size
                <5>1. \A k \in DOMAIN line : IsPrepared(line[k], from) =>
                        LET o == ObjectFor(line, from, behind, k)
                        IN  /\ o \in DOMAIN copies
                            /\ AssignMonitors(line, copies, from, behind).line[k].out_address
                                 = copies[o].addr
                            /\ most * line[k].num_stores <= copies[o].size
                    BY <4>2, CopiedLineLed
                <5> QED BY <4>3, <4>4, <5>1
            <4> QED BY <4>1, <4>5
        <3>16. d.objects[n].addr = Address(DeviceMemory, n)
            BY <3>9, <3>15 DEF Placed
        <3>17. m.line[i].num_stores = d.monitors[i].num_stores
            BY <3>8
        <3>18. PICK size \in Nat, used \in Int :
                   size = d.objects[n].size /\ used = ids * d.monitors[i].num_stores
            <4>1. d.objects[n] \in Objects /\ d.monitors[i] \in Monitors
                BY <2>2, <3>15
            <4>2. d.objects[n].size \in Nat /\ d.monitors[i].num_stores \in Nat
                BY <4>1 DEF Objects, Monitors
            <4> QED BY <3>5, <4>2
        <3>19. DeviceRoom(e, n, ids * m.line[i].num_stores)
            BY <2>7, <3>15, <3>17, <3>18 DEF DeviceRoom
        <3> QED BY <2>1, <3>14, <3>15, <3>16, <3>19
    <2> QED BY <1>1, <1>7, <1>10, <2>4, <2>6, <2>7, <2>8, <2>10
<1> QED BY <1>12, <1>13, <1>14

-----------------------------------------------------------------------------
(* The two steps in either order, each taken if something needs it.        *)

\* What a step keeps: soundness, the inputs and the output.
StepKeeps(r, w) ==
    BothSound(r) /\ Kept(r, w) /\ SameInputs(r.host, w.host) /\ SameOutput(r.host, w.host)

\* No step is one as well, and so are two in a row.
LEMMA StepsKeep ==
    ASSUME NEW w
    PROVE  /\ BothSound(w) => StepKeeps(w, w)
           /\ \A s, r : StepKeeps(s, w) /\ StepKeeps(r, s) => StepKeeps(r, w)
    BY DEF StepKeeps, Kept, SameInputs, SameOutput

\* Where nothing leads to the device everything fits.
LEMMA NothingLeadsFits ==
    ASSUME NEW w, NothingLeads(w)
    PROVE  AllFit(w)
    BY DEF NothingLeads, AwayLines, AwayLine, Away, AllFit, FitsIn

\* A line of monitors without anything to store is led nowhere, and neither is
\* none.
LEMMA NothingWatched ==
    ASSUME NEW w, BothSound(w),
           \/ w.dev.line = None
           \/ /\ w.dev.line = w.host.job.line /\ w.host.job.line \in DOMAIN Lines
              /\ ~NeedsMonitors(LineOf(w.host))
    PROVE  MonitorsLed(w)
<1> SUFFICES ASSUME NEW i \in DeviceWatching(w) PROVE FALSE
    BY DEF MonitorsLed
<1>1. i \in DOMAIN w.dev.monitors /\ w.dev.monitors[i].num_stores > 0
    BY DEF DeviceWatching, IsPrepared
<1>2. CASE w.dev.line = None
    <2>1. w.dev.monitors = <<>>
        BY <1>2 DEF BothSound, DeviceSound
    <2> QED BY <1>1, <2>1
<1>3. CASE /\ w.dev.line = w.host.job.line /\ w.host.job.line \in DOMAIN Lines
           /\ ~NeedsMonitors(LineOf(w.host))
    <2>1. PICK name \in DOMAIN Lines : name = w.host.job.line /\ name # None
        BY <1>3, Given
    <2>2. SameLine(w.dev.monitors, Lines[name]) /\ SameLine(LineOf(w.host), Lines[name])
        BY <1>3, <2>1 DEF BothSound, DeviceSound, HostSound, Scheduled, LineOf
    <2>3. i \in DOMAIN LineOf(w.host) /\ LineOf(w.host)[i].num_stores > 0
        BY <1>1, <2>2 DEF SameLine, SameSchedule
    <2> QED BY <1>3, <2>3 DEF NeedsMonitors
<1> QED BY <1>2, <1>3

\* The monitors are led, if any needs it, and the configuration stays as it is.
LEMMA WatchStepIs ==
    ASSUME NEW s, Laid(s), Works(s), NEW watch \in BOOLEAN
    PROVE  LET r == If(watch, s, AssignMonitorsBoth)
           IN  /\ StepKeeps(r, s)
               /\ ConfigCopied(s) => ConfigCopied(r)
               /\ ConfigLed(s) => ConfigLed(r)
               /\ ConfigThere(s) => ConfigThere(r)
               /\ r.host.job.config = s.host.job.config
               /\ AllFit(s) /\ Bounded(s.host) => AllFit(r)
               /\ Works(r) => Laid(r) /\ (watch => r.host.job.monitor_output)
               /\ Works(r) /\ watch /\ s.dev.line = s.host.job.line => MonitorsLed(r)
<1>1. PICK r : r = If(watch, s, AssignMonitorsBoth)
    OBVIOUS
<1>2. CASE ~watch
    <2>1. r = s
        BY <1>1, <1>2 DEF If
    <2>2. StepKeeps(s, s)
        BY StepsKeep DEF Laid
    <2> QED BY <1>1, <1>2, <2>1, <2>2
<1>3. CASE watch
    <2>1. r = AssignMonitorsBoth(s)
        BY <1>1, <1>3 DEF If
    <2>2. /\ BothSound(r) /\ Kept(r, s) /\ SameInputs(r.host, s.host)
          /\ SameOutput(r.host, s.host) /\ r.host.job.config = s.host.job.config
          /\ r.dev.config = s.dev.config /\ r.dev.objects = s.dev.objects
          /\ AllFit(s) /\ Bounded(s.host) => AllFit(r)
          /\ Works(r) => Laid(r) /\ r.host.job.monitor_output
          /\ Works(r) /\ s.dev.line = s.host.job.line => MonitorsLed(r)
        BY <2>1, MonitorsAssignedBothIs
    <2>3. ConfigCopied(s) => ConfigCopied(r)
        BY <2>2 DEF ConfigCopied
    <2>4. ConfigLed(s) => ConfigLed(r)
        BY <2>2 DEF ConfigLed, SameOutput, DeviceRoom
    <2>5. ConfigThere(s) => ConfigThere(r)
        BY <2>2 DEF ConfigThere
    <2> QED BY <1>1, <2>2, <2>3, <2>4, <2>5 DEF StepKeeps
<1> QED BY <1>2, <1>3

\* The configuration is led, if the output holds one, and the monitors stay.
LEMMA ElemStepIs ==
    ASSUME NEW s, Laid(s), Works(s), ConfigCopied(s), NEW elem \in BOOLEAN
    PROVE  LET r == If(elem, s, AssignConfigBoth)
           IN  /\ StepKeeps(r, s)
               /\ MonitorsLed(s) => MonitorsLed(r)
               /\ AllFit(s) => AllFit(r)
               /\ r.host.job.monitor_output = s.host.job.monitor_output
               /\ Works(r) => Laid(r) /\ ConfigThere(r)
               /\ Works(r) /\ (elem \/ s.host.job.config.out_store_addr = NoAddress) =>
                    ConfigLed(r)
<1>1. PICK r : r = If(elem, s, AssignConfigBoth)
    OBVIOUS
<1>2. CASE ~elem
    <2>1. r = s
        BY <1>1, <1>2 DEF If
    <2>2. StepKeeps(s, s)
        BY StepsKeep DEF Laid
    <2>3. ConfigThere(s)
        BY DEF ConfigThere, ConfigCopied
    <2>4. s.host.job.config.out_store_addr = NoAddress => ConfigLed(s)
        BY DEF ConfigLed
    <2> QED BY <1>1, <1>2, <2>1, <2>2, <2>3, <2>4
<1>3. CASE elem
    <2>1. r = AssignConfigBoth(s)
        BY <1>1, <1>3 DEF If
    <2>2. /\ BothSound(r) /\ Kept(r, s) /\ SameInputs(r.host, s.host)
          /\ SameOutput(r.host, s.host) /\ r.host.lines = s.host.lines
          /\ r.host.job.monitor_output = s.host.job.monitor_output
          /\ r.dev.monitors = s.dev.monitors /\ r.dev.stray = s.dev.stray
          /\ r.dev.objects = s.dev.objects
          /\ Works(r) => Laid(r) /\ ConfigLed(r) /\ ConfigThere(r)
        BY <2>1, ConfigAssignedBothIs
    <2>3. MonitorsLed(s) => MonitorsLed(r)
        BY <2>2 DEF MonitorsLed, Ranged, DeviceWatching, DeviceObjectOf, IdsOf, SameInputs,
                    SameOutput, DeviceRoom
    <2>4. AllFit(s) => AllFit(r)
        BY <2>2 DEF AllFit, FitsIn
    <2> QED BY <1>1, <2>2, <2>3, <2>4 DEF StepKeeps
<1> QED BY <1>2, <1>3

\* What a set-up promises of the output, given that it has inputs.
Fulfilled(w) ==
    /\ AllFit(w) /\ MonitorsLed(w) /\ ConfigLed(w) /\ ConfigThere(w) /\ MonitorFlag(w)
    /\ w.host.job.elem_output \/ w.host.job.monitor_output =>
           w.dev.output = w.host.job.output

\* Two worlds with the same line need monitors both or not at all.
LEMMA SameNeeds ==
    ASSUME NEW h, HostSound(h), NEW g, HostSound(g), h.job.line \in DOMAIN Lines,
           g.job.line = h.job.line
    PROVE  NeedsMonitors(LineOf(g)) <=> NeedsMonitors(LineOf(h))
<1>1. PICK name \in DOMAIN Lines : name = h.job.line
    OBVIOUS
<1>2. SameLine(LineOf(h), Lines[name]) /\ SameLine(LineOf(g), Lines[name])
    BY <1>1 DEF HostSound, Scheduled, LineOf
<1> QED BY <1>2 DEF NeedsMonitors, SameLine, SameSchedule

\* The line of the device is the one of the job, if there is any.
OneLineOnly(w) == w.dev.line = None \/ w.dev.line = w.host.job.line

\* The monitors that were to be led are led, and there are no others.
LEMMA WatchedIs ==
    ASSUME NEW r, BothSound(r), OneLineOnly(r), r.host.job.line \in DOMAIN Lines,
           NEW watch, NeedsMonitors(LineOf(r.host)) => watch,
           watch /\ r.dev.line = r.host.job.line => MonitorsLed(r)
    PROVE  MonitorsLed(r)
    BY NothingWatched DEF OneLineOnly

\* A reset leads the configuration before the monitors, assigning an output
\* buffer the monitors before the configuration.
ElemThenWatch(out, elem, watch) ==
    LET e == IF Works(out) THEN If(elem, out, AssignConfigBoth) ELSE out
    IN  IF Works(e) THEN If(watch, e, AssignMonitorsBoth) ELSE e

WatchThenElem(out, watch, elem) ==
    LET m == IF Works(out) THEN If(watch, out, AssignMonitorsBoth) ELSE out
    IN  IF Works(m) THEN If(elem, m, AssignConfigBoth) ELSE m

\* What a reset prepares and leads fulfils what it promises.
LEMMA ResetOutputBothIs ==
    ASSUME NEW a, BothSound(a), Equipped(a.host), OneLineOnly(a),
           NEW output \in Buffers \cup {NoBuffer}, output = Own => OwnsOutput(a.host.job),
           NEW until \in Nat, NEW moves \in BOOLEAN, NEW failing,
           NEW elem \in BOOLEAN, NEW watch \in BOOLEAN, NeedsMonitors(LineOf(a.host)) => watch,
           NEW r, r = ElemThenWatch(PrepareOutputBoth(a, output, until, moves, failing), elem, watch)
    PROVE  /\ BothSound(r) /\ Kept(r, a) /\ SameInputs(r.host, a.host)
           /\ Works(r) /\ Bounded(r.host) => Fulfilled(r)
<1> PICK out : out = PrepareOutputBoth(a, output, until, moves, failing)
    OBVIOUS
<1> PICK e : e = IF Works(out) THEN If(elem, out, AssignConfigBoth) ELSE out
    OBVIOUS
<1>0. r = IF Works(e) THEN If(watch, e, AssignMonitorsBoth) ELSE e
    BY DEF ElemThenWatch
<1>1. /\ BothSound(out) /\ Kept(out, a) /\ SameInputs(out.host, a.host)
      /\ Works(out) => /\ Laid(out) /\ ConfigCopied(out) /\ NothingLeads(out)
                       /\ out.host.job.config.out_store_addr = NoAddress
    BY OutputPreparedBothIs
<1>2. CASE ~Works(out)
    BY <1>1, <1>2, <1>0
<1>3. CASE Works(out)
    <2>1. e = If(elem, out, AssignConfigBoth)
        BY <1>3
    <2>2. /\ StepKeeps(e, out)
          /\ AllFit(out) => AllFit(e)
          /\ Works(e) => Laid(e) /\ ConfigThere(e) /\ ConfigLed(e)
        BY <1>1, <1>3, <2>1, ElemStepIs
    <2>3. AllFit(e)
        BY <1>1, <1>3, <2>2, NothingLeadsFits
    <2>4. BothSound(e) /\ Kept(e, a) /\ SameInputs(e.host, a.host)
        BY <1>1, <2>2 DEF StepKeeps, Kept, SameInputs
    <2>5. CASE ~Works(e)
        BY <1>0, <2>4, <2>5
    <2>6. CASE Works(e)
        <3>1. r = If(watch, e, AssignMonitorsBoth)
            BY <1>0, <2>6
        <3>2. /\ StepKeeps(r, e) /\ ConfigLed(r) /\ ConfigThere(r)
              /\ Bounded(e.host) => AllFit(r)
              /\ Works(r) => Laid(r) /\ (watch => r.host.job.monitor_output)
              /\ Works(r) /\ watch /\ e.dev.line = e.host.job.line => MonitorsLed(r)
            BY <2>2, <2>3, <2>6, <3>1, WatchStepIs
        <3>3. BothSound(r) /\ Kept(r, a) /\ SameInputs(r.host, a.host)
            BY <2>4, <3>2 DEF StepKeeps, Kept, SameInputs
        <3>4. /\ r.dev.line = e.dev.line /\ r.host.job.line = e.host.job.line
              /\ r.dev.line = a.dev.line /\ r.host.job.line = a.host.job.line
              /\ a.host.job.line \in DOMAIN Lines
            <4>1. a.host.job.line \in DOMAIN Lines
                BY HostTypes, WorldTypes DEF BothSound, Equipped
            <4> QED BY <2>4, <3>3, <4>1 DEF Kept, SameInputs
        <3>5. NeedsMonitors(LineOf(r.host)) => watch
            BY <3>3, <3>4, SameNeeds DEF BothSound
        <3>6. ASSUME Works(r), Bounded(r.host) PROVE Fulfilled(r)
            <4>1. MonitorsLed(r)
                BY <3>2, <3>3, <3>4, <3>5, <3>6, WatchedIs DEF OneLineOnly
            <4>2. AllFit(r)
                BY <3>2, <3>6 DEF StepKeeps, SameOutput, Bounded
            <4>3. r.dev.output = r.host.job.output
                BY <3>2, <3>6 DEF Laid, OutputCopied
            <4> QED BY <3>2, <3>5, <3>6, <4>1, <4>2, <4>3 DEF Fulfilled, MonitorFlag
        <3> QED BY <3>3, <3>6
    <2> QED BY <2>5, <2>6
<1> QED BY <1>2, <1>3

\* So does what assigning another output buffer prepares and leads, if the
\* monitors were led before.
LEMMA AssignOutputBothIs ==
    ASSUME NEW a, BothSound(a), Equipped(a.host), OneLineOnly(a),
           NEW output \in Buffers \cup {NoBuffer}, output = Own => OwnsOutput(a.host.job),
           NEW until \in Nat, NEW moves \in BOOLEAN, NEW failing,
           NEW elem \in BOOLEAN, NEW watch \in BOOLEAN, NeedsMonitors(LineOf(a.host)) => watch,
           NEW r, r = WatchThenElem(PrepareOutputBoth(a, output, until, moves, failing), watch, elem)
    PROVE  /\ BothSound(r) /\ Kept(r, a) /\ SameInputs(r.host, a.host)
           /\ Works(r) /\ Bounded(r.host) => Fulfilled(r)
<1> PICK out : out = PrepareOutputBoth(a, output, until, moves, failing)
    OBVIOUS
<1> PICK m : m = IF Works(out) THEN If(watch, out, AssignMonitorsBoth) ELSE out
    OBVIOUS
<1>0. r = IF Works(m) THEN If(elem, m, AssignConfigBoth) ELSE m
    BY DEF WatchThenElem
<1>1. /\ BothSound(out) /\ Kept(out, a) /\ SameInputs(out.host, a.host)
      /\ Works(out) => /\ Laid(out) /\ ConfigCopied(out) /\ NothingLeads(out)
                       /\ out.host.job.config.out_store_addr = NoAddress
    BY OutputPreparedBothIs
<1>2. CASE ~Works(out)
    BY <1>1, <1>2, <1>0
<1>3. CASE Works(out)
    <2>1. m = If(watch, out, AssignMonitorsBoth)
        BY <1>3
    <2>2. AllFit(out)
        BY <1>1, <1>3, NothingLeadsFits
    <2>3. /\ StepKeeps(m, out) /\ ConfigCopied(m)
          /\ m.host.job.config = out.host.job.config
          /\ Bounded(out.host) => AllFit(m)
          /\ Works(m) => Laid(m) /\ (watch => m.host.job.monitor_output)
          /\ Works(m) /\ watch /\ out.dev.line = out.host.job.line => MonitorsLed(m)
        BY <1>1, <1>3, <2>1, <2>2, WatchStepIs
    <2>4. BothSound(m) /\ Kept(m, a) /\ SameInputs(m.host, a.host)
        BY <1>1, <2>3 DEF StepKeeps, Kept, SameInputs
    <2>5. CASE ~Works(m)
        BY <1>0, <2>4, <2>5
    <2>6. CASE Works(m)
        <3>1. r = If(elem, m, AssignConfigBoth)
            BY <1>0, <2>6
        <3>2. m.host.job.config.out_store_addr = NoAddress
            BY <1>1, <1>3, <2>3
        <3>3. /\ StepKeeps(r, m)
              /\ MonitorsLed(m) => MonitorsLed(r)
              /\ AllFit(m) => AllFit(r)
              /\ r.host.job.monitor_output = m.host.job.monitor_output
              /\ Works(r) => Laid(r) /\ ConfigThere(r) /\ ConfigLed(r)
            BY <2>3, <2>6, <3>1, <3>2, ElemStepIs
        <3>4. BothSound(r) /\ Kept(r, a) /\ SameInputs(r.host, a.host)
            BY <2>4, <3>3 DEF StepKeeps, Kept, SameInputs
        <3>5. a.host.job.line \in DOMAIN Lines
            BY HostTypes, WorldTypes DEF BothSound, Equipped
        <3>6. /\ r.dev.line = out.dev.line /\ r.host.job.line = out.host.job.line
              /\ r.dev.line = a.dev.line /\ r.host.job.line = a.host.job.line
            BY <1>1, <3>4 DEF Kept, SameInputs
        <3>7. NeedsMonitors(LineOf(r.host)) => watch
            BY <3>4, <3>5, <3>6, SameNeeds DEF BothSound
        <3>8. ASSUME Works(r), Bounded(r.host) PROVE Fulfilled(r)
            <4>1. MonitorsLed(r)
                BY <2>3, <2>6, <3>3, <3>4, <3>5, <3>6, <3>7, WatchedIs DEF OneLineOnly
            <4>2. AllFit(r)
                BY <2>3, <3>3, <3>8 DEF StepKeeps, SameOutput, Bounded
            <4>3. r.dev.output = r.host.job.output
                BY <3>3, <3>8 DEF Laid, OutputCopied
            <4>4. MonitorFlag(r)
                BY <2>3, <2>6, <3>3, <3>7 DEF MonitorFlag
            <4> QED BY <3>3, <3>8, <4>1, <4>2, <4>3, <4>4 DEF Fulfilled
        <3> QED BY <3>4, <3>8
    <2> QED BY <2>5, <2>6
<1> QED BY <1>2, <1>3

-----------------------------------------------------------------------------
(* Resetting the job.                                                      *)

\* The output of a reset, for inputs that are attached.
ResetDone(a, output, until, moves, failing) ==
    LET needs    == Required(a.host, until)
        Elem(s)  == If(needs.elem, s, AssignConfigBoth)
        Watch(s) == If(needs.monitors, s, AssignMonitorsBoth)
        out      == PrepareOutputBoth(a, output, until, moves, failing)
    IN  IF ~(needs.elem \/ needs.monitors) /\ output = NoBuffer THEN a
        ELSE AndThen(AndThen(out, Elem), Watch)

\* Without an output to prepare, what was freed fulfils the promise.
LEMMA ResetDoneIs ==
    ASSUME NEW a, BothSound(a), Equipped(a.host), OneLineOnly(a),
           NEW output \in Buffers \cup {NoBuffer}, output = Own => OwnsOutput(a.host.job),
           output = NoBuffer =>
               /\ NothingLeads(a) /\ a.host.job.config = NoConfig
               /\ ~a.host.job.elem_output /\ ~a.host.job.monitor_output,
           NEW until \in Nat, NEW moves \in BOOLEAN, NEW failing
    PROVE  LET r == ResetDone(a, output, until, moves, failing)
           IN  /\ BothSound(r) /\ Kept(r, a) /\ SameInputs(r.host, a.host)
               /\ Works(r) /\ Bounded(r.host) => Fulfilled(r)
<1>1. PICK r : r = ResetDone(a, output, until, moves, failing)
    OBVIOUS
<1>2. PICK needs : needs = Required(a.host, until)
    OBVIOUS
<1>3. /\ needs.monitors = NeedsMonitors(LineOf(a.host)) /\ needs.monitors \in BOOLEAN
      /\ needs.elem \in BOOLEAN
    BY <1>2 DEF Required, LineOf, NeedsMonitors, NeedsElemByElem
<1>4. PICK elem \in BOOLEAN, watch \in BOOLEAN : elem = needs.elem /\ watch = needs.monitors
    BY <1>3
<1>5. PICK out : out = PrepareOutputBoth(a, output, until, moves, failing)
    OBVIOUS
<1>6. PICK f : f = ElemThenWatch(out, elem, watch)
    OBVIOUS
<1>7. f = AndThen(AndThen(out, LAMBDA s : If(elem, s, AssignConfigBoth)),
                  LAMBDA s : If(watch, s, AssignMonitorsBoth))
    BY <1>6 DEF ElemThenWatch, AndThen
<1>8. r = IF ~(elem \/ watch) /\ output = NoBuffer THEN a ELSE f
    BY <1>1, <1>2, <1>4, <1>5, <1>7 DEF ResetDone, AndThen
<1>9. CASE r = f
    <2>1. NeedsMonitors(LineOf(a.host)) => watch
        BY <1>3, <1>4
    <2>2. /\ BothSound(f) /\ Kept(f, a) /\ SameInputs(f.host, a.host)
          /\ Works(f) /\ Bounded(f.host) => Fulfilled(f)
        <3>1. f = ElemThenWatch(PrepareOutputBoth(a, output, until, moves, failing), elem, watch)
            BY <1>5, <1>6
        <3> QED BY <2>1, <3>1, ResetOutputBothIs
    <2>3. /\ BothSound(r) /\ Kept(r, a) /\ SameInputs(r.host, a.host)
          /\ Works(r) /\ Bounded(r.host) => Fulfilled(r)
        BY <1>9, <2>2
    <2> QED BY <1>1, <2>3
<1>10. CASE r = a /\ ~watch /\ output = NoBuffer
    <2>1. ~NeedsMonitors(LineOf(a.host))
        BY <1>3, <1>4, <1>10
    <2>2. a.host.job.line \in DOMAIN Lines
        BY HostTypes, WorldTypes DEF BothSound, Equipped
    <2>3. AllFit(a) /\ MonitorsLed(a)
        BY <1>10, <2>1, <2>2, NothingLeadsFits, NothingWatched DEF OneLineOnly
    <2>4. ConfigLed(a) /\ ConfigThere(a)
        <3>1. NoConfig.out_store_addr = NoAddress
            BY DEF NoConfig, Preset, EmptyConfig
        <3> QED BY <1>10, <3>1 DEF ConfigLed, ConfigThere
    <2>5. Fulfilled(a)
        BY <1>10, <2>1, <2>3, <2>4 DEF Fulfilled, MonitorFlag
    <2>6. Kept(a, a) /\ SameInputs(a.host, a.host)
        BY DEF Kept, SameInputs
    <2>7. r = a
        BY <1>10
    <2> QED BY <1>1, <2>5, <2>6, <2>7
<1> QED BY <1>8, <1>9, <1>10

\* Attaching other inputs to what is fulfilled leaves it so, if they are those
\* of before or if some are missing.
LEMMA AttachedIs ==
    ASSUME NEW w, BothSound(w), Fulfilled(w), ~w.dev.whole,
           NEW r, r.dev = w.dev, r.host.lines = w.host.lines,
           SameOutputMembers(r.host.job, w.host.job), r.host.job.extents = w.host.job.extents,
           HasInputs(r) => r.host.job.line = w.host.job.line
    PROVE  Done(r)
<1>1. AllFit(r)
    BY DEF Fulfilled, AllFit, FitsIn
<1>2. Named(r)
    BY DEF Named
<1>3. ASSUME HasInputs(r)
      PROVE  MonitorsLed(r) /\ ConfigLed(r) /\ MonitorFlag(r)
    <2>1. MonitorsLed(r)
        BY DEF Fulfilled, MonitorsLed, Ranged, DeviceWatching, DeviceObjectOf, IdsOf,
               SameOutputMembers
    <2>2. ConfigLed(r)
        BY DEF Fulfilled, ConfigLed, SameOutputMembers
    <2>3. MonitorFlag(r)
        BY <1>3 DEF Fulfilled, MonitorFlag, LineOf, SameOutputMembers
    <2> QED BY <2>1, <2>2, <2>3
<1> QED BY <1>1, <1>2, <1>3 DEF Done

\* A world whose inputs are named on the device and whose output is fulfilled.
LEMMA FulfilledIs ==
    ASSUME NEW w, Fulfilled(w),
           w.dev.whole =>
               /\ w.dev.ready /\ HasInputs(w)
               /\ w.dev.particles = w.host.job.particles /\ w.dev.line = w.host.job.line
    PROVE  Done(w)
    BY DEF Done, Named, Fulfilled

\* A reset from the inputs on (doResetCudaImpl), whatever it succeeds in: a
\* set-up that reports success has what it promises.
LEMMA DeviceDoResetIs ==
    ASSUME NEW particles \in ParticleBuffers, NEW line \in DOMAIN Lines,
           NEW output \in Buffers \cup {NoBuffer}, NEW until \in Nat, NEW moves \in BOOLEAN,
           NEW failing, TurnsTyped, NEW w, Started(w, particles, line, output), Works(w),
           SetsOf(w.host.job.sets, particles)
    PROVE  LET r == DeviceDoReset(w, particles, line, output, until, moves, failing)
           IN  /\ BothSound(r) /\ Agree(r)
               /\ Works(r) /\ Bounded(r.host) => Done(r)
<1>1. PICK i : i = PrepareInputs(w, particles, line, failing)
    OBVIOUS
<1>2. /\ Started(i, particles, line, output)
      /\ ExtentsOK(i.host.job.extents) /\ i.host.job.sets = w.host.job.sets
      /\ i.dev.whole => /\ Works(i) /\ i.dev.ready /\ w.dev.whole
                        /\ i.dev.particles = particles /\ i.dev.line = line
    BY <1>1, InputsPreparedAre
<1>3. BothSound(i) /\ i.host.job \in Jobs
    BY <1>2, HostTypes DEF Started, BothSound
<1>4. PICK before \in Jobs : before = i.host.job
    BY <1>3
<1>5. PICK j : j = [before EXCEPT !.particles = particles, !.line = line,
                                  !.line_cxx = @ /\ line = before.line]
    OBVIOUS
<1>6. /\ j.particles = particles /\ j.line = line /\ j.line_cxx \in BOOLEAN
    BY <1>5 DEF Jobs
<1>7. particles # None /\ line # None
    BY Given
<1>8. PICK a : a = Attach(i, j)
    OBVIOUS
<1>9. /\ BothSound(a) /\ a.dev = i.dev /\ a.host.lines = i.host.lines
      /\ SameOutputMembers(a.host.job, i.host.job)
      /\ a.host.job.sets = i.host.job.sets /\ a.host.job.extents = i.host.job.extents
      /\ a.host.job.particles = particles /\ a.host.job.line = line
      /\ a.host.status = i.host.status
    BY <1>2, <1>3, <1>6, <1>8, AttachIs
<1>10. PICK d : d = ResetDone(a, output, until, moves, failing)
    OBVIOUS
<1>11. PICK r : r = DeviceDoReset(w, particles, line, output, until, moves, failing)
    OBVIOUS
<1>12. r = IF Works(i) THEN d ELSE Attach(d, before)
    <2>1. r = LET attached == Attach(PrepareInputs(w, particles, line, failing),
                         [PrepareInputs(w, particles, line, failing).host.job EXCEPT
                              !.particles = particles, !.line = line,
                              !.line_cxx = @ /\ line
                                   = PrepareInputs(w, particles, line, failing).host.job.line])
                  done == ResetDone(attached, output, until, moves, failing)
              IN  IF Works(PrepareInputs(w, particles, line, failing)) THEN done
                  ELSE Attach(done, PrepareInputs(w, particles, line, failing).host.job)
        BY <1>11, Zenon DEF DeviceDoReset, ResetDone
    <2>2. r = LET attached == Attach(i, [before EXCEPT !.particles = particles, !.line = line,
                                             !.line_cxx = @ /\ line = before.line])
                  done == ResetDone(attached, output, until, moves, failing)
              IN  IF Works(i) THEN done ELSE Attach(done, before)
        BY <1>1, <1>4, <2>1, Zenon
    <2> QED BY <1>5, <1>8, <1>10, <2>2
<1>13. /\ BothSound(d) /\ Kept(d, a) /\ SameInputs(d.host, a.host)
       /\ Works(d) /\ Bounded(d.host) => Fulfilled(d)
    <2>1. Equipped(a.host)
        BY <1>2, <1>7, <1>9 DEF Equipped
    <2>2. OneLineOnly(a)
        BY <1>2, <1>9 DEF OneLineOnly, Started
    <2>3. output = Own => OwnsOutput(a.host.job)
        BY <1>2, <1>9 DEF Started, SameOutputMembers, OwnsOutput
    <2>4. output = NoBuffer =>
               /\ NothingLeads(a) /\ a.host.job.config = NoConfig
               /\ ~a.host.job.elem_output /\ ~a.host.job.monitor_output
        BY <1>2, <1>9 DEF Started, SameOutputMembers, NothingLeads
    <2> QED BY <1>9, <1>10, <2>1, <2>2, <2>3, <2>4, ResetDoneIs
<1>14. /\ d.host.job.particles = particles /\ d.host.job.line = line
       /\ d.host.job.sets = w.host.job.sets /\ ExtentsOK(d.host.job.extents)
       /\ d.dev.particles = None \/ d.dev.particles = particles
       /\ d.dev.line = None \/ d.dev.line = line
    <2>1. /\ i.dev.particles = None \/ i.dev.particles = particles
          /\ i.dev.line = None \/ i.dev.line = line
        BY <1>2 DEF Started
    <2> QED BY <1>2, <1>9, <1>13, <2>1 DEF Kept, SameInputs
<1>15. CASE Works(i)
    <2>1. r = d
        BY <1>12, <1>15
    <2>2. Agree(d)
        BY <1>14 DEF Agree
    <2>3. ASSUME d.dev.whole
          PROVE  /\ d.dev.ready /\ HasInputs(d)
                 /\ d.dev.particles = d.host.job.particles /\ d.dev.line = d.host.job.line
        <3>1. i.dev.whole
            BY <1>9, <1>13, <2>3 DEF Kept
        <3> QED BY <1>2, <1>7, <1>9, <1>13, <1>14, <3>1 DEF Kept, HasInputs
    <2>4. Works(d) /\ Bounded(d.host) => Done(d)
        BY <1>13, <2>3, FulfilledIs
    <2> QED BY <1>11, <1>13, <2>1, <2>2, <2>4
<1>16. CASE ~Works(i)
    <2>1. r = Attach(d, before)
        BY <1>12, <1>16
    <2>2. /\ before.particles = None \/ before.particles = particles
          /\ before.line = None \/ before.line = line
        BY <1>2, <1>4 DEF Started
    <2>3. /\ before.particles \in ParticleBuffers \cup {None}
          /\ before.line \in DOMAIN Lines \cup {None} /\ before.line_cxx \in BOOLEAN
        BY DEF Jobs
    <2>4. before.particles # None =>
            SetsOf(d.host.job.sets, before.particles) /\ ExtentsOK(d.host.job.extents)
        BY <1>14, <2>2
    <2>5. /\ BothSound(r) /\ r.dev = d.dev
          /\ r.host.lines = d.host.lines /\ r.host.buffers = d.host.buffers
          /\ r.host.status = d.host.status
          /\ SameOutputMembers(r.host.job, d.host.job)
          /\ r.host.job.extents = d.host.job.extents
          /\ r.host.job.particles = before.particles /\ r.host.job.line = before.line
        BY <1>13, <2>1, <2>3, <2>4, AttachIs
    <2>6. Agree(r)
        BY <1>14, <2>2, <2>5 DEF Agree
    <2>7. ASSUME Works(r), Bounded(r.host) PROVE Done(r)
        <3>1. Works(d) /\ Bounded(d.host)
            BY <2>5, <2>7 DEF Works, Succeeds, Bounded
        <3>2. ~d.dev.whole
            BY <1>2, <1>9, <1>13, <1>16 DEF Kept
        <3>3. HasInputs(r) => r.host.job.line = d.host.job.line
            BY <1>14, <2>2, <2>5 DEF HasInputs
        <3> QED BY <1>13, <2>5, <3>1, <3>2, <3>3, AttachedIs
    <2> QED BY <1>11, <2>5, <2>6, <2>7
<1> QED BY <1>15, <1>16

-----------------------------------------------------------------------------
(* What a call leaves becomes the state.                                   *)

\* The state as a world of calls.
LEMMA PresentIs ==
    ASSUME DInv
    PROVE  /\ BothSound(Present) /\ Agree(Present) /\ Works(Present) /\ TurnsTyped
           /\ Present.host = Current /\ Present.dev = dev
           /\ HostSound(Current) /\ DeviceSound(dev) /\ Bounded(Current)
           /\ Current.job = job /\ Current.lines = lines /\ Current.buffers = buffers
           /\ Current.status = "success" /\ job \in Jobs
           /\ lines \in [DOMAIN Lines -> Seq(Monitors)]
<1>1. Present.host = Current /\ Present.dev = dev
    BY BothIs DEF Present
<1>2. /\ Current.job = job /\ Current.lines = lines /\ Current.buffers = buffers
      /\ Current.status = "success"
    BY DEF Current, World
<1>3. BothSound(Present) /\ Agree(Present) /\ TurnsTyped /\ Bounded(Current)
    BY DEF DInv
<1>4. HostSound(Current) /\ DeviceSound(dev)
    BY <1>1, <1>3 DEF BothSound
<1> QED BY <1>1, <1>2, <1>3, <1>4, HostTypes DEF Works, Succeeds

\* A job and lines as they are in another world, in a state between calls.
AlikeHost(g, h) ==
    /\ g.job.particles = h.job.particles /\ g.job.sets = h.job.sets
    /\ g.job.extents = h.job.extents /\ g.job.line = h.job.line
    /\ SameOutputMembers(g.job, h.job)
    /\ g.lines = h.lines /\ g.buffers = h.buffers

\* Marking the job usable or not keeps the rest.
LEMMA MarkedIs ==
    ASSUME NEW h, HostSound(h), NEW usable \in BOOLEAN, NEW j, j = [h.job EXCEPT !.usable = usable],
           NEW g, g = World(j, h.lines, h.buffers, "success")
    PROVE  HostSound(g) /\ AlikeHost(g, h) /\ g.job.usable = usable
<1>1. /\ h \in Worlds /\ h.job \in Jobs /\ h.lines \in [DOMAIN Lines -> Seq(Monitors)]
      /\ h.buffers \in [Buffers -> Seq(Objects)]
    BY HostTypes
<1>2. /\ j \in Jobs /\ j.usable = usable /\ SameOutputMembers(j, h.job)
      /\ j.particles = h.job.particles /\ j.sets = h.job.sets
      /\ j.extents = h.job.extents /\ j.line = h.job.line
    BY <1>1 DEF Jobs, SameOutputMembers
<1>3. PICK k \in Jobs : k = j
    BY <1>2
<1>4. PICK lns \in [DOMAIN Lines -> Seq(Monitors)] : lns = h.lines
    BY <1>1
<1>5. g = World(k, lns, h.buffers, "success")
    BY <1>3, <1>4
<1>6. g.job = j /\ g.lines = h.lines /\ g.buffers = h.buffers
    BY <1>3, <1>4, <1>5 DEF World
<1>7. Steady(g)
    <2>1. k.particles # None => SetsOf(k.sets, k.particles)
        BY <1>2, <1>3 DEF HostSound, Steady, Sound
    <2>2. Steady(h) /\ "success" \in {"success", "failure"}
        BY DEF HostSound
    <2>3. Steady(World(k, lns, h.buffers, "success"))
        BY <1>2, <1>3, <2>1, <2>2, JobSteady DEF SameOutputMembers
    <2> QED BY <1>5, <2>3
<1>8. HostSound(g)
    BY <1>2, <1>6, <1>7 DEF HostSound, Scheduled
<1> QED BY <1>2, <1>6, <1>8 DEF AlikeHost

\* The promises speak of the parts of a world that are alike.
LEMMA AlikeDone ==
    ASSUME NEW w, NEW r, r.dev = w.dev, AlikeHost(r.host, w.host)
    PROVE  (Agree(w) => Agree(r)) /\ (Done(w) => Done(r))
<1>1. Agree(w) => Agree(r)
    BY DEF Agree, AlikeHost
<1>2. ConfigThere(w) => ConfigThere(r)
    BY DEF ConfigThere, AlikeHost, SameOutputMembers
<1>3. Named(w) => Named(r)
    BY <1>2 DEF Named, HasInputs, AlikeHost, SameOutputMembers
<1>4. AllFit(w) => AllFit(r)
    BY DEF AllFit, FitsIn, AlikeHost
<1>5. MonitorsLed(w) => MonitorsLed(r)
    BY DEF MonitorsLed, Ranged, DeviceWatching, DeviceObjectOf, IdsOf, AlikeHost,
           SameOutputMembers
<1>6. ConfigLed(w) => ConfigLed(r)
    BY DEF ConfigLed, AlikeHost, SameOutputMembers
<1>7. MonitorFlag(w) => MonitorFlag(r)
    BY DEF MonitorFlag, LineOf, AlikeHost, SameOutputMembers
<1>8. HasInputs(r) <=> HasInputs(w)
    BY DEF HasInputs, AlikeHost
<1> QED BY <1>1, <1>3, <1>4, <1>5, <1>6, <1>7, <1>8 DEF Done

\* A call that leaves a sound world, done if it reports success, keeps the
\* inductive invariant.
LEMMA DeviceBecomeIs ==
    ASSUME DInv, NEW w, BothSound(w), Agree(w), Works(w) /\ Bounded(w.host) => Done(w),
           DeviceBecome(w)
    PROVE  DInv'
<1>1. PICK h : h = w.host
    OBVIOUS
<1>2. HostSound(h) /\ DeviceSound(w.dev)
    BY <1>1 DEF BothSound
<1>3. /\ Bounded(h) /\ dev' = w.dev /\ turn' = turn
      /\ job' = [h.job EXCEPT !.usable = Succeeds(h)] /\ lines' = h.lines /\ buffers' = h.buffers
    BY <1>1 DEF DeviceBecome, Become
<1>4. PICK usable \in BOOLEAN : usable = Succeeds(h)
    BY DEF Succeeds
<1>5. PICK g : g = World(job', lines', buffers', "success")
    OBVIOUS
<1>6. HostSound(g) /\ AlikeHost(g, h) /\ g.job.usable = usable
    <2>1. PICK j : j = [h.job EXCEPT !.usable = usable]
        OBVIOUS
    <2>2. g = World(j, h.lines, h.buffers, "success")
        BY <1>3, <1>4, <1>5, <2>1
    <2> QED BY <1>2, <2>1, <2>2, MarkedIs
<1>7. PICK r : r = Both(g, dev') /\ r.host = g /\ r.dev = dev'
    BY BothIs
<1>8. Present' = r /\ Current' = g /\ job' = g.job
    BY <1>5, <1>7 DEF Present, Current, World
<1>9. BothSound(r)
    BY <1>2, <1>3, <1>6, <1>7 DEF BothSound
<1>10. Agree(r) /\ (Done(w) => Done(r))
    BY <1>1, <1>3, <1>6, <1>7, AlikeDone
<1>11. Bounded(g)
    BY <1>3, <1>6 DEF Bounded, AlikeHost
<1>12. job'.usable => Works(w) /\ Bounded(w.host)
    BY <1>1, <1>3, <1>4, <1>6, <1>8 DEF Works
<1>13. TurnsTyped'
    BY <1>3 DEF DInv, TurnsTyped
<1>14. BothSound(Present)' /\ Agree(Present)' /\ Bounded(Current)' /\ (job.usable => Done(Present))'
    BY <1>8, <1>9, <1>10, <1>11, <1>12
<1> QED BY <1>13, <1>14 DEF DInv

-----------------------------------------------------------------------------
(* The calls.                                                              *)

\* Selecting sets starts a reset with them.
LEMMA DeviceSetsIs ==
    ASSUME NEW particles \in ParticleBuffers, NEW line \in DOMAIN Lines, NEW output,
           NEW w, Started(w, particles, line, output), NEW selection \in SUBSET Nat,
           \/ w.host.job.particles = None
           \/ w.host.job.particles = particles /\ w.host.job.sets = selection
    PROVE  LET r == Both(SelectSets(w.host, particles, selection), w.dev)
           IN  /\ Started(r, particles, line, output)
               /\ Works(r) => SetsOf(r.host.job.sets, particles)
<1>1. PICK h : h = w.host /\ HostSound(h) /\ DeviceSound(w.dev)
    BY DEF Started, BothSound
<1>2. PICK s : s = SelectSets(h, particles, selection)
    OBVIOUS
<1>3. /\ Steady(s) /\ SameFlags(s, h) /\ s.job.output = h.job.output
      /\ s.job.particles = h.job.particles /\ s.job.extents = h.job.extents
      /\ s.job.line = h.job.line /\ s.job.config = h.job.config
      /\ s.lines = h.lines
      /\ Succeeds(s) => SetsOf(s.job.sets, particles)
    BY <1>1, <1>2, SelectSetsIs DEF HostSound
<1>4. HostSound(s)
    BY <1>1, <1>3 DEF HostSound, Scheduled
<1>5. PICK r : r = Both(SelectSets(w.host, particles, selection), w.dev)
    OBVIOUS
<1>6. r.host = s /\ r.dev = w.dev
    BY <1>1, <1>2, <1>5, BothIs
<1>7. BothSound(r)
    BY <1>1, <1>4, <1>6 DEF BothSound
<1>8. Started(r, particles, line, output)
    BY <1>1, <1>3, <1>6, <1>7 DEF Started, NothingLeads, SameFlags, OwnsOutput
<1>9. Works(r) => SetsOf(r.host.job.sets, particles)
    BY <1>3, <1>6 DEF Works
<1> QED BY <1>5, <1>8, <1>9

\* A reset, whatever it is given and whatever fails.
LEMMA DeviceResetWorldIs ==
    ASSUME DInv, NEW particles \in ParticleBuffers, NEW selection \in SUBSET Nat,
           NEW line \in DOMAIN Lines, NEW output \in Buffers \cup {NoBuffer},
           output = Own => OwnsOutput(job), NEW until \in Nat, NEW moves \in BOOLEAN,
           NEW failing
    PROVE  LET r == DeviceResetWorld(particles, selection, line, output, until, moves, failing)
           IN  BothSound(r) /\ Agree(r) /\ (Works(r) /\ Bounded(r.host) => Done(r))
<1>1. PICK d : d = [dev EXCEPT !.whole = TRUE]
    OBVIOUS
<1>2. /\ DeviceSound(d) /\ d.particles = dev.particles /\ d.line = dev.line
    <2>1. DeviceSound(dev) /\ dev \in Devices
        BY PresentIs, DeviceTypes
    <2>2. /\ d \in Devices /\ d.particles = dev.particles /\ d.line = dev.line
          /\ d.turn = dev.turn /\ d.monitors = dev.monitors /\ d.objects = dev.objects
        BY <1>1, <2>1 DEF Devices
    <2> QED BY <2>1, <2>2 DEF DeviceSound
<1>3. PICK w : w = Both(Current, d) /\ w.host = Current /\ w.dev = d
    BY BothIs
<1>4. /\ BothSound(w) /\ Agree(w) /\ Away(w.host.job.config.out_store_addr) /\ Works(w)
      /\ output = Own => OwnsOutput(w.host.job)
    <2>1. /\ HostSound(Current) /\ Bounded(Current) /\ Agree(Present) /\ Present.host = Current
          /\ Present.dev = dev /\ Current.job = job /\ Current.status = "success"
        BY PresentIs
    <2>2. Away(w.host.job.config.out_store_addr)
        BY <1>3, <2>1, ConfigAway
    <2> QED BY <1>2, <1>3, <2>1, <2>2 DEF BothSound, Agree, Works, Succeeds
<1>5. PICK sets : sets = IF selection = Keep THEN job.sets ELSE selection
    OBVIOUS
<1>6. PICK c : c = DeviceClearForReset(w, particles, sets, line, output)
    OBVIOUS
<1>7. /\ Started(c, particles, line, output) /\ Works(c)
      /\ \/ c.host.job.particles = None /\ c.host.job.sets = {0}
         \/ c.host.job.particles = particles /\ c.host.job.sets = sets
    <2>1. LET r == DeviceClearForReset(w, particles, sets, line, output)
          IN  /\ Started(r, particles, line, output)
              /\ r.host.status = w.host.status
              /\ r.dev.ready = w.dev.ready /\ r.dev.whole = w.dev.whole
              /\ \/ r.host.job.particles = None /\ r.host.job.sets = {0}
                 \/ /\ r.host.job.particles = particles /\ w.host.job.particles = particles
                    /\ r.host.job.sets = w.host.job.sets /\ sets = w.host.job.sets
        <3>1. BothSound(w)
            BY <1>4
        <3>2. Agree(w)
            BY <1>4
        <3>3. Away(w.host.job.config.out_store_addr)
            BY <1>4
        <3>4. output = Own => OwnsOutput(w.host.job)
            BY <1>4
        <3> QED BY <3>1, <3>2, <3>3, <3>4, DeviceClearedIs
    <2>2. /\ Started(c, particles, line, output)
          /\ c.host.status = w.host.status
          /\ \/ c.host.job.particles = None /\ c.host.job.sets = {0}
             \/ /\ c.host.job.particles = particles /\ w.host.job.particles = particles
                /\ c.host.job.sets = w.host.job.sets /\ sets = w.host.job.sets
        BY <1>6, <2>1
    <2> QED BY <1>4, <2>2 DEF Works, Succeeds
<1>8. PICK s : s = IF selection = Keep THEN c
                   ELSE Both(SelectSets(c.host, particles, selection), c.dev)
    OBVIOUS
<1>9. /\ Started(s, particles, line, output)
      /\ Works(s) => SetsOf(s.host.job.sets, particles)
    <2>1. CASE selection = Keep
        <3>1. s = c
            BY <1>8, <2>1
        <3>2. CASE c.host.job.sets = {0}
            <4>1. SetsOf({0}, particles)
                BY Given DEF SetsOf
            <4> QED BY <1>7, <3>1, <3>2, <4>1
        <3>3. CASE c.host.job.particles = particles
            <4>1. particles # None
                BY Given
            <4>2. SetsOf(c.host.job.sets, particles)
                BY <1>7, <3>3, <4>1 DEF Started, BothSound, HostSound, Steady, Sound
            <4> QED BY <1>7, <3>1, <4>2
        <3> QED BY <1>7, <3>2, <3>3
    <2>2. CASE selection # Keep
        <3>1. sets = selection /\ s = Both(SelectSets(c.host, particles, selection), c.dev)
            BY <1>5, <1>8, <2>2
        <3>2. \/ c.host.job.particles = None
              \/ c.host.job.particles = particles /\ c.host.job.sets = selection
            BY <1>7, <3>1
        <3> QED BY <1>7, <3>1, <3>2, DeviceSetsIs
    <2> QED BY <2>1, <2>2
<1>10. PICK r : r = DeviceResetWorld(particles, selection, line, output, until, moves, failing)
    OBVIOUS
<1>11. r = IF Works(s) THEN DeviceDoReset(s, particles, line, output, until, moves, failing)
           ELSE s
    <2>1. DeviceClearForReset(Both(Current, [dev EXCEPT !.whole = TRUE]),
                              particles, sets, line, output) = c
        BY <1>1, <1>3, <1>6
    <2>2. s = IF selection = Keep THEN c
              ELSE OnHost(c, LAMBDA h : SelectSets(h, particles, selection))
        BY <1>8 DEF OnHost
    <2> QED BY <1>5, <1>10, <2>1, <2>2 DEF DeviceResetWorld, AndThen
<1>12. CASE Works(s)
    <2>1. PICK t : t = DeviceDoReset(s, particles, line, output, until, moves, failing)
        OBVIOUS
    <2>2. TurnsTyped
        BY PresentIs
    <2>3. BothSound(t) /\ Agree(t) /\ (Works(t) /\ Bounded(t.host) => Done(t))
        BY <1>9, <1>12, <2>1, <2>2, DeviceDoResetIs
    <2> QED BY <1>10, <1>11, <1>12, <2>1, <2>3
<1>13. CASE ~Works(s)
    <2>1. BothSound(s) /\ Agree(s)
        BY <1>9 DEF Started, Agree
    <2> QED BY <1>10, <1>11, <1>13, <2>1
<1> QED BY <1>12, <1>13

\* Assigning an output buffer to a job that is set up and has its inputs.
LEMMA DeviceAssignWorldIs ==
    ASSUME DInv, Attached, NEW output \in Buffers \cup {NoBuffer},
           output = Own => OwnsOutput(job), NEW moves \in BOOLEAN, NEW failing
    PROVE  LET r == DeviceAssignWorld(output, moves, failing)
           IN  BothSound(r) /\ Agree(r) /\ (Works(r) /\ Bounded(r.host) => Done(r))
<1>1. PICK w : w = Present
    OBVIOUS
<1>2. /\ BothSound(w) /\ Agree(w) /\ Done(w) /\ w.host = Current /\ w.host.job = job
      /\ HostSound(w.host) /\ job \in Jobs /\ w.dev = dev
    BY <1>1, PresentIs DEF DInv, Attached
<1>3. PICK r : r = DeviceAssignWorld(output, moves, failing)
    OBVIOUS
<1>4. PICK until \in Nat : until = NumElemByElemTurns
    <2>1. job.until \in Nat /\ job.extents \in ExtentSets
        BY <1>2 DEF Jobs
    <2>2. job.extents.min_turn \in Int
        BY <2>1 DEF ExtentSets
    <2> QED BY <2>1, <2>2 DEF NumElemByElemTurns
<1>5. PICK needs : needs = Required(Current, until)
    OBVIOUS
<1>6. PICK out : out = PrepareOutputBoth(w, output, until, moves, failing)
    OBVIOUS
<1>7. /\ Equipped(w.host) /\ HasInputs(w) /\ OneLineOnly(w)
      /\ output = Own => OwnsOutput(w.host.job)
    <2>1. HasInputs(w)
        BY <1>2 DEF Attached, HasInputs
    <2>2. Equipped(w.host)
        BY <1>2, <2>1 DEF HostSound, HasInputs, Equipped
    <2> QED BY <1>2, <2>1, <2>2 DEF OneLineOnly, Agree, HasInputs
<1>8. /\ Kept(out, w) /\ SameInputs(out.host, w.host)
      /\ Works(out) => SameFlags(out.host, w.host)
    BY <1>2, <1>6, <1>7, OutputPreparedBothIs
<1>9. needs.elem \in BOOLEAN /\ needs.monitors = NeedsMonitors(LineOf(w.host))
      /\ needs.monitors \in BOOLEAN
    BY <1>2, <1>5 DEF Required, NeedsElemByElem, NeedsMonitors, LineOf
<1>10. out.host.job.monitor_output \in BOOLEAN
    <2>1. BothSound(out)
        BY <1>2, <1>6, <1>7, OutputPreparedBothIs
    <2> QED BY <2>1, HostTypes DEF BothSound, Jobs
<1>11. PICK watch \in BOOLEAN : watch = (needs.monitors /\ out.host.job.monitor_output)
    OBVIOUS
<1>12. PICK m : m = IF Works(out) THEN If(watch, out, AssignMonitorsBoth) ELSE out
    OBVIOUS
<1>13. PICK elem \in BOOLEAN : elem = (needs.elem /\ m.host.job.elem_output)
    OBVIOUS
<1>14. PICK f : f = WatchThenElem(out, watch, elem)
    OBVIOUS
<1>15. f = IF Works(m) THEN If(elem, m, AssignConfigBoth) ELSE m
    BY <1>12, <1>14 DEF WatchThenElem
<1>16. r = IF needs.elem \/ needs.monitors THEN f ELSE Fails(w)
    <2>1. r = LET here  == Both(Current, dev)
                  asked == Required(Current, NumElemByElemTurns)
                  Elem(s)  == If(asked.elem /\ s.host.job.elem_output, s, AssignConfigBoth)
                  Watch(s) == If(asked.monitors /\ s.host.job.monitor_output, s,
                                 AssignMonitorsBoth)
              IN  IF asked.elem \/ asked.monitors
                  THEN AndThen(AndThen(PrepareOutputBoth(here, output, NumElemByElemTurns,
                                                         moves, failing), Watch), Elem)
                  ELSE Fails(here)
        BY <1>3, Zenon DEF DeviceAssignWorld
    <2>2. w = Both(Current, dev) /\ needs = Required(Current, NumElemByElemTurns)
          /\ out = PrepareOutputBoth(Both(Current, dev), output, NumElemByElemTurns, moves, failing)
        BY <1>1, <1>4, <1>5, <1>6 DEF Present
    <2>3. r = IF needs.elem \/ needs.monitors
              THEN IF Works(m) THEN If(needs.elem /\ m.host.job.elem_output, m, AssignConfigBoth)
                   ELSE m
              ELSE Fails(w)
        BY <1>11, <1>12, <2>1, <2>2 DEF AndThen
    <2> QED BY <1>13, <1>15, <2>3
<1>17. CASE needs.elem \/ needs.monitors
    <2>1. r = f
        BY <1>16, <1>17
    <2>2. ASSUME Works(out) PROVE NeedsMonitors(LineOf(w.host)) => watch
        <3>1. out.host.job.monitor_output = w.host.job.monitor_output
            BY <1>8, <2>2 DEF SameFlags
        <3>2. NeedsMonitors(LineOf(w.host)) => w.host.job.monitor_output
            BY <1>2, <1>7 DEF Done, MonitorFlag
        <3> QED BY <1>9, <1>11, <3>1, <3>2
    <2>3. /\ BothSound(f) /\ Kept(f, w) /\ SameInputs(f.host, w.host)
          /\ Works(f) /\ Bounded(f.host) => Fulfilled(f)
        <3>1. CASE ~Works(out)
            <4>1. f = out
                BY <1>12, <1>15, <3>1
            <4>2. BothSound(out)
                BY <1>2, <1>6, <1>7, OutputPreparedBothIs
            <4> QED BY <1>8, <3>1, <4>1, <4>2
        <3>2. CASE Works(out)
            <4>1. f = WatchThenElem(PrepareOutputBoth(w, output, until, moves, failing), watch, elem)
                BY <1>6, <1>14
            <4> QED BY <1>2, <1>7, <2>2, <3>2, <4>1, AssignOutputBothIs
        <3> QED BY <3>1, <3>2
    <2>4. Agree(f)
        BY <1>2, <2>3 DEF Agree, Kept, SameInputs
    <2>5. ASSUME f.dev.whole
          PROVE  /\ f.dev.ready /\ HasInputs(f)
                 /\ f.dev.particles = f.host.job.particles /\ f.dev.line = f.host.job.line
        <3>1. w.dev.whole
            BY <2>3, <2>5 DEF Kept
        <3> QED BY <1>2, <1>7, <2>3, <3>1 DEF Done, Named, Kept, SameInputs, HasInputs
    <2>6. Works(f) /\ Bounded(f.host) => Done(f)
        BY <2>3, <2>5, FulfilledIs
    <2> QED BY <1>3, <2>1, <2>3, <2>4, <2>6
<1>18. CASE ~(needs.elem \/ needs.monitors)
    <2>1. r = Both(Failed(w.host), w.dev)
        BY <1>16, <1>18 DEF Fails
    <2>2. r.host = Failed(w.host) /\ r.dev = w.dev
        BY <2>1, BothIs
    <2>3. HostSound(r.host) /\ ~Succeeds(r.host) /\ r.host.job = w.host.job
        BY <1>2, <2>2, HostFailedIs
    <2>4. BothSound(r) /\ Agree(r) /\ ~Works(r)
        BY <1>2, <2>2, <2>3 DEF BothSound, Agree, Works
    <2> QED BY <1>3, <2>4
<1> QED BY <1>17, <1>18

-----------------------------------------------------------------------------
(* The device alone, and what is copied to and from it.                    *)

\* A job that nothing was given to, and an empty device.
LEMMA DeviceInitIs ==
    ASSUME DeviceInit
    PROVE  DInv
<1>1. Init /\ dev = EmptyDevice
    BY DEF DeviceInit
<1>2. TurnsTyped /\ Steady(Current)
    BY <1>1, InitIs DEF IInv, Steady
<1>3. /\ Current.job = job /\ Current.lines = lines /\ Current.buffers = buffers
    BY DEF Current, World
<1>4. job.particles = None /\ job.line = None /\ ~job.usable
    BY <1>1 DEF Init, EmptyJob
<1>5. HostSound(Current)
    <2>1. Scheduled(Current)
        BY <1>1, <1>3, SameLineItself DEF Init, Scheduled
    <2> QED BY <1>2, <1>3, <1>4, <2>1 DEF HostSound
<1>6. DeviceSound(dev)
    <2>1. NoConfig \in Configs
        BY DEF NoConfig, Preset, EmptyConfig, Configs, Orders, InvalidOrder, TurnElemParticles,
               NoAddress
    <2>2. /\ dev.particles = None /\ dev.turn = <<>> /\ dev.line = None
          /\ dev.monitors = <<>> /\ dev.objects = <<>>
        BY <1>1 DEF EmptyDevice
    <2>3. <<>> \in Seq(Nat) /\ <<>> \in Seq(Monitors) /\ <<>> \in Seq(Objects)
        OBVIOUS
    <2>4. dev \in Devices
        <3> HIDE DEF NoConfig
        <3> QED BY <1>1, <2>1, <2>3 DEF EmptyDevice, Devices
    <2>5. Placed(dev.objects, DeviceMemory)
        BY <2>2 DEF Placed
    <2> QED BY <2>2, <2>4, <2>5 DEF DeviceSound
<1>7. Bounded(Current)
    <2>1. \A b \in Buffers : buffers[b] = <<>>
        BY <1>1 DEF Init
    <2>2. Len(<<>>) = 0 /\ MaxObjects \in Nat
        BY Given
    <2> QED BY <1>3, <2>1, <2>2 DEF Bounded
<1>8. Present.host = Current /\ Present.dev = dev
    BY BothIs DEF Present
<1>9. BothSound(Present) /\ Agree(Present)
    BY <1>3, <1>4, <1>5, <1>6, <1>8 DEF BothSound, Agree
<1> QED BY <1>2, <1>4, <1>7, <1>9 DEF DInv

\* Clearing the job takes everything from the device and leaves no job to use.
LEMMA DeviceClearIs ==
    ASSUME DInv, DeviceClear
    PROVE  DInv'
<1>1. /\ HostSound(Current) /\ DeviceSound(dev) /\ Bounded(Current)
    BY PresentIs
<1>2. PICK w0 : w0 = Both(Current, dev) /\ w0.host = Current /\ w0.dev = dev
    BY BothIs
<1>3. PICK w1 : w1 = FreeDeviceParticles(w0)
    OBVIOUS
<1>4. w1.host = Current /\ DeviceSound(w1.dev) /\ w1.dev.particles = None
    BY <1>1, <1>2, <1>3, FreedAre
<1>5. PICK w2 : w2 = FreeDeviceLine(w1)
    OBVIOUS
<1>6. /\ w2.host = Current /\ DeviceSound(w2.dev) /\ w2.dev.particles = None
      /\ w2.dev.line = None
    BY <1>4, <1>5, FreedAre
<1>7. PICK freed : freed = FreeDeviceOutputs(w2)
    OBVIOUS
<1>8. /\ freed.host = Moved(Current, DeviceMemory) /\ DeviceSound(freed.dev)
      /\ freed.dev.particles = None /\ freed.dev.line = None
    <2>1. /\ freed.host = Moved(w2.host, DeviceMemory) /\ DeviceSound(freed.dev)
          /\ SameArguments(freed.dev, w2.dev)
        BY <1>6, <1>7, FreedAre
    <2> QED BY <1>6, <2>1 DEF SameArguments
<1>9. HostSound(freed.host)
    BY <1>1, <1>8, ConfigAway, HostFreedIs
<1>10. PICK c : c = ClearLine(ClearParticles(freed.host))
    OBVIOUS
<1>11. Steady(c) /\ c.job.particles = None /\ c.job.line = None /\ c.lines = freed.host.lines
    BY <1>9, <1>10, ClearParticlesIs, ClearLineIs DEF HostSound
<1>12. PICK g : g = ClearOutput(c)
    OBVIOUS
<1>13. /\ Steady(g) /\ g.job.particles = None /\ g.job.line = None
       /\ g.lines = FreeOwn(c).lines
    BY <1>11, <1>12, ClearOutputIs
<1>14. HostSound(g)
    <2>1. SameLines(FreeOwn(c), c)
        BY <1>11, FreeOwnIs DEF Steady
    <2>2. SameLines(g, freed.host)
        BY <1>11, <1>13, <2>1 DEF SameLines
    <2>3. Scheduled(g)
        BY <1>9, <2>2, StaysScheduled DEF HostSound
    <2> QED BY <1>13, <2>3 DEF HostSound
<1>15. PICK f : f = Failed(g)
    OBVIOUS
<1>16. HostSound(f) /\ ~Succeeds(f) /\ f.job = g.job
    BY <1>14, <1>15, HostFailedIs
<1>17. PICK d : d = [freed.dev EXCEPT !.ready = FALSE]
    OBVIOUS
<1>18. DeviceSound(d)
    <2>1. freed.dev \in Devices
        BY <1>8, DeviceTypes
    <2>2. /\ d \in Devices /\ d.particles = freed.dev.particles /\ d.line = freed.dev.line
          /\ d.turn = freed.dev.turn /\ d.monitors = freed.dev.monitors
          /\ d.objects = freed.dev.objects
        BY <1>17, <2>1 DEF Devices
    <2> QED BY <1>8, <2>2 DEF DeviceSound
<1>19. PICK r : r = Both(f, d) /\ r.host = f /\ r.dev = d
    BY BothIs
<1>20. DeviceBecome(r)
    <2>1. DeviceBecome(Both(Failed(ClearOutput(ClearLine(ClearParticles(freed.host)))),
                            [freed.dev EXCEPT !.ready = FALSE]))
        BY <1>2, <1>3, <1>5, <1>7, Zenon DEF DeviceClear
    <2> QED BY <1>10, <1>12, <1>15, <1>17, <1>19, <2>1
<1>21. BothSound(r) /\ Agree(r) /\ ~Works(r)
    BY <1>13, <1>16, <1>18, <1>19 DEF BothSound, Agree, Works
<1> QED BY <1>20, <1>21, DeviceBecomeIs

\* The turns of the particles on the device take no part in the rest.
LEMMA DeviceTurnsAre ==
    ASSUME DInv, NEW t \in Seq(Nat), Len(t) = Len(dev.turn),
           dev' = [dev EXCEPT !.turn = t], UNCHANGED <<turn, lines, buffers, job>>
    PROVE  DInv'
<1>1. DeviceSound(dev) /\ dev \in Devices
    BY PresentIs, DeviceTypes
<1>2. PICK d : d = dev'
    OBVIOUS
<1>3. /\ d \in Devices /\ d.turn = t /\ d.ready = dev.ready /\ d.particles = dev.particles
      /\ d.line = dev.line /\ d.monitors = dev.monitors /\ d.config = dev.config
      /\ d.output = dev.output /\ d.objects = dev.objects /\ d.whole = dev.whole
      /\ d.stray = dev.stray
    BY <1>1, <1>2 DEF Devices
<1>4. DeviceSound(d)
    <2>1. dev.turn = <<>> => t = <<>>
        <3> SUFFICES ASSUME dev.turn = <<>> PROVE t = <<>>
            OBVIOUS
        <3>1. Len(t) = 0
            OBVIOUS
        <3> QED BY <3>1
    <2> QED BY <1>1, <1>3, <2>1 DEF DeviceSound
<1>5. Current' = Current /\ job' = job /\ turn' = turn
    BY DEF Current
<1>6. PICK w : w = Present /\ w.host = Current /\ w.dev = dev
    BY BothIs DEF Present
<1>7. PICK r : r = Both(Current, d) /\ r.host = Current /\ r.dev = d
    BY BothIs
<1>8. Present' = r
    BY <1>2, <1>5, <1>7 DEF Present
<1>9. BothSound(w) /\ Agree(w) /\ (job.usable => Done(w))
    BY <1>6 DEF DInv
<1>10. BothSound(r) /\ Agree(r)
    BY <1>3, <1>4, <1>6, <1>7, <1>9 DEF BothSound, Agree
<1>11. Done(w) => Done(r)
    <2>1. /\ r.host = w.host /\ r.dev.monitors = w.dev.monitors
          /\ r.dev.objects = w.dev.objects /\ r.dev.stray = w.dev.stray
        BY <1>3, <1>6, <1>7
    <2>2. HasInputs(r) <=> HasInputs(w)
        BY <1>6, <1>7 DEF HasInputs
    <2>3. Named(w) => Named(r)
        BY <1>3, <1>6, <1>7 DEF Named, ConfigThere, HasInputs
    <2>4. AllFit(w) => AllFit(r)
        <3>1. \A m : FitsIn(m, r.dev) <=> FitsIn(m, w.dev)
            BY <2>1 DEF FitsIn
        <3> QED BY <2>1, <3>1 DEF AllFit
    <2>5. MonitorsLed(w) => MonitorsLed(r)
        <3>1. DeviceWatching(r) = DeviceWatching(w) /\ IdsOf(r) = IdsOf(w)
            BY <2>1 DEF DeviceWatching, IdsOf
        <3>2. \A i : DeviceObjectOf(r, i) = DeviceObjectOf(w, i)
            BY <2>1, <3>1 DEF DeviceObjectOf
        <3>3. \A n, m : DeviceRoom(r.dev, n, m) <=> DeviceRoom(w.dev, n, m)
            BY <2>1 DEF DeviceRoom
        <3>4. Ranged(r) <=> Ranged(w)
            BY <2>1, <3>1 DEF Ranged
        <3> QED BY <2>1, <3>1, <3>2, <3>3, <3>4 DEF MonitorsLed
    <2>6. ConfigLed(w) => ConfigLed(r)
        BY <1>3, <1>6, <1>7 DEF ConfigLed, DeviceRoom
    <2>7. MonitorFlag(w) => MonitorFlag(r)
        BY <1>6, <1>7 DEF MonitorFlag
    <2> QED BY <2>2, <2>3, <2>4, <2>5, <2>6, <2>7 DEF Done
<1>12. TurnsTyped'
    BY <1>5 DEF DInv, TurnsTyped
<1>13. BothSound(Present)' /\ Agree(Present)' /\ Bounded(Current)' /\ (job.usable => Done(Present))'
    BY <1>5, <1>8, <1>9, <1>10, <1>11 DEF DInv, Bounded
<1> QED BY <1>12, <1>13 DEF DInv

\* Collecting the particles takes turns of the sets they are.
LEMMA CollectParticlesIs ==
    ASSUME DInv, CollectParticles
    PROVE  DInv'
<1>1. /\ DeviceSound(dev) /\ Agree(Present) /\ Present.host = Current /\ Present.dev = dev
      /\ Current.job = job /\ TurnsTyped /\ job \in Jobs
    BY PresentIs
<1>2. job.particles # None /\ dev.particles = job.particles
    BY <1>1 DEF CollectParticles, Agree
<1>3. job.particles \in ParticleBuffers
    BY <1>1, <1>2 DEF Jobs
<1>4. dev.turn \in Seq(Nat) /\ Len(dev.turn) = Len(Sets[job.particles])
    BY <1>1, <1>2, DeviceTypes DEF DeviceSound
<1>5. TurnsTyped'
    <2>1. turn' = [turn EXCEPT ![job.particles] = dev.turn]
        BY DEF CollectParticles
    <2> QED BY <1>1, <1>3, <1>4, <2>1 DEF TurnsTyped
<1>6. Present' = Present /\ Current' = Current /\ job' = job
    BY DEF CollectParticles, Present, Current
<1> QED BY <1>5, <1>6 DEF DInv, Bounded

\* Pushing the particles gives the device turns of the sets it has.
LEMMA PushParticlesIs ==
    ASSUME DInv, PushParticles
    PROVE  DInv'
<1>1. /\ DeviceSound(dev) /\ Agree(Present) /\ Present.host = Current /\ Present.dev = dev
      /\ Current.job = job /\ TurnsTyped /\ job \in Jobs
    BY PresentIs
<1>2. job.particles # None /\ dev.particles = job.particles
    BY <1>1 DEF PushParticles, Agree
<1>3. job.particles \in ParticleBuffers
    BY <1>1, <1>2 DEF Jobs
<1>4. PICK t \in Seq(Nat) : t = turn[job.particles] /\ Len(t) = Len(Sets[job.particles])
    BY <1>1, <1>3 DEF TurnsTyped
<1>5. Len(t) = Len(dev.turn)
    BY <1>1, <1>2, <1>4 DEF DeviceSound
<1>6. dev' = [dev EXCEPT !.turn = t] /\ UNCHANGED <<turn, lines, buffers, job>>
    BY <1>4 DEF PushParticles
<1> QED BY <1>5, <1>6, DeviceTurnsAre

\* Later of two turns.
LEMMA LaterTurn ==
    ASSUME NEW t \in Nat, NEW u \in Nat
    PROVE  MaxOf({t, u}) \in Nat
<1>1. {t, u} \in SUBSET Nat /\ {t, u} # {}
    OBVIOUS
<1>2. CASE t <= u
    <2>1. \A x \in {t, u} : x <= u
        BY <1>2
    <2> QED BY <1>1, <2>1, MaxOfNat
<1>3. CASE u < t
    <2>1. \A x \in {t, u} : x <= t
        BY <1>3
    <2> QED BY <1>1, <2>1, MaxOfNat
<1> QED BY <1>2, <1>3

\* Turns that are made position by position.
LEMMA TurnsMade ==
    ASSUME NEW t \in Seq(Nat), NEW s, DOMAIN s = DOMAIN t, s = [i \in DOMAIN t |-> s[i]],
           \A i \in DOMAIN t : s[i] \in Nat
    PROVE  s \in Seq(Nat) /\ Len(s) = Len(t)
<1>1. PICK len \in Nat : len = Len(t) /\ DOMAIN t = 1 .. len
    OBVIOUS
<1> QED BY <1>1

\* Tracking on the device up to a turn.
LEMMA DeviceTrackUntilIs ==
    ASSUME DInv, DeviceTrackUntil
    PROVE  DInv'
<1>1. PICK t \in Seq(Nat) : t = dev.turn
    BY PresentIs, DeviceTypes
<1>2. PICK until \in Untils :
        dev' = [dev EXCEPT !.turn =
                   [i \in DOMAIN dev.turn |->
                       IF i - 1 \in job.sets THEN MaxOf({dev.turn[i], until}) ELSE dev.turn[i]]]
    BY DEF DeviceTrackUntil, DeviceTurnsTo
<1>3. PICK s : s = [i \in DOMAIN t |-> IF i - 1 \in job.sets THEN MaxOf({t[i], until}) ELSE t[i]]
    OBVIOUS
<1>4. \A i \in DOMAIN t : s[i] \in Nat
    <2> SUFFICES ASSUME NEW i \in DOMAIN t PROVE s[i] \in Nat
        OBVIOUS
    <2>1. t[i] \in Nat /\ until \in Nat
        BY TrackJobAssumption
    <2>2. MaxOf({t[i], until}) \in Nat
        BY <2>1, LaterTurn
    <2>3. s[i] = IF i - 1 \in job.sets THEN MaxOf({t[i], until}) ELSE t[i]
        BY <1>3
    <2> QED BY <2>1, <2>2, <2>3
<1>5. s \in Seq(Nat) /\ Len(s) = Len(t)
    <2>1. DOMAIN s = DOMAIN t /\ s = [i \in DOMAIN t |-> s[i]]
        BY <1>3
    <2> QED BY <1>4, <2>1, TurnsMade
<1>6. dev' = [dev EXCEPT !.turn = s] /\ UNCHANGED <<turn, lines, buffers, job>>
    BY <1>1, <1>2, <1>3 DEF DeviceTrackUntil
<1> QED BY <1>1, <1>5, <1>6, DeviceTurnsAre

\* Tracking on the device through the line.
LEMMA DeviceTrackLineIs ==
    ASSUME DInv, DeviceTrackLine
    PROVE  DInv'
<1>1. PICK t \in Seq(Nat) : t = dev.turn
    BY PresentIs, DeviceTypes
<1>2. dev' = [dev EXCEPT !.turn =
                 [i \in DOMAIN dev.turn |->
                     IF i - 1 \in job.sets THEN dev.turn[i] + 1 ELSE dev.turn[i]]]
    BY DEF DeviceTrackLine, DeviceTurnsTo
<1>3. PICK s : s = [i \in DOMAIN t |-> IF i - 1 \in job.sets THEN t[i] + 1 ELSE t[i]]
    OBVIOUS
<1>4. s \in Seq(Nat) /\ Len(s) = Len(t)
    <2>1. DOMAIN s = DOMAIN t /\ s = [i \in DOMAIN t |-> s[i]]
        BY <1>3
    <2>2. \A i \in DOMAIN t : s[i] \in Nat
        BY <1>3
    <2> QED BY <2>1, <2>2, TurnsMade
<1>5. dev' = [dev EXCEPT !.turn = s] /\ UNCHANGED <<turn, lines, buffers, job>>
    BY <1>1, <1>2, <1>3 DEF DeviceTrackLine
<1> QED BY <1>1, <1>4, <1>5, DeviceTurnsAre

\* Where the monitors of the device lead depends on them, on the objects and on
\* what the job reports.
LEMMA LedAlike ==
    ASSUME NEW w, NEW r, r.host.job = w.host.job, r.dev.monitors = w.dev.monitors,
           r.dev.objects = w.dev.objects, r.dev.stray = w.dev.stray
    PROVE  MonitorsLed(w) => MonitorsLed(r)
<1>1. DeviceWatching(r) = DeviceWatching(w) /\ IdsOf(r) = IdsOf(w)
    BY DEF DeviceWatching, IdsOf
<1>2. \A i : DeviceObjectOf(r, i) = DeviceObjectOf(w, i)
    BY <1>1 DEF DeviceObjectOf
<1>3. \A n, m : DeviceRoom(r.dev, n, m) <=> DeviceRoom(w.dev, n, m)
    BY DEF DeviceRoom
<1>4. Ranged(r) <=> Ranged(w)
    BY <1>1 DEF Ranged
<1> QED BY <1>1, <1>2, <1>3, <1>4 DEF MonitorsLed

\* Two lines of the schedules of one.
LEMMA SameLineBoth ==
    ASSUME NEW line, NEW other, NEW given, SameLine(line, given), SameLine(other, given)
    PROVE  SameLine(line, other)
    BY DEF SameLine, SameSchedule

\* Collecting the line: the host's monitors become those of the device.
LEMMA CollectLineIs ==
    ASSUME DInv, CollectLine
    PROVE  DInv'
<1>1. /\ HostSound(Current) /\ DeviceSound(dev) /\ Agree(Present) /\ Present.host = Current
      /\ Present.dev = dev /\ Current.job = job /\ Current.lines = lines
      /\ Current.buffers = buffers /\ Current.status = "success" /\ job \in Jobs
      /\ lines \in [DOMAIN Lines -> Seq(Monitors)] /\ BothSound(Present)
    BY PresentIs
<1>2. /\ job.line # None /\ dev.line = job.line /\ job.line \in DOMAIN Lines
    <2>1. job.line # None /\ dev.line # None
        BY DEF CollectLine
    <2> QED BY <1>1, <2>1 DEF Agree, Jobs
<1>3. dev.monitors \in Seq(Monitors)
    BY <1>1, DeviceTypes
<1>4. PICK lns \in [DOMAIN Lines -> Seq(Monitors)] :
        lns = [lines EXCEPT ![job.line] = dev.monitors]
    BY <1>1, <1>2, <1>3
<1>5. lines' = lns /\ turn' = turn /\ buffers' = buffers /\ job' = job /\ dev' = dev
    BY <1>4 DEF CollectLine
<1>6. \A k \in DOMAIN Lines : lns[k] = lines[k] \/ (k = job.line /\ lns[k] = dev.monitors)
    BY <1>1, <1>4
<1>7. ASSUME NEW k \in DOMAIN Lines PROVE SameLine(lns[k], lines[k])
    <2>1. CASE lns[k] = lines[k]
        BY <2>1, SameLineItself
    <2>2. CASE k = job.line /\ lns[k] = dev.monitors
        <3>1. SameLine(dev.monitors, Lines[k])
            BY <1>1, <1>2, <2>2 DEF DeviceSound
        <3>2. SameLine(lines[k], Lines[k])
            BY <1>1 DEF HostSound, Scheduled
        <3> QED BY <2>2, <3>1, <3>2, SameLineBoth
    <2> QED BY <1>6, <2>1, <2>2
<1>8. PICK h : h = Current
    OBVIOUS
<1>9. PICK g : g = World(job, lns, buffers, "success")
    OBVIOUS
<1>10. HostSound(g) /\ g.job = job /\ g.lines = lns /\ g.buffers = buffers
    <2>1. HostSound(h) /\ h.job = job /\ h.lines = lines /\ h.buffers = buffers
          /\ h.status = "success"
        BY <1>1, <1>8
    <2>2. job.particles # None => SetsOf(job.sets, job.particles) /\ ExtentsOK(job.extents)
        BY <2>1 DEF HostSound, Steady, Sound
    <2>3. SameOutputMembers(job, h.job)
        BY <2>1 DEF SameOutputMembers
    <2>4. g = World(job, lns, h.buffers, h.status)
        BY <1>9, <2>1
    <2>5. /\ HostSound(g) /\ g.job = job /\ g.lines = lns
          /\ g.buffers = h.buffers /\ g.status = h.status
        <3>1. PICK j \in Jobs : j = job
            BY <1>1
        <3>2. \A k \in DOMAIN Lines : SameLine(lns[k], h.lines[k])
            BY <1>7, <2>1
        <3>3. j.particles # None => SetsOf(j.sets, j.particles) /\ ExtentsOK(j.extents)
            BY <2>2, <3>1
        <3>4. SameOutputMembers(j, h.job) /\ g = World(j, lns, h.buffers, h.status)
            BY <2>3, <2>4, <3>1
        <3>5. HostSound(h)
            BY <2>1
        <3>6. /\ HostSound(g) /\ g.job = j /\ g.lines = lns
              /\ g.buffers = h.buffers /\ g.status = h.status
            BY <3>2, <3>3, <3>4, <3>5, OtherInputs
        <3> QED BY <3>1, <3>6
    <2> QED BY <2>1, <2>5
<1>11. PICK w : w = Present /\ w.host = h /\ w.dev = dev
    BY <1>1, <1>8
<1>12. PICK r : r = Both(g, dev) /\ r.host = g /\ r.dev = dev
    BY BothIs
<1>13. Present' = r /\ Current' = g
    BY <1>5, <1>9, <1>12 DEF Present, Current
<1>14. BothSound(r) /\ Agree(r)
    BY <1>1, <1>8, <1>10, <1>11, <1>12 DEF BothSound, Agree
<1>15. ASSUME Done(w) PROVE Done(r)
    <2>1. HasInputs(r) <=> HasInputs(w)
        BY <1>1, <1>8, <1>10, <1>11, <1>12 DEF HasInputs
    <2>2. Named(r)
        <3>1. r.host.job = w.host.job /\ r.dev = w.dev
            BY <1>1, <1>8, <1>10, <1>11, <1>12
        <3> QED BY <1>15, <2>1, <3>1 DEF Done, Named, ConfigThere
    <2>3. AllFit(r)
        <3>1. \A i \in DOMAIN dev.monitors : FitsIn(dev.monitors[i], dev)
            BY <1>11, <1>15 DEF Done, AllFit
        <3>2. \A k \in DOMAIN Lines : \A i \in DOMAIN lines[k] : FitsIn(lines[k][i], dev)
            BY <1>1, <1>8, <1>11, <1>15 DEF Done, AllFit
        <3>3. \A k \in DOMAIN Lines : \A i \in DOMAIN lns[k] : FitsIn(lns[k][i], dev)
            BY <1>6, <3>1, <3>2
        <3> QED BY <1>10, <1>12, <3>1, <3>3 DEF AllFit
    <2>4. MonitorsLed(w) => MonitorsLed(r)
        BY <1>1, <1>8, <1>10, <1>11, <1>12, LedAlike
    <2>5. ConfigLed(w) => ConfigLed(r)
        BY <1>1, <1>8, <1>10, <1>11, <1>12 DEF ConfigLed
    <2>6. MonitorFlag(w) => MonitorFlag(r)
        <3>1. NeedsMonitors(LineOf(g)) <=> NeedsMonitors(LineOf(h))
            BY <1>1, <1>2, <1>8, <1>10, SameNeeds
        <3> QED BY <1>1, <1>8, <1>10, <1>11, <1>12, <3>1 DEF MonitorFlag
    <2> QED BY <1>15, <2>1, <2>2, <2>3, <2>4, <2>5, <2>6 DEF Done
<1>16. TurnsTyped'
    BY <1>5 DEF DInv, TurnsTyped
<1>17. Bounded(Current)'
    BY <1>1, <1>10, <1>13 DEF DInv, Bounded
<1>18. job.usable => Done(w)
    BY <1>11 DEF DInv
<1> QED BY <1>5, <1>13, <1>14, <1>15, <1>16, <1>17, <1>18 DEF DInv

\* Pushing the line: the device's monitors become those of the host.
LEMMA PushLineIs ==
    ASSUME DInv, PushLine
    PROVE  DInv'
<1>1. /\ HostSound(Current) /\ DeviceSound(dev) /\ Agree(Present) /\ Present.host = Current
      /\ Present.dev = dev /\ Current.job = job /\ Current.lines = lines
      /\ job \in Jobs /\ lines \in [DOMAIN Lines -> Seq(Monitors)] /\ BothSound(Present)
    BY PresentIs
<1>2. /\ job.line # None /\ dev.line = job.line /\ job.line \in DOMAIN Lines
    <2>1. job.line # None /\ dev.line # None
        BY DEF PushLine
    <2> QED BY <1>1, <2>1 DEF Agree, Jobs
<1>3. PICK line \in Seq(Monitors) : line = lines[job.line]
    BY <1>1, <1>2
<1>4. PICK stray \in BOOLEAN : stray = (dev.stray \/ line # dev.monitors)
    BY <1>1, DeviceTypes
<1>5. PICK d : d = dev'
    OBVIOUS
<1>6. d = [dev EXCEPT !.monitors = line, !.stray = stray]
    BY <1>3, <1>4, <1>5 DEF PushLine
<1>7. dev \in Devices
    BY <1>1, DeviceTypes
<1>8. /\ d \in Devices /\ d.monitors = line /\ d.stray = stray /\ d.turn = dev.turn
      /\ d.ready = dev.ready /\ d.particles = dev.particles /\ d.line = dev.line
      /\ d.config = dev.config /\ d.output = dev.output /\ d.objects = dev.objects
      /\ d.whole = dev.whole
    BY <1>6, <1>7 DEF Devices
<1>9. DeviceSound(d)
    <2>1. SameLine(line, Lines[dev.line])
        BY <1>1, <1>2, <1>3 DEF HostSound, Scheduled
    <2> QED BY <1>1, <1>2, <1>8, <2>1, Given DEF DeviceSound
<1>10. turn' = turn /\ lines' = lines /\ buffers' = buffers /\ job' = job /\ Current' = Current
    BY DEF PushLine, Current
<1>11. PICK w : w = Present /\ w.host = Current /\ w.dev = dev
    BY <1>1
<1>12. PICK r : r = Both(Current, d) /\ r.host = Current /\ r.dev = d
    BY BothIs
<1>13. Present' = r
    BY <1>5, <1>10, <1>12 DEF Present
<1>14. BothSound(r) /\ Agree(r)
    BY <1>1, <1>8, <1>9, <1>11, <1>12 DEF BothSound, Agree
<1>15. ASSUME Done(w) PROVE Done(r)
    <2>1. HasInputs(r) <=> HasInputs(w)
        BY <1>11, <1>12 DEF HasInputs
    <2>2. Named(w) => Named(r)
        BY <1>8, <1>11, <1>12 DEF Named, ConfigThere, HasInputs
    <2>3. AllFit(r)
        <3>1. \A k \in DOMAIN Lines : \A i \in DOMAIN lines[k] : FitsIn(lines[k][i], dev)
            BY <1>1, <1>11, <1>15 DEF Done, AllFit
        <3>2. \A m : FitsIn(m, d) <=> FitsIn(m, dev)
            BY <1>8 DEF FitsIn
        <3>3. \A i \in DOMAIN d.monitors : FitsIn(d.monitors[i], d)
            BY <1>2, <1>3, <1>8, <3>1, <3>2
        <3>4. \A k \in DOMAIN Lines : \A i \in DOMAIN lines[k] : FitsIn(lines[k][i], d)
            BY <3>1, <3>2
        <3> QED BY <1>1, <1>12, <3>3, <3>4 DEF AllFit
    <2>4. MonitorsLed(w) => MonitorsLed(r)
        <3>1. CASE stray
            BY <1>8, <1>12, <3>1 DEF MonitorsLed
        <3>2. CASE ~stray
            <4>1. d.monitors = dev.monitors /\ d.stray = dev.stray
                <5>1. ~dev.stray /\ line = dev.monitors
                    BY <1>4, <3>2
                <5>2. dev.stray \in BOOLEAN
                    BY <1>1, DeviceTypes
                <5> QED BY <1>8, <3>2, <5>1, <5>2
            <4> QED BY <1>8, <1>11, <1>12, <4>1, LedAlike
        <3> QED BY <3>1, <3>2
    <2>5. ConfigLed(w) => ConfigLed(r)
        BY <1>8, <1>11, <1>12 DEF ConfigLed, DeviceRoom
    <2>6. MonitorFlag(w) => MonitorFlag(r)
        BY <1>11, <1>12 DEF MonitorFlag
    <2> QED BY <1>15, <2>1, <2>2, <2>3, <2>4, <2>5, <2>6 DEF Done
<1>16. TurnsTyped'
    BY <1>10 DEF DInv, TurnsTyped
<1>17. Bounded(Current)'
    BY <1>10 DEF DInv, Bounded
<1>18. job.usable => Done(w)
    BY <1>11 DEF DInv
<1> QED BY <1>10, <1>13, <1>14, <1>15, <1>16, <1>17, <1>18 DEF DInv

\* Every step keeps the inductive invariant.
LEMMA DeviceNextIs ==
    ASSUME DInv, [DeviceNext]_deviceVars
    PROVE  DInv'
<1>1. Outputs \subseteq Buffers \cup {NoBuffer} /\ (Own \in Outputs => OwnsOutput(job))
    BY Given DEF Outputs, Own, NoBuffer
<1>2. CASE DeviceReset
    <2>1. PICK particles \in ParticleBuffers, selection \in Selections \cup {Keep},
               line \in DOMAIN Lines, output \in Outputs, until \in Untils,
               moves \in BOOLEAN, failing \in Arguments \cup {None} :
            DeviceBecome(DeviceResetWorld(particles, selection, line, output,
                                          until, moves, failing))
        BY <1>2 DEF DeviceReset
    <2>2. selection \in SUBSET Nat /\ until \in Nat
        BY TrackJobAssumption DEF Keep
    <2>3. output \in Buffers \cup {NoBuffer} /\ (output = Own => OwnsOutput(job))
        BY <1>1
    <2>4. PICK w : w = DeviceResetWorld(particles, selection, line, output, until, moves, failing)
        OBVIOUS
    <2>5. BothSound(w) /\ Agree(w) /\ (Works(w) /\ Bounded(w.host) => Done(w))
        BY <2>2, <2>3, <2>4, DeviceResetWorldIs
    <2> QED BY <2>1, <2>4, <2>5, DeviceBecomeIs
<1>3. CASE DeviceClear
    BY <1>3, DeviceClearIs
<1>4. CASE DeviceAssignOutputBuffer
    <2>1. PICK output \in Outputs, moves \in BOOLEAN, failing \in {"config", "output", None} :
            DeviceBecome(DeviceAssignWorld(output, moves, failing))
        BY <1>4 DEF DeviceAssignOutputBuffer
    <2>2. output \in Buffers \cup {NoBuffer} /\ (output = Own => OwnsOutput(job)) /\ Attached
        BY <1>1, <1>4 DEF DeviceAssignOutputBuffer
    <2>3. PICK w : w = DeviceAssignWorld(output, moves, failing)
        OBVIOUS
    <2>4. BothSound(w) /\ Agree(w) /\ (Works(w) /\ Bounded(w.host) => Done(w))
        BY <2>2, <2>3, DeviceAssignWorldIs
    <2> QED BY <2>1, <2>3, <2>4, DeviceBecomeIs
<1>5. CASE CollectParticles
    BY <1>5, CollectParticlesIs
<1>6. CASE PushParticles
    BY <1>6, PushParticlesIs
<1>7. CASE CollectLine
    BY <1>7, CollectLineIs
<1>8. CASE PushLine
    BY <1>8, PushLineIs
<1>9. CASE DeviceTrackUntil
    BY <1>9, DeviceTrackUntilIs
<1>10. CASE DeviceTrackLine
    BY <1>10, DeviceTrackLineIs
<1>11. CASE UNCHANGED deviceVars
    <2>1. Present' = Present /\ Current' = Current /\ job' = job /\ turn' = turn
        BY <1>11 DEF deviceVars, Current, Present
    <2> QED BY <2>1 DEF DInv, TurnsTyped, Bounded
<1> QED BY <1>2, <1>3, <1>4, <1>5, <1>6, <1>7, <1>8, <1>9, <1>10, <1>11 DEF DeviceNext

-----------------------------------------------------------------------------
(* The theorems.                                                           *)

\* The inductive invariant holds: the world of the host is sound, the device
\* has what it names at places of its own and names what the job names, and a
\* job that reported success has what its set-up promised.
THEOREM DeviceInvariant == DeviceSpec => []DInv
<1>1. DeviceInit => DInv
    BY DeviceInitIs
<1>2. DInv /\ [DeviceNext]_deviceVars => DInv'
    BY DeviceNextIs
<1> QED BY <1>1, <1>2, PTL DEF DeviceSpec

\* The shape of the state of a job on the device (DeviceTypeOK): the argument
\* of the particles has their sets, that of the output objects of the device.
THEOREM DeviceShape == DeviceSpec => []DeviceTypeOK
<1>1. DInv => DeviceTypeOK
    <2> SUFFICES ASSUME DInv PROVE DeviceTypeOK
        OBVIOUS
    <2>1. DeviceSound(dev)
        BY PresentIs
    <2>2. /\ dev.monitors \in Seq(Monitors) /\ dev.config \in Configs
          /\ dev.objects \in Seq(Objects) /\ dev.turn \in Seq(Nat)
          /\ dev.output \in Buffers \cup {NoBuffer}
          /\ dev.particles \in ParticleBuffers \cup {None} /\ dev.line \in DOMAIN Lines \cup {None}
          /\ dev.ready \in BOOLEAN /\ dev.whole \in BOOLEAN /\ dev.stray \in BOOLEAN
        BY <2>1, DeviceTypes
    <2>3. dev.turn = <<>> \/ DOMAIN dev.turn = DOMAIN Sets[dev.particles]
        <3>1. CASE dev.particles = None
            BY <2>1, <3>1 DEF DeviceSound
        <3>2. CASE dev.particles # None
            <4>1. dev.particles \in ParticleBuffers /\ Len(dev.turn) = Len(Sets[dev.particles])
                BY <2>1, <2>2, <3>2 DEF DeviceSound
            <4>2. Sets[dev.particles] \in Seq(Nat \X Nat)
                BY <4>1, Given
            <4> QED BY <2>2, <4>1, <4>2
        <3> QED BY <3>1, <3>2
    <2>4. \A i \in DOMAIN dev.objects : dev.objects[i].addr = Address(DeviceMemory, i)
        BY <2>1 DEF DeviceSound, Placed
    <2> QED BY <2>2, <2>3, <2>4 DEF DeviceTypeOK
<1> QED BY <1>1, DeviceInvariant, PTL

\* What the n-th object of the device has room for, an address finds.
LEMMA RoomHolds ==
    ASSUME DInv, NEW n, NEW num_particles, DeviceRoom(dev, n, num_particles)
    PROVE  DeviceHolds(Address(DeviceMemory, n), num_particles)
<1>1. Placed(dev.objects, DeviceMemory)
    BY PresentIs DEF DeviceSound
<1> QED BY <1>1 DEF DeviceRoom, DeviceHolds, Placed

\* A usable job tracks into the output on the device (DeviceOutputLive): its
\* monitors with turns ahead and its configuration lead to the objects at the
\* places the host reports, each with room for the selected particles.
THEOREM DeviceTracksIntoOutput == DeviceSpec => []DeviceOutputLive
<1>1. DInv => DeviceOutputLive
    <2> SUFFICES ASSUME DInv, Attached PROVE DeviceOutputLive
        BY DEF DeviceOutputLive
    <2>1. PICK w : w = Present /\ w.dev = dev /\ w.host.job = job
        BY PresentIs
    <2>2. Done(w) /\ HasInputs(w)
        BY <2>1 DEF DInv, Attached, HasInputs
    <2>3. MonitorsLed(w) /\ ConfigLed(w)
        BY <2>2 DEF Done
    <2>4. DeviceWatching(w) = DeviceMonitored /\ IdsOf(w) = NumIds
        BY <2>1 DEF DeviceWatching, DeviceMonitored, IdsOf, NumIds
    <2>5. ASSUME ~dev.stray, \A i \in DeviceMonitored : InRange(dev.monitors[i]),
                 NEW i \in DeviceMonitored
          PROVE  LET at == job.monitor_offset + Cardinality({k \in DeviceMonitored : k <= i})
                 IN  /\ dev.monitors[i].out_address = Address(DeviceMemory, at)
                     /\ DeviceHolds(Address(DeviceMemory, at),
                                    NumIds * dev.monitors[i].num_stores)
        <3>1. Ranged(w)
            BY <2>1, <2>4, <2>5 DEF Ranged, InRange
        <3>2. PICK at : at = DeviceObjectOf(w, i)
            OBVIOUS
        <3>3. /\ dev.monitors[i].out_address = Address(DeviceMemory, at)
              /\ DeviceRoom(dev, at, NumIds * dev.monitors[i].num_stores)
            BY <2>1, <2>3, <2>4, <2>5, <3>1, <3>2 DEF MonitorsLed
        <3>4. DeviceHolds(Address(DeviceMemory, at), NumIds * dev.monitors[i].num_stores)
            BY <3>3, RoomHolds
        <3>5. at = job.monitor_offset + Cardinality({k \in DeviceMonitored : k <= i})
            BY <2>1, <2>4, <3>2 DEF DeviceObjectOf
        <3> QED BY <3>3, <3>4, <3>5
    <2>6. ASSUME job.config.out_store_addr # NoAddress
          PROVE  /\ dev.config.out_store_addr = Address(DeviceMemory, job.elem_offset + 1)
                 /\ DeviceHolds(dev.config.out_store_addr, OutStoreNumParticles(job.config))
        <3>1. /\ dev.config.out_store_addr = Address(DeviceMemory, job.elem_offset + 1)
              /\ DeviceRoom(dev, job.elem_offset + 1, OutStoreNumParticles(job.config))
            BY <2>1, <2>3, <2>6 DEF ConfigLed
        <3> QED BY <3>1, RoomHolds
    <2> QED BY <2>5, <2>6 DEF DeviceOutputLive
<1> QED BY <1>1, DeviceInvariant, PTL

\* Whatever leads into the output on the device has room there
\* (DeviceWritesFit), in the line on the device and in every line of the host
\* that a caller may push again.
THEOREM DeviceNeverOverruns == DeviceSpec => []DeviceWritesFit
<1>1. DInv => DeviceWritesFit
    <2> SUFFICES ASSUME DInv, job.usable PROVE DeviceWritesFit
        BY DEF DeviceWritesFit
    <2>1. PICK w : w = Present /\ w.dev = dev /\ w.host.lines = lines
        BY PresentIs
    <2>2. AllFit(w)
        BY <2>1 DEF DInv, Done
    <2>3. \A m : FitsIn(m, dev) => Fits(m)
        BY DEF FitsIn, Fits, DeviceHolds
    <2> QED BY <2>1, <2>2, <2>3 DEF AllFit, DeviceWritesFit
<1> QED BY <1>1, DeviceInvariant, PTL

\* A job set up with all of its arguments has those that tracking asserts, made
\* of the buffers it names (ArgumentsNamed).
THEOREM DeviceArgumentsNamed == DeviceSpec => []ArgumentsNamed
<1>1. DInv => ArgumentsNamed
    <2> SUFFICES ASSUME DInv, job.usable, dev.whole PROVE ArgumentsNamed
        BY DEF ArgumentsNamed
    <2>1. PICK w : w = Present /\ w.dev = dev /\ w.host.job = job
        BY PresentIs
    <2>2. Named(w)
        BY <2>1 DEF DInv, Done
    <2> QED BY <2>1, <2>2 DEF Named, HasInputs, ConfigThere, ArgumentsNamed
<1> QED BY <1>1, DeviceInvariant, PTL

\* On a device too the job keeps what its accessors assert (JobAssertions).
THEOREM DeviceKeepsAssertions == DeviceSpec => []JobAssertions
<1>1. DInv => JobAssertions
    <2> SUFFICES ASSUME DInv PROVE JobAssertions
        OBVIOUS
    <2>1. HostSound(Current) /\ Current.job = job /\ Current.buffers = buffers
        BY PresentIs
    <2> QED BY <2>1 DEF HostSound, Steady, Sound, ConfigLive, OffsetIn, JobAssertions
<1> QED BY <1>1, DeviceInvariant, PTL
=============================================================================
