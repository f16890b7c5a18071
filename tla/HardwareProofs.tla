--------------------------- MODULE HardwareProofs ---------------------------
(***************************************************************************)
(* The two components a controller manager asks to switch command modes:   *)
(* FrankaMultiHardwareInterface (CommandModeSwitch) and, at the end, the   *)
(* simulated FrankaMjHardwareSystem (SimHardware), for any arms,           *)
(* controllers and bounds.                                                 *)
(***************************************************************************)
EXTENDS CommandModeSwitch, FiniteSetTheorems, WellFoundedInduction, TLAPS

-----------------------------------------------------------------------------
(***************************************************************************)
(* The sizes of interface lists: MapThenSumSet adds up the groups of a     *)
(* finite list, whichever it takes first.                                  *)
(***************************************************************************)
\* Among finite sets there is one that has no other below it: the induction over
\* finite sets in a form without an operator.
LEMMA SmallestSet ==
  ASSUME NEW U, U # {}, \A A \in U : IsFiniteSet(A)
  PROVE  \E A \in U : \A B \in U : B \subseteq A => B = A
<1> DEFINE S == UNION U
           R == StrictSubsetOrdering(S)
<1>1. U \subseteq FiniteSubsetsOf(S)
  BY DEF FiniteSubsetsOf
<1>2. IsWellFoundedOn(R, FiniteSubsetsOf(S))
  BY FS_StrictSubsetOrderingWellFounded
<1>3. \E A \in U : \A B \in U : ~ (<<B, A>> \in R)
  <2> HIDE DEF R
  <2> QED BY <1>1, <1>2, WFMin, Zenon
<1>4. \A A, B \in U : B \subseteq A /\ B # A => <<B, A>> \in R
  BY DEF StrictSubsetOrdering
<1> QED BY <1>3, <1>4, Zenon

\* The function by which MapThenSumSet adds up the subsets of a list.
Pick(s) == CHOOSE x \in s : TRUE
Adds(h, list) ==
  h = [s \in SUBSET list |->
         IF s = {} THEN 0 ELSE Pick(s).size + h[s \ {Pick(s)}]]

LEMMA SizeIsSum == \A list : Size(list) = (CHOOSE h : Adds(h, list))[list]
  BY DEF Size, MapThenSumSet, MapThenFoldSet, Adds, Pick

LEMMA PickIn == \A s : s # {} => Pick(s) \in s
  BY DEF Pick

LEMMA AddsOnce ==
  ASSUME NEW A, IsFiniteSet(A), NEW B, NEW C, NEW h, NEW k,
         Adds(h, B), Adds(k, C), A \subseteq B, A \subseteq C
  PROVE  h[A] = k[A]
<1> DEFINE U == {s \in SUBSET A : h[s] # k[s]}
<1> SUFFICES ASSUME U # {} PROVE FALSE
  OBVIOUS
<1>1. \A s \in U : IsFiniteSet(s)
  BY FS_Subset
<1>2. PICK s \in U : \A r \in U : r \subseteq s => r = s
  <2> HIDE DEF U
  <2> QED BY <1>1, SmallestSet
<1>3. s \in SUBSET B /\ s \in SUBSET C /\ s \in SUBSET A
  OBVIOUS
<1>4. /\ h[s] = IF s = {} THEN 0 ELSE Pick(s).size + h[s \ {Pick(s)}]
      /\ k[s] = IF s = {} THEN 0 ELSE Pick(s).size + k[s \ {Pick(s)}]
  BY <1>3 DEF Adds
<1>5. s # {} => s \ {Pick(s)} # s /\ s \ {Pick(s)} \in SUBSET A
  BY PickIn
<1>6. s # {} => h[s \ {Pick(s)}] = k[s \ {Pick(s)}]
  BY <1>2, <1>5
<1> QED BY <1>4, <1>6
\* The recursion defines a function: otherwise there were a smallest list for which
\* it does not, and the sizes of its subsets make one up.
LEMMA AddsDefined == \A list : IsFiniteSet(list) => \E h : Adds(h, list)
<1> SUFFICES ASSUME NEW list, IsFiniteSet(list), ~ \E h : Adds(h, list) PROVE FALSE
  OBVIOUS
<1> DEFINE U == {s \in SUBSET list : ~ \E h : Adds(h, s)}
<1>1. U # {} /\ \A s \in U : IsFiniteSet(s)
  BY FS_Subset
<1>2. PICK B \in U : \A s \in U : s \subseteq B => s = B
  <2> HIDE DEF U
  <2> QED BY <1>1, SmallestSet
<1>3. IsFiniteSet(B) /\ ~ \E h : Adds(h, B)
  BY <1>1
<1>4. \A s \in SUBSET B : s # B => Adds(CHOOSE h : Adds(h, s), s)
  BY <1>2
<1>5. \A s \in SUBSET B : s # B =>
        Size(s) = IF s = {} THEN 0 ELSE Pick(s).size + Size(s \ {Pick(s)})
  <2> SUFFICES ASSUME NEW s \in SUBSET B, s # B
      PROVE  Size(s) = IF s = {} THEN 0 ELSE Pick(s).size + Size(s \ {Pick(s)})
    OBVIOUS
  <2> DEFINE r == s \ {Pick(s)}
             h == CHOOSE f : Adds(f, s)
             k == CHOOSE f : Adds(f, r)
  <2>1. Size(s) = h[s] /\ Size(r) = k[r]
    BY SizeIsSum
  <2>2. Adds(h, s)
    BY <1>4
  <2>3. h[s] = IF s = {} THEN 0 ELSE Pick(s).size + h[r]
    <3> HIDE DEF h
    <3> QED BY <2>2 DEF Adds
  <2>4. CASE s # {}
    <3>1. r \in SUBSET B /\ r # B /\ r \subseteq s
      BY <2>4, PickIn
    <3>2. Adds(k, r)
      BY <3>1, <1>4
    <3>3. IsFiniteSet(r)
      BY <3>1, <1>3, FS_Subset
    <3>4. h[r] = k[r]
      <4> HIDE DEF h, k, r
      <4> QED BY <2>2, <3>1, <3>2, <3>3, AddsOnce
    <3> QED BY <2>1, <2>3, <3>4
  <2> QED BY <2>1, <2>3, <2>4
<1> DEFINE H == [s \in SUBSET B |-> IF s = {} THEN 0
                                   ELSE Pick(s).size + Size(s \ {Pick(s)})]
<1>6. \A s \in SUBSET B : s # {} => H[s \ {Pick(s)}] = Size(s \ {Pick(s)})
  <2> SUFFICES ASSUME NEW s \in SUBSET B, s # {}
      PROVE  H[s \ {Pick(s)}] = Size(s \ {Pick(s)})
    OBVIOUS
  <2>1. s \ {Pick(s)} \in SUBSET B /\ s \ {Pick(s)} # B
    BY PickIn
  <2> QED BY <2>1, <1>5
<1>7. H = [s \in SUBSET B |-> IF s = {} THEN 0 ELSE Pick(s).size + H[s \ {Pick(s)}]]
  <2>1. \A s \in SUBSET B : H[s] = IF s = {} THEN 0 ELSE Pick(s).size + H[s \ {Pick(s)}]
    <3> SUFFICES ASSUME NEW s \in SUBSET B
        PROVE  H[s] = IF s = {} THEN 0 ELSE Pick(s).size + H[s \ {Pick(s)}]
      OBVIOUS
    <3>1. H[s] = IF s = {} THEN 0 ELSE Pick(s).size + Size(s \ {Pick(s)})
      OBVIOUS
    <3> HIDE DEF H
    <3> QED BY <3>1, <1>6
  <2>2. H = [s \in SUBSET B |-> H[s]]
    OBVIOUS
  <2> HIDE DEF H
  <2> QED BY <2>1, <2>2
<1> QED
  <2>1. Adds(H, B)
    BY <1>7 DEF Adds
  <2> HIDE DEF H
  <2> QED BY <2>1, <1>3

\* The recursion of MapThenSumSet, for its own choice of an element.
LEMMA SizePicks ==
  ASSUME NEW list, IsFiniteSet(list), list # {}
  PROVE  Size(list) = Pick(list).size + Size(list \ {Pick(list)})
<1> DEFINE r == list \ {Pick(list)}
           h == CHOOSE f : Adds(f, list)
           k == CHOOSE f : Adds(f, r)
<1>1. IsFiniteSet(r) /\ r \subseteq list
  BY FS_Subset
<1>2. Adds(h, list) /\ Adds(k, r)
  <2> HIDE DEF r
  <2> QED BY <1>1, AddsDefined
<1>3. Size(list) = h[list] /\ Size(r) = k[r]
  BY SizeIsSum
<1> HIDE DEF h, k
<1>4. h[list] = Pick(list).size + h[r]
  BY <1>2 DEF Adds
<1>5. h[r] = k[r]
  <2> HIDE DEF r
  <2> QED BY <1>1, <1>2, AddsOnce
<1> QED BY <1>3, <1>4, <1>5

LEMMA SizeEmpty == Size({}) = 0
  BY DEF Size, MapThenSumSet, MapThenFoldSet

\* A list whose groups have a size.
Sized(list) == IsFiniteSet(list) /\ \A g \in list : g.size \in Nat \ {0}

\* No matter which group MapThenSumSet takes first.
LEMMA SizeAdd ==
  \A list : Sized(list) =>
    /\ Size(list) \in Nat
    /\ \A g : g \notin list /\ g.size \in Nat \ {0} => Size(list \cup {g}) = Size(list) + g.size
<1> DEFINE Right(s) == /\ Size(s) \in Nat
                       /\ \A g : g \notin s /\ g.size \in Nat \ {0} =>
                            Size(s \cup {g}) = Size(s) + g.size
<1> SUFFICES ASSUME NEW list, Sized(list), ~Right(list) PROVE FALSE
  OBVIOUS
<1> DEFINE U == {s \in SUBSET list : ~Right(s)}
<1>1. U # {} /\ \A s \in U : IsFiniteSet(s)
  BY FS_Subset DEF Sized
<1>2. PICK B \in U : \A s \in U : s \subseteq B => s = B
  <2> HIDE DEF U
  <2> QED BY <1>1, SmallestSet
<1>3. Sized(B) /\ ~Right(B)
  BY <1>1 DEF Sized
<1>4. \A s \in SUBSET B : s # B => Right(s)
  BY <1>2
<1> HIDE DEF Right
<1>5. \A p \in B : Size(B) = Size(B \ {p}) + p.size
  <2> SUFFICES ASSUME NEW p \in B PROVE Size(B) = Size(B \ {p}) + p.size
    OBVIOUS
  <2>1. Right(B \ {p})
    BY <1>4
  <2>2. B = (B \ {p}) \cup {p} /\ p.size \in Nat \ {0}
    BY <1>3 DEF Sized
  <2> QED BY <2>1, <2>2 DEF Right
<1>6. Size(B) \in Nat
  <2>1. CASE B = {}
    BY <2>1, SizeEmpty
  <2>2. CASE B # {}
    <3>1. PICK p \in B : TRUE
      BY <2>2
    <3>2. Size(B \ {p}) \in Nat
      BY <1>4 DEF Right
    <3> QED BY <1>3, <1>5, <3>2 DEF Sized
  <2> QED BY <2>1, <2>2
<1>7. ASSUME NEW g, g \notin B, g.size \in Nat \ {0}
      PROVE  Size(B \cup {g}) = Size(B) + g.size
  <2> DEFINE C == B \cup {g}
             p == Pick(C)
  <2>1. IsFiniteSet(C) /\ C # {}
    BY <1>3, FS_AddElement DEF Sized
  <2>2. Size(C) = p.size + Size(C \ {p}) /\ p \in C
    BY <2>1, SizePicks, PickIn
  <2> HIDE DEF p
  <2>3. CASE p = g
    <3>1. C \ {p} = B
      BY <2>3, <1>7
    <3>2. Size(C) = g.size + Size(B)
      <4> HIDE DEF C
      <4> QED BY <2>2, <2>3, <3>1
    <3>3. g.size \in Nat
      BY <1>7
    <3> QED BY <3>2, <3>3, <1>6
  <2>4. CASE p # g
    <3>1. p \in B /\ C \ {p} = (B \ {p}) \cup {g} /\ g \notin B \ {p}
      BY <2>2, <2>4, <1>7
    <3>2. Right(B \ {p})
      BY <3>1, <1>4
    <3>3. Size(C \ {p}) = Size(B \ {p}) + g.size /\ Size(B \ {p}) \in Nat
      BY <3>1, <3>2, <1>7 DEF Right
    <3>4. p.size \in Nat
      BY <3>1, <1>3 DEF Sized
    <3> QED BY <2>2, <3>1, <3>3, <3>4, <1>5, <1>7
  <2> QED BY <2>3, <2>4
<1> QED BY <1>3, <1>6, <1>7 DEF Right

\* A part of a list that has the size of the list is the list.
LEMMA SizeOfPart ==
  \A list, part : Sized(list) /\ part \subseteq list =>
    /\ Size(part) <= Size(list)
    /\ Size(part) = Size(list) => part = list
<1> SUFFICES ASSUME NEW list, NEW top, Sized(top), list \subseteq top,
                    ~(Size(list) <= Size(top) /\ (Size(list) = Size(top) => list = top))
             PROVE  FALSE
  OBVIOUS
<1> DEFINE U == {s \in SUBSET top : list \subseteq s /\
                   ~(Size(list) <= Size(s) /\ (Size(list) = Size(s) => list = s))}
<1>1. U # {} /\ \A s \in U : IsFiniteSet(s)
  BY FS_Subset DEF Sized
<1>2. PICK B \in U : \A s \in U : s \subseteq B => s = B
  <2> HIDE DEF U
  <2> QED BY <1>1, SmallestSet
<1>3. Sized(B) /\ Sized(list)
  BY <1>1, FS_Subset DEF Sized
<1>4. Size(B) \in Nat /\ Size(list) \in Nat
  BY <1>3, SizeAdd
<1>5. PICK g \in B : g \notin list
  BY <1>4
<1> DEFINE s == B \ {g}
<1>6. s \in SUBSET top /\ list \subseteq s /\ s # B /\ s \subseteq B
  BY <1>5
<1>7. Size(list) <= Size(s)
  BY <1>2, <1>6
<1>8. Sized(s) /\ g.size \in Nat \ {0} /\ s \cup {g} = B /\ g \notin s
  BY <1>3, FS_Subset DEF Sized
<1>9. Size(B) = Size(s) + g.size /\ Size(s) \in Nat
  <2> HIDE DEF s
  <2> QED BY <1>8, SizeAdd
<1> QED BY <1>4, <1>7, <1>8, <1>9

-----------------------------------------------------------------------------
\* A pass that returns ERROR has not handled the arm it failed at.
LEMMA BeforeIsGood == \A bad \in SUBSET Arms : Before(bad) \cap bad = {}
<1> SUFFICES ASSUME NEW bad \in SUBSET Arms, NEW a \in Before(bad), a \in bad PROVE FALSE
  OBVIOUS
<1>1. a \in Arms /\ Position[a] < Position[a]
  BY DEF Before
<1>2. Position[a] \in Nat
  BY <1>1, ArmsAssumption
<1> QED BY <1>1, <1>2

LEMMA ModeForType ==
  ASSUME NEW list, NEW own, Uniform(list, own)
  PROVE  ModeFor(list, own) \in Modes
<1>1. PICK s \in Spaces : HasSpace(own, s)
  BY DEF Uniform
<1>2. PICK k \in Kinds : HasKind(list, k)
  BY DEF Uniform
<1>3. <<s, k>> \in Spaces \X Kinds /\ <<s, k>>[1] = s /\ <<s, k>>[2] = k
  OBVIOUS
<1>4. \E m \in Spaces \X Kinds : HasSpace(own, m[1]) /\ HasKind(list, m[2])
  BY <1>1, <1>2, <1>3
<1> QED BY <1>4 DEF ModeFor, Modes

\* The arms the start pass changes get a mode, whatever it answers in the end.
LEMMA StartPassType ==
  ASSUME NEW start, NEW modes,
         NEW a \in StartPass(start, modes).done
  PROVE  ModeFor(start, Own(start, a)) \in Modes
<1> DEFINE bad == {b \in Arms : StartRefused(b, start, modes[b])}
<1>1. a \in Before(bad) /\ Own(start, a) # {}
  BY DEF StartPass
<1>2. a \in Arms /\ a \notin bad
  BY <1>1, BeforeIsGood DEF Before
<1>3. Uniform(start, Own(start, a))
  BY <1>1, <1>2 DEF StartRefused
<1> QED BY <1>3, ModeForType

\* What prepare_command_mode_switch leaves behind, whatever it answers: modes, and
\* a mark on every arm whose mode it changed.
LEMMA PrepareMarks ==
  ASSUME mode \in [Arms -> Modes], switch \in [Arms -> BOOLEAN], NEW start, NEW stop
  PROVE  LET p == PrepareCommandModeSwitch(start, stop) IN
         /\ p.ok \in BOOLEAN
         /\ p.mode \in [Arms -> Modes]
         /\ p.switch \in [Arms -> BOOLEAN]
         /\ \A a \in Arms : ~p.switch[a] => ~switch[a] /\ p.mode[a] = mode[a]
<1> DEFINE stopping == StopPass(stop)
           modes    == [a \in Arms |-> IF a \in stopping.done THEN None ELSE mode[a]]
           starting == IF stopping.bad = {} THEN StartPass(start, modes)
                                            ELSE [bad |-> {}, done |-> {}]
           newMode  == [a \in Arms |-> IF a \in starting.done
                                       THEN ModeFor(start, Own(start, a)) ELSE modes[a]]
           marked   == Mark(stopping.done, starting.done)
<1>1. modes \in [Arms -> Modes]
  BY DEF Modes
<1>2. \A a \in starting.done : ModeFor(start, Own(start, a)) \in Modes
  <2>1. CASE stopping.bad = {}
    BY <2>1, StartPassType
  <2>2. CASE stopping.bad # {}
    BY <2>2
  <2> QED BY <2>1, <2>2
<1>3. newMode \in [Arms -> Modes]
  <2> HIDE DEF modes, starting
  <2> QED BY <1>1, <1>2
<1>4. marked \in [Arms -> BOOLEAN]
        /\ \A a \in Arms : ~marked[a] => /\ ~switch[a]
                                         /\ a \notin stopping.done \cup starting.done
  <2> HIDE DEF stopping, starting
  <2> QED BY DEF Mark
<1>5. \A a \in Arms : ~marked[a] => newMode[a] = mode[a]
  <2> HIDE DEF stopping, starting, marked
  <2> QED BY <1>4
<1>6. PrepareCommandModeSwitch(start, stop)
        = [ok |-> stopping.bad \cup starting.bad = {}, mode |-> newMode, switch |-> marked]
  BY DEF PrepareCommandModeSwitch
<1> HIDE DEF stopping, modes, starting, newMode, marked
<1> QED BY <1>3, <1>4, <1>5, <1>6

-----------------------------------------------------------------------------
\* LoopFollowsMode is inductive once upset is known to cover every arm in error.
LoopInv ==
  /\ TypeOK
  /\ \A a \in Arms : error[a] => upset[a]
  /\ LoopFollowsMode

LEMMA InitLoop == Init => LoopInv
<1> SUFFICES ASSUME Init PROVE LoopInv
  OBVIOUS
<1>1. live = FALSE /\ live \in BOOLEAN /\ refused \in BOOLEAN
  BY Zenon DEF Init
<1>2. \A a \in Arms : ~error[a]
  BY DEF Init
<1>3. /\ mode \in [Arms -> Modes] /\ loop \in [Arms -> Modes \cup {Stopped}]
      /\ switch \in [Arms -> BOOLEAN] /\ error \in [Arms -> BOOLEAN]
      /\ delivered \in [Arms -> BOOLEAN] /\ upset \in [Arms -> BOOLEAN]
  BY DEF Init, Modes
<1>4. request \in [start : SUBSET Controllers, stop : SUBSET Controllers]
  BY DEF Init, NoRequest
<1>5. TypeOK
  BY <1>1, <1>3, <1>4, BoundsAssumption DEF Init, TypeOK
<1> QED BY <1>1, <1>2, <1>5 DEF LoopInv, LoopFollowsMode

LEMMA SwitchLoop ==
  ASSUME LoopInv, NEW start \in SUBSET Controllers, NEW stop \in SUBSET running,
         Switch(start, stop)
  PROVE  LoopInv'
<1> DEFINE p == PrepareCommandModeSwitch(Groups(start), Groups(stop))
<1>1. /\ p.ok \in BOOLEAN
      /\ p.mode \in [Arms -> Modes] /\ p.switch \in [Arms -> BOOLEAN]
      /\ \A a \in Arms : ~p.switch[a] => ~switch[a] /\ p.mode[a] = mode[a]
  BY PrepareMarks DEF LoopInv, TypeOK
<1>2. /\ mode' = p.mode /\ switch' = p.switch
      /\ request' = IF p.ok THEN [start |-> start, stop |-> stop] ELSE NoRequest
      /\ refused' = (refused \/ ~p.ok)
      /\ requests' = requests + 1 /\ requests < MaxRequests
      /\ UNCHANGED <<loop, error, delivered, live, rt, running, upset, errors, lifecycle>>
  BY DEF Switch
<1> HIDE DEF p
<1>3. refused' \in BOOLEAN
  BY <1>2, Zenon
<1>4. request' \in [start : SUBSET Controllers, stop : SUBSET Controllers]
  BY <1>2 DEF NoRequest, LoopInv, TypeOK
<1>5. requests' \in 0..MaxRequests
  BY <1>2, BoundsAssumption DEF LoopInv, TypeOK
<1>6. TypeOK'
  BY <1>1, <1>2, <1>3, <1>4, <1>5 DEF LoopInv, TypeOK
<1>7. LoopFollowsMode'
  BY <1>1, <1>2 DEF LoopInv, LoopFollowsMode
<1> QED BY <1>2, <1>6, <1>7 DEF LoopInv

LEMMA CycleLoop ==
  ASSUME LoopInv, Read \/ Update \/ UpdateAndSwitch \/ Write
  PROVE  LoopInv'
<1> USE DEF LoopInv, TypeOK, LoopFollowsMode, arms, history
<1>1. CASE Read
  BY <1>1 DEF Read
<1>2. CASE Update
  <2>1. delivered' \in [Arms -> BOOLEAN]
    BY <1>2 DEF Update, Computed
  <2> QED BY <1>2, <2>1 DEF Update
<1>3. CASE UpdateAndSwitch
  <2>1. delivered' \in [Arms -> BOOLEAN]
    BY <1>3 DEF UpdateAndSwitch, Computed
  <2>2. request' = NoRequest /\ NoRequest \in [start : SUBSET Controllers,
                                               stop : SUBSET Controllers]
    BY <1>3 DEF UpdateAndSwitch, NoRequest
  <2> QED BY <1>3, <2>1, <2>2 DEF UpdateAndSwitch, PerformCommandModeSwitch
<1>4. CASE Write
  BY <1>4 DEF Write
<1> QED BY <1>1, <1>2, <1>3, <1>4

LEMMA OtherLoop ==
  ASSUME LoopInv,
         OnActivate \/ OnDeactivate \/ \E a \in Arms : ArmError(a) \/ Recover(a)
  PROVE  LoopInv'
<1> USE BoundsAssumption DEF LoopInv, TypeOK, LoopFollowsMode, arms, history
<1>1. CASE OnActivate
  <2>1. live' \in BOOLEAN
    BY <1>1, Zenon DEF OnActivate
  <2> QED BY <1>1, <2>1 DEF OnActivate, Modes
<1>2. CASE OnDeactivate
  <2>1. live' = FALSE /\ live' \in BOOLEAN
    BY <1>2, Zenon DEF OnDeactivate
  <2> QED BY <1>2, <2>1 DEF OnDeactivate
<1>3. ASSUME NEW a \in Arms, ArmError(a) PROVE LoopInv'
  BY <1>3 DEF ArmError
<1>4. ASSUME NEW a \in Arms, Recover(a) PROVE LoopInv'
  BY <1>4 DEF Recover
<1> QED BY <1>1, <1>2, <1>3, <1>4

LEMMA StepLoop == LoopInv /\ [Next]_vars => LoopInv'
<1> SUFFICES ASSUME LoopInv, [Next]_vars PROVE LoopInv'
  OBVIOUS
<1>1. ASSUME NEW start \in SUBSET Controllers, NEW stop \in SUBSET running,
             Switch(start, stop)
      PROVE  LoopInv'
  BY <1>1, SwitchLoop
<1>2. CASE Read \/ Update \/ UpdateAndSwitch \/ Write
  BY <1>2, CycleLoop
<1>3. CASE OnActivate \/ OnDeactivate \/ \E a \in Arms : ArmError(a) \/ Recover(a)
  BY <1>3, OtherLoop
<1>4. CASE UNCHANGED vars
  BY <1>4 DEF vars, arms, history, LoopInv, TypeOK, LoopFollowsMode
<1> QED BY <1>1, <1>2, <1>3, <1>4 DEF Next

\* Every variable keeps its type, even after requests that were refused half-way.
THEOREM TypeCorrect == Spec => []TypeOK
<1>1. LoopInv => TypeOK
  BY DEF LoopInv
<1> QED BY <1>1, InitLoop, StepLoop, PTL DEF Spec

\* An active arm runs the loop its container names unless a switch is marked or an
\* error has ended that loop: no refused request makes the two drift apart unmarked.
THEOREM LoopSafe == Spec => []LoopFollowsMode
<1>1. LoopInv => LoopFollowsMode
  BY DEF LoopInv
<1> QED BY <1>1, InitLoop, StepLoop, PTL DEF Spec
-----------------------------------------------------------------------------
(***************************************************************************)
(* The containers follow the controllers.  Two conditions on the           *)
(* configuration are needed: no arm's name occurs in the interface names   *)
(* of another, and the Cartesian interfaces of an arm and kind are claimed *)
(* all together (as by the semantic components), joints in any portions.   *)
(***************************************************************************)
NamesApart == \A a \in Arms : Mentions[a] = {a}

WholeCartesian ==
  \A c, d \in Controllers : \A g \in Claims[c], h \in Claims[d] :
    /\ g.space = "cartesian" /\ h.space = "cartesian"
    /\ g.arm = h.arm /\ g.kind = h.kind
    => g = h

\* The mode m of arm a is what the groups say, and joints are claimed all seven.
ModeOf(groups, m) ==
  /\ groups = {} => m = None
  /\ \A g \in groups : m = <<g.space, g.kind>>
  /\ groups # {} /\ (\E g \in groups : g.space = "joint") => Size(groups) = 7

ModesInv ==
  /\ TypeOK
  /\ ~live => running = {} /\ request = NoRequest
  /\ Compatible(Agreed)
  /\ ~refused => \A a \in Arms :
       /\ ModeOf(Own(Groups(Agreed), a), mode[a])
       /\ switch[a] => \E g \in Groups(request.start \cup request.stop) : g.arm = a

LEMMA GroupsTyped ==
  ASSUME NEW cs \in SUBSET Controllers
  PROVE  /\ Sized(Groups(cs))
         /\ \A a : Sized(Own(Groups(cs), a))
         /\ \A g \in Groups(cs) : <<g.space, g.kind>> \in Spaces \X Kinds
<1>1. Groups(cs) \subseteq UNION {Claims[c] : c \in Controllers}
  BY DEF Groups
<1>2. IsFiniteSet(Groups(cs))
  BY <1>1, ControllersAssumption, FS_Subset
<1>3. \A g \in Groups(cs) : g.space \in Spaces /\ g.kind \in Kinds /\ g.size \in Nat \ {0}
  BY ControllersAssumption DEF Groups
<1>4. \A a : Own(Groups(cs), a) \subseteq Groups(cs)
  BY DEF Own
<1>5. \A a : IsFiniteSet(Own(Groups(cs), a))
  BY <1>2, <1>4, FS_Subset
<1> QED BY <1>2, <1>3, <1>4, <1>5 DEF Sized

LEMMA GroupsUnion ==
  ASSUME NEW cs, NEW ds, NEW a
  PROVE  /\ Groups(cs \cup ds) = Groups(cs) \cup Groups(ds)
         /\ Own(Groups(cs \cup ds), a) = Own(Groups(cs), a) \cup Own(Groups(ds), a)
<1>1. Groups(cs \cup ds) = Groups(cs) \cup Groups(ds)
  BY DEF Groups
<1> QED BY <1>1 DEF Own

\* A stop pass that accepts an arm accepts all that is claimed of it.
LEMMA StopTakesAll ==
  ASSUME NamesApart, WholeCartesian,
         NEW cs \in SUBSET Controllers, Compatible(cs), NEW stop \in SUBSET cs,
         NEW a \in Arms, NEW m, ModeOf(Own(Groups(cs), a), m),
         Own(Groups(stop), a) # {}, ~StopRefused(a, Groups(stop))
  PROVE  Own(Groups(cs \ stop), a) = {}
<1> DEFINE all  == Own(Groups(cs), a)
           part == Own(Groups(stop), a)
<1>1. part \subseteq all /\ Sized(all) /\ Sized(part)
  <2>1. (cs \ stop) \cup stop = cs
    OBVIOUS
  <2>2. part \subseteq all
    BY <2>1, GroupsUnion
  <2> QED BY <2>2, GroupsTyped
<1>2. PICK g \in part : TRUE
  OBVIOUS
<1>3. g.arm = a /\ g \in Groups(stop) /\ g.space \in Spaces /\ m = <<g.space, g.kind>>
  <2>1. g.arm = a /\ g \in Groups(stop)
    BY <1>2 DEF NamesApart, Own
  <2>2. g.space \in Spaces
    BY <2>1, ControllersAssumption DEF Groups
  <2> QED BY <1>1, <1>2, <2>1, <2>2 DEF ModeOf
<1>4. part = all
  <2>1. CASE g.space = "joint"
    <3>1. Size(all) = 7
      BY <1>1, <1>2, <2>1 DEF ModeOf
    <3>2. HasSpace(part, "joint")
      <4>1. \A h \in part : <<h.space, h.kind>> = <<g.space, g.kind>>
        BY <1>1, <1>3 DEF ModeOf
      <4> QED BY <2>1, <4>1 DEF HasSpace
    <3>3. Size(part) = 7
      BY <3>2 DEF StopRefused
    <3> HIDE DEF all, part
    <3> QED BY <1>1, <3>1, <3>3, SizeOfPart
  <2>2. CASE g.space = "cartesian"
    <3>1. ASSUME NEW h \in all PROVE h = g
      <4>1. <<h.space, h.kind>> = <<g.space, g.kind>>
        BY <1>3, <3>1 DEF ModeOf
      <4>2. h.arm = a /\ h \in Groups(cs)
        BY <3>1 DEF NamesApart, Own
      <4>3. PICK c \in Controllers, d \in Controllers : h \in Claims[c] /\ g \in Claims[d]
        BY <1>3, <4>2 DEF Groups
      <4> QED BY <1>3, <2>2, <4>1, <4>2, <4>3 DEF WholeCartesian
    <3> QED BY <1>1, <1>2, <3>1
  <2> QED BY <1>3, <2>1, <2>2 DEF Spaces
<1>5. ASSUME NEW h \in Own(Groups(cs \ stop), a) PROVE FALSE
  <2>1. PICK c \in cs \ stop : h \in Claims[c]
    BY <1>5 DEF Own, Groups
  <2>2. h \in all
    BY <1>5, <2>1 DEF Own, Groups
  <2>3. PICK d \in stop : h \in Claims[d]
    BY <1>4, <2>2 DEF Own, Groups
  <2> QED BY <2>1, <2>3 DEF Compatible
<1> QED BY <1>5

\* A start pass that accepts an arm gives it the mode the groups say.
LEMMA StartGivesMode ==
  ASSUME NEW cs \in SUBSET Controllers, NEW a \in Arms, NEW m,
         Own(Groups(cs), a) # {}, ~StartRefused(a, Groups(cs), m)
  PROVE  /\ m = None
         /\ ModeOf(Own(Groups(cs), a), ModeFor(Groups(cs), Own(Groups(cs), a)))
<1> DEFINE list == Groups(cs)
           own  == Own(list, a)
           n    == ModeFor(list, own)
<1>1. m = None /\ Uniform(list, own) /\ (HasSpace(own, "joint") => Size(own) = 7)
  BY DEF StartRefused
<1>2. PICK s \in Spaces : HasSpace(own, s)
  BY <1>1 DEF Uniform
<1>3. PICK k \in Kinds : HasKind(list, k)
  BY <1>1 DEF Uniform
<1>4. <<s, k>> \in Spaces \X Kinds /\ <<s, k>>[1] = s /\ <<s, k>>[2] = k
  OBVIOUS
<1>5. \E p \in Spaces \X Kinds : HasSpace(own, p[1]) /\ HasKind(list, p[2])
  BY <1>2, <1>3, <1>4
<1>6. n \in Spaces \X Kinds /\ HasSpace(own, n[1]) /\ HasKind(list, n[2])
  BY <1>5 DEF ModeFor
<1>7. \A g \in own : n = <<g.space, g.kind>>
  <2>1. n = <<n[1], n[2]>>
    BY <1>6
  <2>2. \A g \in own : g \in list
    BY DEF Own
  <2> HIDE DEF n, own, list
  <2> QED BY <1>6, <2>1, <2>2 DEF HasSpace, HasKind
<1>8. (\E g \in own : g.space = "joint") => HasSpace(own, "joint")
  BY <1>2 DEF HasSpace
<1> QED BY <1>1, <1>7, <1>8 DEF ModeOf
\* prepare_command_mode_switch, if it answers OK, leaves the modes of the controllers
\* that will run, and marks no arm that the request does not name.
LEMMA PrepareFollows ==
  ASSUME NamesApart, WholeCartesian, switch \in [Arms -> BOOLEAN],
         running \subseteq Controllers, Compatible(running),
         \A a \in Arms : ModeOf(Own(Groups(running), a), mode[a]),
         NEW start \in SUBSET Controllers, NEW stop \in SUBSET running,
         PrepareCommandModeSwitch(Groups(start), Groups(stop)).ok,
         NEW a \in Arms
  PROVE  LET p == PrepareCommandModeSwitch(Groups(start), Groups(stop)) IN
         /\ ModeOf(Own(Groups((running \ stop) \cup start), a), p.mode[a])
         /\ p.switch[a] => switch[a] \/ \E g \in Groups(start \cup stop) : g.arm = a
<1> DEFINE p        == PrepareCommandModeSwitch(Groups(start), Groups(stop))
           stopping == StopPass(Groups(stop))
           modes    == [b \in Arms |-> IF b \in stopping.done THEN None ELSE mode[b]]
           starting == StartPass(Groups(start), modes)
           left     == running \ stop
<1>1. /\ stopping.bad = {} /\ starting.bad = {}
      /\ p.mode = [b \in Arms |-> IF b \in starting.done
                                  THEN ModeFor(Groups(start), Own(Groups(start), b))
                                  ELSE modes[b]]
      /\ p.switch = Mark(stopping.done, starting.done)
  BY DEF PrepareCommandModeSwitch
<1>2. /\ ~StopRefused(a, Groups(stop)) /\ ~StartRefused(a, Groups(start), modes[a])
      /\ a \in stopping.done <=> Own(Groups(stop), a) # {}
      /\ a \in starting.done <=> Own(Groups(start), a) # {}
  <2>1. a \notin stopping.bad /\ a \notin starting.bad
    BY <1>1
  <2>2. Before({}) = Arms
    BY DEF Before
  <2> HIDE DEF modes
  <2> QED BY <1>1, <2>1, <2>2 DEF StopPass, StartPass
<1> HIDE DEF stopping, starting, p
<1>3. ModeOf(Own(Groups(left), a), modes[a])
  <2>1. CASE Own(Groups(stop), a) = {}
    <3>1. left \cup stop = running
      OBVIOUS
    <3>2. Own(Groups(running), a) = Own(Groups(left), a)
      BY <2>1, <3>1, GroupsUnion
    <3> QED BY <1>2, <2>1, <3>2
  <2>2. CASE Own(Groups(stop), a) # {}
    <3>1. Own(Groups(left), a) = {}
      BY <1>2, <2>2, StopTakesAll
    <3> QED BY <1>2, <2>2, <3>1 DEF ModeOf
  <2> QED BY <2>1, <2>2
<1>4. Own(Groups(left \cup start), a) = Own(Groups(left), a) \cup Own(Groups(start), a)
  <2> HIDE DEF left
  <2> QED BY GroupsUnion
<1>5. ModeOf(Own(Groups(left \cup start), a), p.mode[a])
  <2>1. CASE Own(Groups(start), a) = {}
    <3> HIDE DEF modes, left
    <3> QED BY <1>1, <1>2, <1>3, <1>4, <2>1
  <2>2. CASE Own(Groups(start), a) # {}
    <3> HIDE DEF modes, left
    <3>1. /\ modes[a] = None
          /\ ModeOf(Own(Groups(start), a), ModeFor(Groups(start), Own(Groups(start), a)))
      BY <1>2, <2>2, StartGivesMode
    <3>2. Own(Groups(left), a) = {}
      <4>1. left \in SUBSET Controllers
        BY DEF left
      <4>2. \A g \in Own(Groups(left), a) : <<g.space, g.kind>> \in Spaces \X Kinds
        BY <4>1, GroupsTyped DEF Own
      <4> QED BY <1>3, <3>1, <4>2, ModesAssumption DEF ModeOf
    <3>3. Own(Groups(left \cup start), a) = Own(Groups(start), a)
      BY <1>4, <3>2
    <3> QED BY <1>1, <1>2, <2>2, <3>1, <3>3
  <2> QED BY <2>1, <2>2
<1>6. p.switch[a] => switch[a] \/ \E g \in Groups(start \cup stop) : g.arm = a
  <2>1. p.switch[a] => switch[a] \/ a \in stopping.done \/ a \in starting.done
    BY <1>1 DEF Mark
  <2>2. \A list : Own(list, a) # {} => \E g \in list : g.arm = a
    BY DEF Own, NamesApart
  <2>3. Groups(start \cup stop) = Groups(start) \cup Groups(stop)
    BY GroupsUnion
  <2> QED BY <1>2, <2>1, <2>2, <2>3
<1> QED BY <1>5, <1>6 DEF p

-----------------------------------------------------------------------------
LEMMA InitModes == Init => ModesInv
<1> SUFFICES ASSUME Init PROVE ModesInv
  OBVIOUS
<1>1. TypeOK
  BY InitLoop DEF LoopInv
<1>2. Agreed = {} /\ Groups(Agreed) = {}
  BY DEF Init, Agreed, NoRequest, Groups
<1>3. Compatible(Agreed)
  BY <1>2 DEF Compatible
<1>4. \A a \in Arms : ModeOf(Own(Groups(Agreed), a), mode[a]) /\ ~switch[a]
  BY <1>2 DEF Init, ModeOf, Own
<1> QED BY <1>1, <1>3, <1>4 DEF Init, ModesInv

LEMMA SwitchModes ==
  ASSUME NamesApart, WholeCartesian, ModesInv, TypeOK',
         NEW start \in SUBSET Controllers, NEW stop \in SUBSET running,
         Switch(start, stop)
  PROVE  ModesInv'
<1> DEFINE p == PrepareCommandModeSwitch(Groups(start), Groups(stop))
<1>1. /\ live /\ request = NoRequest /\ Compatible((running \ stop) \cup start)
      /\ mode' = p.mode /\ switch' = p.switch
      /\ request' = IF p.ok THEN [start |-> start, stop |-> stop] ELSE NoRequest
      /\ refused' = (refused \/ ~p.ok)
      /\ UNCHANGED <<live, running>>
  BY DEF Switch
<1>2. Agreed = running /\ running \subseteq Controllers /\ Groups(NoRequest.start \cup NoRequest.stop) = {}
  BY <1>1 DEF Agreed, NoRequest, ModesInv, TypeOK, Groups
<1>3. CASE ~p.ok
  <2>1. Agreed' = running /\ refused'
    BY <1>1, <1>3, Zenon DEF Agreed, NoRequest
  <2>2. Agreed' = running /\ live'
    BY <1>1, <1>3, <2>1
  <2> QED BY <1>1, <1>2, <2>1, <2>2 DEF ModesInv, Compatible
<1>4. CASE p.ok
  <2>1. request' = [start |-> start, stop |-> stop]
    BY <1>1, <1>4
  <2>2. Agreed' = (running \ stop) \cup start
    BY <1>1, <2>1 DEF Agreed
  <2>3. Compatible(Agreed)'
    BY <1>1, <2>2 DEF Compatible
  <2>4. ASSUME ~refused', NEW a \in Arms
        PROVE  /\ ModeOf(Own(Groups(Agreed), a), mode[a])'
               /\ (switch[a] => \E g \in Groups(request.start \cup request.stop) : g.arm = a)'
    <3>1. ~refused
      BY <1>1, <2>4
    <3>2. \A b \in Arms : ModeOf(Own(Groups(running), b), mode[b]) /\ ~switch[b]
      BY <1>1, <1>2, <3>1 DEF ModesInv
    <3>3. /\ ModeOf(Own(Groups((running \ stop) \cup start), a), p.mode[a])
          /\ p.switch[a] => switch[a] \/ \E g \in Groups(start \cup stop) : g.arm = a
      <4>1. switch \in [Arms -> BOOLEAN] /\ Compatible(running)
        BY <1>2 DEF ModesInv, TypeOK
      <4>2. running \subseteq Controllers /\ p.ok
        BY <1>2, <1>4
      <4>3. a \in Arms
        BY <2>4
      <4> QED BY <3>2, <4>1, <4>2, <4>3, PrepareFollows, Zenon
    <3>4. (\E g \in Groups(request.start \cup request.stop) : g.arm = a)'
            <=> \E g \in Groups(start \cup stop) : g.arm = a
      BY <2>1 DEF Groups
    <3>5. ModeOf(Own(Groups(Agreed), a), mode[a])'
            <=> ModeOf(Own(Groups((running \ stop) \cup start), a), p.mode[a])
      <4> HIDE DEF p
      <4> QED BY <1>1, <2>2 DEF ModeOf, Own, Groups
    <3> HIDE DEF p
    <3> QED BY <1>1, <3>2, <3>3, <3>4, <3>5
  <2> QED BY <2>3, <2>4, <1>1 DEF ModesInv
<1> QED BY <1>3, <1>4
LEMMA OtherModes ==
  ASSUME ModesInv, TypeOK',
         \/ Read \/ Update \/ UpdateAndSwitch \/ Write \/ OnActivate \/ OnDeactivate
         \/ \E a \in Arms : ArmError(a) \/ Recover(a)
         \/ UNCHANGED vars
  PROVE  ModesInv'
<1>1. CASE UNCHANGED <<mode, switch, live, running, request, refused>>
  BY <1>1 DEF ModesInv, Agreed, Compatible, ModeOf, Own, Groups
<1>2. CASE UpdateAndSwitch
  <2>1. /\ running' = Agreed /\ request' = NoRequest /\ request # NoRequest
        /\ switch' = [a \in Arms |-> FALSE]
        /\ UNCHANGED <<mode, live, refused>>
    BY <1>2 DEF UpdateAndSwitch, PerformCommandModeSwitch, Agreed
  <2>2. Agreed' = Agreed
    BY <2>1 DEF Agreed, NoRequest
  <2>3. Compatible(Agreed)' /\ live
    BY <2>1, <2>2 DEF ModesInv, Compatible
  <2>4. \A a \in Arms : ModeOf(Own(Groups(Agreed), a), mode[a])'
                          <=> ModeOf(Own(Groups(Agreed), a), mode[a])
    BY <2>1, <2>2 DEF ModeOf, Own, Groups
  <2>5. ~refused' => \A a \in Arms : ModeOf(Own(Groups(Agreed), a), mode[a])' /\ ~switch'[a]
    BY <2>1, <2>4 DEF ModesInv
  <2> QED BY <2>1, <2>3, <2>5 DEF ModesInv
<1>3. CASE OnActivate
  <2>1. /\ UNCHANGED <<switch, running, request, refused>> /\ live' = TRUE
        /\ mode' = [a \in Arms |-> None]
        /\ running = {} /\ request = NoRequest
    BY <1>3 DEF OnActivate, ModesInv
  <2>2. Agreed = {} /\ Agreed' = {}
    BY <2>1 DEF Agreed, NoRequest
  <2>3. \A a \in Arms : ModeOf(Own(Groups(Agreed), a), mode[a])'
    BY <2>1, <2>2 DEF ModeOf, Own, Groups
  <2>4. Compatible(Agreed)' /\ live'
    BY <2>1, <2>2, Zenon DEF Compatible
  <2>5. \A a \in Arms : ~refused' => (switch[a] =>
           \E g \in Groups(request.start \cup request.stop) : g.arm = a)'
    BY <2>1 DEF ModesInv, Groups
  <2> QED BY <2>1, <2>3, <2>4, <2>5 DEF ModesInv
<1>4. CASE OnDeactivate
  <2>1. /\ UNCHANGED <<mode, switch, running, request, refused>> /\ live' = FALSE
        /\ running = {} /\ request = NoRequest
    BY <1>4 DEF OnDeactivate
  <2>2. running' = {} /\ request' = NoRequest
    BY <2>1
  <2>3. Compatible(Agreed)' /\ \A a \in Arms :
          /\ ModeOf(Own(Groups(Agreed), a), mode[a])'
               <=> ModeOf(Own(Groups(Agreed), a), mode[a])
          /\ (switch[a] => \E g \in Groups(request.start \cup request.stop) : g.arm = a)'
               <=> (switch[a] => \E g \in Groups(request.start \cup request.stop) : g.arm = a)
    BY <2>1 DEF ModesInv, Agreed, Compatible, ModeOf, Own, Groups
  <2>4. refused' <=> refused
    BY <2>1
  <2> QED BY <2>2, <2>3, <2>4 DEF ModesInv
<1> QED BY <1>1, <1>2, <1>3, <1>4
        DEF Read, Update, Write, ArmError, Recover, arms, history, vars

LEMMA StepModes ==
  ASSUME NamesApart, WholeCartesian
  PROVE  LoopInv /\ ModesInv /\ [Next]_vars => LoopInv' /\ ModesInv'
<1> SUFFICES ASSUME LoopInv, ModesInv, [Next]_vars PROVE LoopInv' /\ ModesInv'
  OBVIOUS
<1>1. LoopInv' /\ TypeOK'
  BY StepLoop DEF LoopInv
<1> QED BY <1>1, SwitchModes, OtherModes DEF Next

\* As long as no request was refused, every container names what the controllers that
\* run, or will once the accepted change is carried out, claim of the arm.
THEOREM ModesSafe ==
  ASSUME NamesApart, WholeCartesian
  PROVE  Spec => []ModesMatchControllers
<1>1. ModesInv => ModesMatchControllers
  <2> SUFFICES ASSUME ModesInv, ~refused, NEW a \in Arms
      PROVE  ClaimedModes(a) = IF mode[a] = None THEN {} ELSE {mode[a]}
    BY DEF ModesMatchControllers
  <2> DEFINE own == Own(Groups(Agreed), a)
  <2>1. ClaimedModes(a) = {<<g.space, g.kind>> : g \in own}
    BY DEF ClaimedModes, Own, NamesApart
  <2>2. ModeOf(own, mode[a])
    BY DEF ModesInv
  <2>3. \A g \in own : <<g.space, g.kind>> # None
    <3>1. Agreed \in SUBSET Controllers
      BY DEF Agreed, ModesInv, TypeOK
    <3> QED BY <3>1, GroupsTyped, ModesAssumption DEF Own
  <2> HIDE DEF own
  <2> QED BY <2>1, <2>2, <2>3 DEF ModeOf
<1>2. LoopInv /\ ModesInv /\ [Next]_vars => LoopInv' /\ ModesInv'
  BY StepModes
<1> QED BY <1>1, <1>2, InitLoop, InitModes, PTL DEF Spec

\* As long as no request was refused, perform_command_mode_switch stops and starts the
\* loops of the arms the accepted change names, and of no other: no mark is left over
\* from an earlier request or from another activation.
THEOREM SwitchIsLocalSafe ==
  ASSUME NamesApart, WholeCartesian
  PROVE  Spec => SwitchIsLocal
<1> DEFINE Local == ~refused /\ UpdateAndSwitch => \A a \in Arms :
             (\A g \in Groups(request.start \cup request.stop) : g.arm # a)
               => loop'[a] = loop[a] /\ upset'[a] = upset[a]
<1>1. ModesInv => Local
  BY DEF ModesInv, TypeOK, UpdateAndSwitch, PerformCommandModeSwitch
<1>2. LoopInv /\ ModesInv /\ [Next]_vars => LoopInv' /\ ModesInv'
  BY StepModes
<1>3. Spec => [][Local]_vars
  <2> HIDE DEF Local
  <2> QED BY <1>1, <1>2, InitLoop, InitModes, PTL DEF Spec
<1> QED BY <1>3 DEF SwitchIsLocal, Local
-----------------------------------------------------------------------------
(***************************************************************************)
(* FrankaMjHardwareSystem.  The manager, the requests and the containers   *)
(* are those of the component above, and keep their names; the actuators   *)
(* and the commands are its own.                                           *)
(***************************************************************************)
CONSTANT MaxNaN
VARIABLES gains, cmd, ctrl, hand, used

Sim == INSTANCE SimHardware

\* Here an arm owns the groups of its joints, seven in all.
SimModeOf(groups, m) ==
  /\ groups = {} <=> m = None
  /\ \A g \in groups : m = g.kind
  /\ groups # {} => Size(groups) = 7

\* A marked arm waits for an accepted change; the gains of the others are those of the
\* container; and until the next write the commands of the controllers that stay are
\* this cycle's.
SimInv ==
  /\ Sim!TypeOK
  /\ Sim!Compatible(Agreed)
  /\ ~refused => \A a \in Arms :
       /\ SimModeOf(Sim!Own(Groups(Agreed), a), mode[a])
       /\ switch[a] => request # NoRequest
       /\ ~switch[a] => gains[a] = mode[a]
       /\ \A g \in Groups(running) : g.arm = a => gains[a] = g.kind
       /\ gains[a] # None => \E g \in Groups(running) : g.arm = a
       /\ rt = "write" => \A g \in Groups(running \ request.stop) :
            g.arm = a => cmd[a][g.kind] \in {"new", "nan"}

\* What the two modules have in common.
LEMMA SimNames ==
  /\ \A cs : Sim!Groups(cs) = Groups(cs)
  /\ \A list : Sim!Size(list) = Size(list)
  /\ Sim!NoRequest = NoRequest /\ Sim!Kinds = Kinds
  /\ \A cs : Sim!Compatible(cs) <=> Compatible(cs)
  /\ \A list, k : Sim!HasKind(list, k) <=> HasKind(list, k)
<1>1. \A list : Sim!Size(list) = Size(list)
  BY DEF Sim!Size, Size, Sim!MapThenSumSet, Sim!MapThenFoldSet, MapThenSumSet, MapThenFoldSet
<1> QED
  BY <1>1 DEF Sim!Groups, Groups, Sim!NoRequest, NoRequest, Sim!Kinds, Kinds,
              Sim!Compatible, Compatible, Sim!HasKind, HasKind

LEMMA SimInit == None \notin Kinds /\ Sim!Init => SimInv
<1> SUFFICES ASSUME None \notin Kinds, Sim!Init PROVE SimInv
  OBVIOUS
<1>1. Agreed = {} /\ running = {} /\ Groups({}) = {}
  BY SimNames DEF Sim!Init, Agreed, NoRequest, Groups
<1>2. Sim!TypeOK
  <2>1. /\ live = FALSE /\ live \in BOOLEAN /\ refused = FALSE /\ refused \in BOOLEAN
    BY Zenon DEF Sim!Init
  <2>2. /\ mode \in [Arms -> Sim!Modes] /\ gains \in [Arms -> Sim!Modes]
        /\ switch \in [Arms -> BOOLEAN] /\ hand \in [Arms -> BOOLEAN]
    BY DEF Sim!Init, Sim!Modes
  <2>3. cmd \in [Arms -> [Sim!Kinds -> Sim!Values]] /\ ctrl = cmd
    BY DEF Sim!Init, Sim!Values
  <2>4. request \in [start : SUBSET Controllers, stop : SUBSET Controllers]
        /\ used \in [requests : Nat, lifecycle : Nat, nan : Nat]
    BY DEF Sim!Init, Sim!NoRequest
  <2> QED BY <2>1, <2>2, <2>3, <2>4 DEF Sim!Init, Sim!TypeOK
<1>3. \A a \in Arms : Sim!Own({}, a) = {} /\ mode[a] = None /\ gains[a] = None /\ ~switch[a]
  BY DEF Sim!Init, Sim!Own
<1> QED BY <1>1, <1>2, <1>3 DEF SimInv, SimModeOf, Sim!Compatible, Sim!Init

LEMMA SimGroupsTyped ==
  ASSUME NEW cs \in SUBSET Controllers
  PROVE  \A a : /\ Sized(Sim!Own(Groups(cs), a))
                /\ \A g \in Sim!Own(Groups(cs), a) :
                     g.arm = a /\ g \in Groups(cs) /\ g.kind \in Kinds
<1>1. \A a : Sim!Own(Groups(cs), a) \subseteq Groups(cs)
  BY DEF Sim!Own
<1>2. Sized(Groups(cs)) /\ \A g \in Groups(cs) : g.kind \in Kinds
  BY GroupsTyped, ControllersAssumption DEF Groups
<1>3. \A a : IsFiniteSet(Sim!Own(Groups(cs), a))
  BY <1>1, <1>2, FS_Subset DEF Sized
<1> QED BY <1>1, <1>2, <1>3 DEF Sized, Sim!Own

LEMMA SimOwnUnion ==
  ASSUME NEW cs, NEW ds, NEW a
  PROVE  Sim!Own(Groups(cs \cup ds), a) = Sim!Own(Groups(cs), a) \cup Sim!Own(Groups(ds), a)
<1>1. Groups(cs \cup ds) = Groups(cs) \cup Groups(ds)
  BY GroupsUnion
<1> QED BY <1>1 DEF Sim!Own

\* An arm that the stop pass accepts loses all its controllers.
LEMMA SimStopTakesAll ==
  ASSUME NEW cs \in SUBSET Controllers, Compatible(cs), NEW stop \in SUBSET cs,
         NEW a \in Arms, NEW m, SimModeOf(Sim!Own(Groups(cs), a), m),
         Sim!Own(Groups(stop), a) # {}, ~Sim!StopRefused(a, Groups(stop))
  PROVE  Sim!Own(Groups(cs \ stop), a) = {}
<1> DEFINE all  == Sim!Own(Groups(cs), a)
           part == Sim!Own(Groups(stop), a)
<1>1. part \subseteq all /\ Sized(all)
  <2>1. (cs \ stop) \cup stop = cs
    OBVIOUS
  <2> QED BY <2>1, SimOwnUnion, SimGroupsTyped
<1>2. Size(part) = 7 /\ Size(all) = 7
  <2>1. Size(part) = 7
    BY SimNames DEF Sim!StopRefused, Sim!Unsuitable
  <2> QED BY <1>1, <2>1 DEF SimModeOf
<1>3. part = all
  <2> HIDE DEF all, part
  <2> QED BY <1>1, <1>2, SizeOfPart
<1>4. ASSUME NEW g \in Sim!Own(Groups(cs \ stop), a) PROVE FALSE
  <2>1. PICK c \in cs \ stop : g \in Claims[c]
    BY <1>4 DEF Sim!Own, Groups
  <2>2. g \in all
    BY <1>4, <2>1 DEF Sim!Own, Groups
  <2>3. PICK d \in stop : g \in Claims[d]
    BY <1>3, <2>2 DEF Sim!Own, Groups
  <2> QED BY <2>1, <2>3 DEF Compatible
<1> QED BY <1>4

LEMMA SimStartGivesMode ==
  ASSUME NEW list, NEW a \in Arms, NEW m,
         Sim!Own(list, a) # {}, ~Sim!StartRefused(a, list, m)
  PROVE  /\ m = None /\ Sim!KindOf(list) \in Kinds
         /\ \A g \in list : g.kind = Sim!KindOf(list)
         /\ Size(Sim!Own(list, a)) = 7
<1>1. m = None /\ ~Sim!Unsuitable(Sim!Own(list, a), list)
  BY DEF Sim!StartRefused
<1>2. \E k \in Kinds : HasKind(list, k)
  BY <1>1, SimNames DEF Sim!Unsuitable
<1>3. Sim!KindOf(list) \in Kinds /\ HasKind(list, Sim!KindOf(list))
  BY <1>2, SimNames DEF Sim!KindOf
<1> QED BY <1>1, <1>3, SimNames DEF HasKind, Sim!Unsuitable

LEMMA SimChangedIsGood ==
  ASSUME NEW list, NEW bad \in SUBSET Arms, NEW a \in Sim!Changed(list, bad)
  PROVE  a \in Arms /\ a \notin bad /\ Sim!Own(list, a) # {}
<1>1. a \in Arms /\ Sim!Own(list, a) # {} /\ \A b \in bad : Position[a] < Position[b]
  BY DEF Sim!Changed
<1>2. Position[a] \in Nat
  BY <1>1, ArmsAssumption
<1> QED BY <1>1, <1>2

\* prepare_command_mode_switch keeps the types, whatever it answers.
LEMMA SimPrepareType ==
  ASSUME Sim!TypeOK, NEW start, NEW stop
  PROVE  LET p == Sim!Prepare(start, stop) IN
         /\ p.ok \in BOOLEAN
         /\ p.mode \in [Arms -> Sim!Modes] /\ p.switch \in [Arms -> BOOLEAN]
         /\ p.cmd \in [Arms -> [Sim!Kinds -> Sim!Values]]
<1> DEFINE badStop  == {a \in Arms : Sim!StopRefused(a, stop)}
           stopped  == Sim!Changed(stop, badStop)
           between  == [a \in Arms |-> IF a \in stopped THEN None ELSE mode[a]]
           badStart == {a \in Arms : badStop = {} /\ Sim!StartRefused(a, start, between[a])}
           started  == IF badStop = {} THEN Sim!Changed(start, badStart) ELSE {}
           newMode  == [a \in Arms |-> IF a \in started THEN Sim!KindOf(start) ELSE between[a]]
<1>1. between \in [Arms -> Sim!Modes]
  BY DEF Sim!TypeOK, Sim!Modes
<1>2. \A a \in started : Sim!KindOf(start) \in Kinds
  <2> SUFFICES ASSUME NEW a \in started PROVE Sim!KindOf(start) \in Kinds
    OBVIOUS
  <2>1. badStop = {} /\ a \in Sim!Changed(start, badStart)
    OBVIOUS
  <2>2. badStart \in SUBSET Arms
    OBVIOUS
  <2>3. a \in Arms /\ a \notin badStart /\ Sim!Own(start, a) # {}
    <3> HIDE DEF badStart
    <3> QED BY <2>1, <2>2, SimChangedIsGood
  <2>4. ~Sim!StartRefused(a, start, between[a])
    BY <2>1, <2>3
  <2> HIDE DEF between
  <2> QED BY <2>3, <2>4, SimStartGivesMode
<1>3. newMode \in [Arms -> Sim!Modes]
  <2>1. Kinds \subseteq Sim!Modes
    BY SimNames DEF Sim!Modes
  <2> HIDE DEF between, started
  <2> QED BY <1>1, <1>2, <2>1
<1>4. Sim!Mark(stopped, started) \in [Arms -> BOOLEAN]
  <2> HIDE DEF stopped, started
  <2> QED BY DEF Sim!Mark
<1>5. Sim!ResetCommands(stopped, stop) \in [Arms -> [Sim!Kinds -> Sim!Values]]
  <2> HIDE DEF stopped
  <2> QED BY DEF Sim!ResetCommands, Sim!TypeOK, Sim!Values
<1>6. Sim!Prepare(start, stop)
        = [ok |-> badStop \cup badStart = {}, mode |-> newMode,
           switch |-> Sim!Mark(stopped, started), cmd |-> Sim!ResetCommands(stopped, stop)]
  BY DEF Sim!Prepare
<1> HIDE DEF newMode, stopped, started, badStop, badStart
<1> QED BY <1>3, <1>4, <1>5, <1>6

LEMMA SimPrepareFollows ==
  ASSUME None \notin Kinds, Sim!TypeOK, Compatible(running),
         \A a \in Arms : SimModeOf(Sim!Own(Groups(running), a), mode[a]),
         NEW start \in SUBSET Controllers, NEW stop \in SUBSET running,
         Sim!Prepare(Groups(start), Groups(stop)).ok,
         NEW a \in Arms
  PROVE  LET p == Sim!Prepare(Groups(start), Groups(stop)) IN
         /\ SimModeOf(Sim!Own(Groups((running \ stop) \cup start), a), p.mode[a])
         /\ ~p.switch[a] => ~switch[a] /\ p.mode[a] = mode[a]
         /\ p.switch[a] /\ ~switch[a] => start \cup stop # {}
         /\ Sim!Own(Groups(running \ stop), a) # {} => p.cmd[a] = cmd[a]
<1> DEFINE list == Groups(stop)
           next == Groups(start)
           left == running \ stop
           badStop  == {b \in Arms : Sim!StopRefused(b, list)}
           stopped  == Sim!Changed(list, badStop)
           between  == [b \in Arms |-> IF b \in stopped THEN None ELSE mode[b]]
           badStart == {b \in Arms : badStop = {} /\ Sim!StartRefused(b, next, between[b])}
           started  == IF badStop = {} THEN Sim!Changed(next, badStart) ELSE {}
           newMode  == [b \in Arms |-> IF b \in started THEN Sim!KindOf(next) ELSE between[b]]
           p        == Sim!Prepare(next, list)
<1>1. p.ok <=> badStop \cup badStart = {}
  BY DEF Sim!Prepare
<1>2. badStop = {} /\ badStart = {}
  <2> HIDE DEF badStop, badStart
  <2> QED BY <1>1
<1>3. /\ ~Sim!StopRefused(a, list) /\ ~Sim!StartRefused(a, next, between[a])
      /\ a \in stopped <=> Sim!Own(list, a) # {}
      /\ a \in started <=> Sim!Own(next, a) # {}
  <2>1. ~Sim!StopRefused(a, list) /\ ~Sim!StartRefused(a, next, between[a])
    BY <1>2
  <2>2. a \in stopped <=> Sim!Own(list, a) # {}
    BY <1>2 DEF Sim!Changed
  <2>3. a \in started <=> Sim!Own(next, a) # {}
    <3> HIDE DEF badStop, badStart
    <3> QED BY <1>2 DEF Sim!Changed
  <2> QED BY <2>1, <2>2, <2>3
<1>4. between[a] = IF a \in stopped THEN None ELSE mode[a]
  OBVIOUS
<1>5. /\ p.mode[a] = IF a \in started THEN Sim!KindOf(next) ELSE between[a]
      /\ p.switch = Sim!Mark(stopped, started)
      /\ p.cmd = Sim!ResetCommands(stopped, list)
  <2>1. p.mode = newMode /\ p.switch = Sim!Mark(stopped, started)
        /\ p.cmd = Sim!ResetCommands(stopped, list)
    BY DEF Sim!Prepare
  <2> HIDE DEF started, between, p
  <2> QED BY <2>1
<1> HIDE DEF stopped, started, between, p
<1>6. p.switch[a] <=> switch[a] \/ a \in stopped \/ a \in started
  BY <1>5 DEF Sim!Mark, Sim!TypeOK
<1>7. a \notin stopped => p.cmd[a] = cmd[a]
  BY <1>5 DEF Sim!ResetCommands, Sim!TypeOK
<1>8. Sim!Own(list, a) # {} => Sim!Own(Groups(left), a) = {}
  BY <1>3, SimStopTakesAll DEF Sim!TypeOK
<1>9. SimModeOf(Sim!Own(Groups(left), a), between[a])
  <2>1. CASE Sim!Own(list, a) = {}
    <3>1. left \cup stop = running
      OBVIOUS
    <3>2. Sim!Own(Groups(running), a) = Sim!Own(Groups(left), a)
      BY <2>1, <3>1, SimOwnUnion
    <3> QED BY <1>3, <1>4, <2>1, <3>2
  <2>2. CASE Sim!Own(list, a) # {}
    BY <1>3, <1>4, <1>8, <2>2 DEF SimModeOf
  <2> QED BY <2>1, <2>2
<1>10. Sim!Own(Groups(left \cup start), a) = Sim!Own(Groups(left), a) \cup Sim!Own(next, a)
  <2> HIDE DEF left
  <2> QED BY SimOwnUnion
<1>11. SimModeOf(Sim!Own(Groups(left \cup start), a), p.mode[a])
  <2> HIDE DEF left
  <2>1. CASE Sim!Own(next, a) = {}
    BY <1>3, <1>5, <1>9, <1>10, <2>1
  <2>2. CASE Sim!Own(next, a) # {}
    <3>1. /\ between[a] = None /\ Sim!KindOf(next) \in Kinds
          /\ \A g \in next : g.kind = Sim!KindOf(next)
          /\ Size(Sim!Own(next, a)) = 7
      BY <1>3, <2>2, SimStartGivesMode
    <3>2. Sim!Own(Groups(left \cup start), a) = Sim!Own(next, a)
      BY <1>9, <1>10, <3>1 DEF SimModeOf
    <3>3. \A g \in Sim!Own(next, a) : g \in next
      BY DEF Sim!Own
    <3> HIDE DEF next
    <3> QED BY <1>3, <1>5, <2>2, <3>1, <3>2, <3>3 DEF SimModeOf
  <2> QED BY <2>1, <2>2
<1>12. \A cs : Sim!Own(Groups(cs), a) # {} => cs # {}
  BY DEF Sim!Own, Groups
<1>13. /\ ~p.switch[a] => ~switch[a] /\ p.mode[a] = mode[a]
       /\ p.switch[a] /\ ~switch[a] => start \cup stop # {}
  BY <1>3, <1>4, <1>5, <1>6, <1>12
<1>14. Sim!Own(Groups(left), a) # {} => p.cmd[a] = cmd[a]
  BY <1>3, <1>7, <1>8
<1> QED BY <1>11, <1>13, <1>14 DEF p

LEMMA SimSwitchKeeps ==
  ASSUME None \notin Kinds, SimInv, NEW start \in SUBSET Controllers, NEW stop \in SUBSET running,
         Sim!Switch(start, stop)
  PROVE  SimInv'
<1> DEFINE p == Sim!Prepare(Groups(start), Groups(stop))
<1>1. /\ live /\ request = NoRequest /\ start \cup stop # {}
      /\ Compatible((running \ stop) \cup start)
      /\ mode' = p.mode /\ switch' = p.switch /\ cmd' = p.cmd
      /\ request' = IF p.ok THEN [start |-> start, stop |-> stop] ELSE NoRequest
      /\ refused' = (refused \/ ~p.ok)
      /\ used' = [used EXCEPT !.requests = @ + 1]
      /\ UNCHANGED <<gains, ctrl, hand, live, rt, running>>
  BY SimNames DEF Sim!Switch
<1>2. /\ p.ok \in BOOLEAN
      /\ p.mode \in [Arms -> Sim!Modes] /\ p.switch \in [Arms -> BOOLEAN]
      /\ p.cmd \in [Arms -> [Sim!Kinds -> Sim!Values]]
  BY SimPrepareType DEF SimInv
<1>3. ASSUME p.ok, NEW a \in Arms,
             \A b \in Arms : SimModeOf(Sim!Own(Groups(running), b), mode[b]), Compatible(running)
      PROVE  /\ SimModeOf(Sim!Own(Groups((running \ stop) \cup start), a), p.mode[a])
             /\ ~p.switch[a] => ~switch[a] /\ p.mode[a] = mode[a]
             /\ Sim!Own(Groups(running \ stop), a) # {} => p.cmd[a] = cmd[a]
  <2>1. Sim!TypeOK
    BY DEF SimInv
  <2> QED BY <1>3, <2>1, SimPrepareFollows
<1> HIDE DEF p
<1>4. Sim!TypeOK'
  <2>1. request' \in [start : SUBSET Controllers, stop : SUBSET Controllers]
    BY <1>1 DEF SimInv, Sim!TypeOK, NoRequest
  <2>2. used' \in [requests : Nat, lifecycle : Nat, nan : Nat]
    BY <1>1 DEF SimInv, Sim!TypeOK
  <2>3. refused' \in BOOLEAN /\ live'
    BY <1>1
  <2> QED BY <1>1, <1>2, <2>1, <2>2, <2>3 DEF SimInv, Sim!TypeOK
<1>5. /\ Agreed = running
      /\ p.ok => Agreed' = (running \ stop) \cup start
      /\ ~p.ok => Agreed' = running
  BY <1>1 DEF Agreed, NoRequest
<1>6. Sim!Compatible(Agreed)'
  <2>1. Compatible(Agreed')
    BY <1>1, <1>5, SimNames DEF SimInv
  <2> QED BY <2>1 DEF Compatible, Sim!Compatible
<1>7. ASSUME ~refused', NEW a \in Arms
      PROVE  /\ SimModeOf(Sim!Own(Groups(Agreed'), a), mode'[a])
             /\ switch'[a] => request' # NoRequest
             /\ ~switch'[a] => gains'[a] = mode'[a]
             /\ \A g \in Groups(running') : g.arm = a => gains'[a] = g.kind
             /\ gains'[a] # None => \E g \in Groups(running') : g.arm = a
             /\ rt' = "write" => \A g \in Groups(running' \ request'.stop) :
                  g.arm = a => cmd'[a][g.kind] \in {"new", "nan"}
  <2>1. p.ok /\ ~refused
    BY <1>1, <1>2, <1>7 DEF SimInv, Sim!TypeOK
  <2>2. \A b \in Arms : SimModeOf(Sim!Own(Groups(running), b), mode[b])
    BY <1>5, <2>1 DEF SimInv
  <2>3. Compatible(running)
    BY <1>5, SimNames DEF SimInv
  <2>4. /\ SimModeOf(Sim!Own(Groups((running \ stop) \cup start), a), p.mode[a])
        /\ ~p.switch[a] => ~switch[a] /\ p.mode[a] = mode[a]
        /\ Sim!Own(Groups(running \ stop), a) # {} => p.cmd[a] = cmd[a]
    BY <1>3, <1>7, <2>1, <2>2, <2>3
  <2>5. request' = [start |-> start, stop |-> stop] /\ request' # NoRequest
    BY <1>1, <2>1 DEF NoRequest
  <2>6. ~switch'[a] => gains'[a] = mode'[a]
    BY <1>1, <1>7, <2>1, <2>4 DEF SimInv
  <2>7. /\ \A g \in Groups(running') : g.arm = a => gains'[a] = g.kind
        /\ gains'[a] # None => \E g \in Groups(running') : g.arm = a
    BY <1>1, <1>7, <2>1 DEF SimInv, Groups
  <2>8. ASSUME rt' = "write", NEW g \in Groups(running' \ request'.stop), g.arm = a
        PROVE  cmd'[a][g.kind] \in {"new", "nan"}
    <3>1. g \in Groups(running \ stop) /\ running \ stop \subseteq running \ request.stop
      BY <1>1, <2>5, <2>8 DEF NoRequest
    <3>2. g \in Groups(running \ request.stop)
      BY <3>1 DEF Groups
    <3>3. cmd[a][g.kind] \in {"new", "nan"}
      BY <1>1, <1>7, <2>1, <2>8, <3>2 DEF SimInv
    <3>4. Sim!Own(Groups(running \ stop), a) # {}
      BY <2>8, <3>1 DEF Sim!Own
    <3> QED BY <1>1, <2>4, <3>3, <3>4
  <2>9. SimModeOf(Sim!Own(Groups(Agreed'), a), mode'[a])
    BY <1>1, <1>5, <2>1, <2>4
  <2> QED BY <2>5, <2>6, <2>7, <2>8, <2>9
<1> QED BY <1>4, <1>6, <1>7 DEF SimInv

\* What the controllers leave in the commands.
LEMMA SimComputeKeeps ==
  ASSUME Sim!TypeOK, NEW cs \in SUBSET Controllers, NEW bad, Sim!Compute(cs, bad)
  PROVE  /\ cmd' \in [Arms -> [Sim!Kinds -> Sim!Values]]
         /\ ctrl' \in [Arms -> [Sim!Kinds -> Sim!Values]]
         /\ used' \in [requests : Nat, lifecycle : Nat, nan : Nat]
         /\ \A a \in Arms : \A g \in Groups(cs) : g.arm = a => cmd'[a][g.kind] \in {"new", "nan"}
<1>1. \A v \in Sim!Values : Sim!Older(v) \in Sim!Values
  BY DEF Sim!Older, Sim!Values
<1>2. ctrl' \in [Arms -> [Sim!Kinds -> Sim!Values]]
  BY <1>1 DEF Sim!Compute, Sim!TypeOK
<1>3. cmd' \in [Arms -> [Sim!Kinds -> Sim!Values]]
  <2>1. "nan" \in Sim!Values /\ "new" \in Sim!Values
    BY DEF Sim!Values
  <2>2. \A a \in Arms : \A k \in Sim!Kinds : Sim!Older(cmd[a][k]) \in Sim!Values
    BY <1>1 DEF Sim!TypeOK
  <2> HIDE DEF Sim!Values
  <2> QED BY <2>1, <2>2 DEF Sim!Compute
<1>4. used' \in [requests : Nat, lifecycle : Nat, nan : Nat]
  BY DEF Sim!Compute, Sim!TypeOK
<1>5. ASSUME NEW a \in Arms, NEW g \in Groups(cs), g.arm = a
      PROVE  cmd'[a][g.kind] \in {"new", "nan"}
  <2>1. PICK c \in cs : g \in Claims[c]
    BY <1>5 DEF Groups
  <2>2. g.kind \in Sim!Kinds
    BY <2>1, SimNames, ControllersAssumption
  <2> QED BY <1>5, <2>1, <2>2 DEF Sim!Compute
<1> QED BY <1>2, <1>3, <1>4, <1>5

LEMMA SimUpdateKeeps ==
  ASSUME SimInv, NEW bad, Sim!Update(bad) \/ Sim!UpdateAndSwitch(bad)
  PROVE  SimInv'
<1>1. /\ running' = Agreed /\ request' = NoRequest
      /\ rt' = "write" /\ UNCHANGED <<mode, hand, live, refused>>
      /\ Sim!Compute(Agreed, bad)
      /\ \/ UNCHANGED <<switch, gains>> /\ request = NoRequest
         \/ gains' = Sim!GainsOfMode /\ switch' = [a \in Arms |-> FALSE] /\ request # NoRequest
  <2>1. CASE Sim!Update(bad)
    <3>1. Agreed = running
      BY <2>1, SimNames DEF Sim!Update, Agreed, NoRequest
    <3> QED BY <2>1, <3>1, SimNames DEF Sim!Update, Sim!arms
  <2>2. CASE Sim!UpdateAndSwitch(bad)
    BY <2>2, SimNames DEF Sim!UpdateAndSwitch, Sim!PerformCommandModeSwitch, Agreed
  <2> QED BY <2>1, <2>2
<1>2. Agreed \in SUBSET Controllers /\ Sim!TypeOK
  BY DEF SimInv, Sim!TypeOK, Agreed
<1>3. Agreed' = Agreed
  BY <1>1 DEF Agreed, NoRequest
<1>4. /\ cmd' \in [Arms -> [Sim!Kinds -> Sim!Values]]
      /\ ctrl' \in [Arms -> [Sim!Kinds -> Sim!Values]]
      /\ used' \in [requests : Nat, lifecycle : Nat, nan : Nat]
      /\ \A a \in Arms : \A g \in Groups(Agreed) : g.arm = a => cmd'[a][g.kind] \in {"new", "nan"}
  BY <1>1, <1>2, SimComputeKeeps
<1>5. Sim!TypeOK'
  <2>1. gains' \in [Arms -> Sim!Modes] /\ switch' \in [Arms -> BOOLEAN]
    <3>1. CASE UNCHANGED <<switch, gains>>
      BY <1>2, <3>1 DEF Sim!TypeOK
    <3>2. CASE gains' = Sim!GainsOfMode /\ switch' = [a \in Arms |-> FALSE]
      BY <1>2, <3>2 DEF Sim!TypeOK, Sim!GainsOfMode
    <3> QED BY <1>1, <3>1, <3>2
  <2>2. request' \in [start : SUBSET Controllers, stop : SUBSET Controllers]
    BY <1>1 DEF NoRequest
  <2>3. ~live => running' = {} /\ request' = NoRequest
    BY <1>1, <1>2, SimNames DEF Sim!TypeOK, Agreed, NoRequest
  <2> QED BY <1>1, <1>2, <1>4, <2>1, <2>2, <2>3, SimNames DEF Sim!TypeOK
<1>6. Sim!Compatible(Agreed)'
  BY <1>3 DEF SimInv, Sim!Compatible
<1>7. ASSUME ~refused, NEW a \in Arms
      PROVE  /\ SimModeOf(Sim!Own(Groups(Agreed), a), mode[a])
             /\ ~switch'[a] /\ gains'[a] = mode[a]
  <2>1. /\ SimModeOf(Sim!Own(Groups(Agreed), a), mode[a])
        /\ switch[a] => request # NoRequest
        /\ ~switch[a] => gains[a] = mode[a]
    BY <1>7 DEF SimInv
  <2>2. CASE UNCHANGED <<switch, gains>> /\ request = NoRequest
    BY <2>1, <2>2
  <2>3. CASE gains' = Sim!GainsOfMode /\ switch' = [b \in Arms |-> FALSE]
    <3>1. gains'[a] = mode[a]
      BY <1>7, <2>1, <2>3 DEF Sim!GainsOfMode
    <3>2. ~switch'[a]
      BY <1>7, <2>3, Zenon
    <3> QED BY <2>1, <3>1, <3>2
  <2> QED BY <1>1, <2>2, <2>3
<1>8. ASSUME ~refused, NEW a \in Arms
      PROVE  /\ \A g \in Groups(Agreed) : g.arm = a => gains'[a] = g.kind
             /\ gains'[a] # None => \E g \in Groups(Agreed) : g.arm = a
  BY <1>7, <1>8 DEF SimModeOf, Sim!Own
<1>9. ASSUME ~refused', NEW a \in Arms
      PROVE  /\ SimModeOf(Sim!Own(Groups(Agreed'), a), mode'[a])
             /\ switch'[a] => request' # NoRequest
             /\ ~switch'[a] => gains'[a] = mode'[a]
             /\ \A g \in Groups(running') : g.arm = a => gains'[a] = g.kind
             /\ gains'[a] # None => \E g \in Groups(running') : g.arm = a
             /\ rt' = "write" => \A g \in Groups(running' \ request'.stop) :
                  g.arm = a => cmd'[a][g.kind] \in {"new", "nan"}
  <2>1. \A g \in Groups(running' \ request'.stop) : g \in Groups(Agreed)
    BY <1>1 DEF Groups
  <2>2. ~refused
    BY <1>1, <1>9
  <2> QED BY <1>1, <1>3, <1>4, <1>7, <1>8, <1>9, <2>1, <2>2
<1> QED BY <1>5, <1>6, <1>9 DEF SimInv

LEMMA SimWriteKeeps ==
  ASSUME SimInv, Sim!Write
  PROVE  SimInv'
<1>1. /\ rt' = "read"
      /\ UNCHANGED <<mode, switch, gains, cmd, live, running, request, refused, used>>
  BY DEF Sim!Write, Sim!arms
<1>2. ctrl' \in [Arms -> [Sim!Kinds -> Sim!Values]] /\ hand' \in [Arms -> BOOLEAN]
  BY DEF SimInv, Sim!TypeOK, Sim!Write, Sim!Values
<1>3. Sim!TypeOK'
  BY <1>1, <1>2 DEF SimInv, Sim!TypeOK
<1> QED BY <1>1, <1>3 DEF SimInv, Agreed, Sim!Compatible

LEMMA SimQuietKeeps ==
  ASSUME SimInv,
         Sim!Read \/ (\E a \in Arms : Sim!GripperCommand(a)) \/ UNCHANGED Sim!vars
  PROVE  SimInv'
<1>1. /\ rt' \in {"read", "update", "write"} /\ (rt' = "write" => rt = "write")
      /\ hand' \in [Arms -> BOOLEAN]
      /\ UNCHANGED <<mode, switch, gains, cmd, ctrl, live, running, request, refused, used>>
  BY DEF SimInv, Sim!TypeOK, Sim!Read, Sim!GripperCommand, Sim!arms, Sim!data, Sim!vars
<1>2. Sim!TypeOK'
  BY <1>1 DEF SimInv, Sim!TypeOK
<1> QED BY <1>1, <1>2 DEF SimInv, Agreed, Sim!Compatible

LEMMA SimLifecycleKeeps ==
  ASSUME SimInv, Sim!OnActivate \/ Sim!OnDeactivate
  PROVE  SimInv'
<1>1. /\ running = {} /\ request = NoRequest /\ rt = "read"
      /\ live' \in BOOLEAN /\ mode' = [a \in Arms |-> None]
      /\ cmd' = cmd \/ cmd' = [a \in Arms |-> [cmd[a] EXCEPT !["effort"] = "zero"]]
      /\ used' = [used EXCEPT !.lifecycle = @ + 1]
      /\ UNCHANGED <<switch, gains, ctrl, hand, rt, running, request, refused>>
  <2>1. CASE Sim!OnActivate
    <3>1. live' = TRUE
      BY <2>1, Zenon DEF Sim!OnActivate
    <3> QED BY <2>1, <3>1, SimNames DEF Sim!OnActivate, Sim!Lifecycle
  <2>2. CASE Sim!OnDeactivate
    <3>1. live' = FALSE
      BY <2>2, Zenon DEF Sim!OnDeactivate
    <3> QED BY <2>2, <3>1, SimNames DEF Sim!OnDeactivate, Sim!Lifecycle, Sim!data
  <2> QED BY <2>1, <2>2
<1>2. Sim!TypeOK'
  <2>1. mode' \in [Arms -> Sim!Modes]
    BY <1>1 DEF Sim!Modes
  <2>2. cmd' \in [Arms -> [Sim!Kinds -> Sim!Values]]
    <3>1. cmd \in [Arms -> [Sim!Kinds -> Sim!Values]] /\ "zero" \in Sim!Values
      BY DEF SimInv, Sim!TypeOK, Sim!Values
    <3>2. \A a \in Arms : [cmd[a] EXCEPT !["effort"] = "zero"] \in [Sim!Kinds -> Sim!Values]
      <4> HIDE DEF Sim!Values, Sim!Kinds
      <4> QED BY <3>1
    <3> QED BY <1>1, <3>1, <3>2
  <2>3. used' \in [requests : Nat, lifecycle : Nat, nan : Nat]
    BY <1>1 DEF SimInv, Sim!TypeOK
  <2>4. running' = {} /\ request' = NoRequest
    BY <1>1
  <2> QED BY <1>1, <2>1, <2>2, <2>3, <2>4, SimNames DEF SimInv, Sim!TypeOK
<1>3. Agreed = {} /\ Agreed' = {} /\ Groups({}) = {}
  BY <1>1 DEF Agreed, NoRequest, Groups
<1>4. Sim!Compatible(Agreed)'
  BY <1>3 DEF Sim!Compatible
<1>5. ASSUME ~refused', NEW a \in Arms
      PROVE  /\ SimModeOf(Sim!Own(Groups(Agreed'), a), mode'[a])
             /\ ~switch'[a] /\ gains'[a] = None /\ mode'[a] = None
  <2>1. Sim!Own({}, a) = {}
    BY DEF Sim!Own
  <2>2. SimModeOf(Sim!Own(Groups(Agreed), a), mode[a])
        /\ (switch[a] => request # NoRequest) /\ (~switch[a] => gains[a] = mode[a])
    BY <1>1, <1>5 DEF SimInv
  <2>3. mode[a] = None /\ ~switch[a] /\ gains[a] = None
    BY <1>1, <1>3, <2>1, <2>2 DEF SimModeOf
  <2> QED BY <1>1, <1>3, <1>5, <2>1, <2>3 DEF SimModeOf
<1> QED BY <1>1, <1>2, <1>3, <1>4, <1>5 DEF SimInv

LEMMA SimStep == None \notin Kinds /\ SimInv /\ [Sim!Next]_(Sim!vars) => SimInv'
<1> SUFFICES ASSUME None \notin Kinds, SimInv, [Sim!Next]_(Sim!vars) PROVE SimInv'
  OBVIOUS
<1>1. ASSUME NEW start \in SUBSET Controllers, NEW stop \in SUBSET running, Sim!Switch(start, stop)
      PROVE  SimInv'
  BY <1>1, SimSwitchKeeps
<1>2. ASSUME NEW bad \in SUBSET Arms, Sim!Update(bad) \/ Sim!UpdateAndSwitch(bad)
      PROVE  SimInv'
  BY <1>2, SimUpdateKeeps
<1> QED
  BY <1>1, <1>2, SimWriteKeeps, SimQuietKeeps, SimLifecycleKeeps DEF Sim!Next

\* FrankaMjHardwareSystem keeps the types of its state, and only an active component
\* has running controllers or a change that waits.
THEOREM SimTypeCorrect == ASSUME None \notin Kinds PROVE Sim!Spec => []Sim!TypeOK
<1>1. SimInv => Sim!TypeOK
  BY DEF SimInv
<1>2. Sim!Spec => []SimInv
  BY SimInit, SimStep, PTL DEF Sim!Spec
<1> QED BY <1>1, <1>2, PTL

\* Whatever prepare_command_mode_switch and perform_command_mode_switch are given, and
\* however the service thread and the update thread interleave: the actuators that are
\* on are those the running controllers command, as long as no request was refused.
THEOREM GainsSafe == ASSUME None \notin Kinds PROVE Sim!Spec => []Sim!GainsMatchControllers
<1>1. SimInv => Sim!GainsMatchControllers
  <2> SUFFICES ASSUME SimInv, ~refused, NEW a \in Arms
               PROVE  {k \in Sim!Kinds : \E g \in Groups(running) : g.arm = a /\ g.kind = k}
                        = IF gains[a] = None THEN {} ELSE {gains[a]}
    BY SimNames DEF Sim!GainsMatchControllers
  <2>1. /\ \A g \in Groups(running) : g.arm = a => gains[a] = g.kind
        /\ gains[a] # None => \E g \in Groups(running) : g.arm = a
    BY DEF SimInv
  <2>2. \A g \in Groups(running) : g.kind \in Kinds
    BY ControllersAssumption DEF SimInv, Sim!TypeOK, Groups
  <2> QED BY <2>1, <2>2, SimNames
<1>2. Sim!Spec => []SimInv
  BY SimInit, SimStep, PTL DEF Sim!Spec
<1> QED BY <1>1, <1>2, PTL

\* What write does in every cycle: an arm whose commands, and those of the arms before
\* it, are finite gets them on the actuators that are on, also while a change waits.
THEOREM CommandsSafe == ASSUME None \notin Kinds PROVE Sim!Spec => Sim!CommandsReachActuators
<1>1. SimInv /\ Sim!Write => \A a \in Arms :
        (\A b \in Arms : Position[b] <= Position[a] => Sim!Finite(b))
          => /\ hand'[a]
             /\ ~refused => \A g \in Groups(running \ request.stop) :
                  g.arm = a => gains[a] = g.kind /\ ctrl'[a][g.kind] = "new"
  <2> SUFFICES ASSUME SimInv, Sim!Write, NEW a \in Arms,
                      \A b \in Arms : Position[b] <= Position[a] => Sim!Finite(b)
               PROVE  /\ hand'[a]
                      /\ ~refused => \A g \in Groups(running \ request.stop) :
                           g.arm = a => gains[a] = g.kind /\ ctrl'[a][g.kind] = "new"
    OBVIOUS
  <2>1. a \in Sim!Written
    BY DEF Sim!Written
  <2>2. hand'[a]
    BY <2>1 DEF Sim!Write
  <2>3. Sim!Finite(a)
    <3>1. Position[a] \in Nat
      BY ArmsAssumption
    <3> QED BY <3>1
  <2>4. ASSUME ~refused, NEW g \in Groups(running \ request.stop), g.arm = a
        PROVE  gains[a] = g.kind /\ ctrl'[a][g.kind] = "new"
    <3>1. rt = "write" /\ cmd[a][g.kind] \in {"new", "nan"}
      BY <2>4 DEF SimInv, Sim!Write
    <3>2. PICK c \in running \ request.stop : g \in Claims[c]
      BY <2>4 DEF Groups
    <3>3. g.kind \in Kinds /\ running \in SUBSET Controllers
      BY <3>2, ControllersAssumption DEF SimInv, Sim!TypeOK
    <3>4. g \in Groups(running) /\ g \in Sim!Own(Groups(Agreed), a)
      BY <2>4, <3>2 DEF Groups, Agreed, Sim!Own
    <3>5. gains[a] = g.kind /\ mode[a] = g.kind
      BY <2>4, <3>4 DEF SimInv, SimModeOf
    <3>6. ctrl'[a][g.kind] = cmd[a][g.kind]
      BY <2>1, <3>3, <3>5, SimNames DEF Sim!Write
    <3>7. cmd[a][g.kind] # "nan"
      BY <2>3, <3>3, SimNames DEF Sim!Finite
    <3> QED BY <3>1, <3>5, <3>6, <3>7
  <2> QED BY <2>2, <2>4
<1>2. SimInv /\ [Sim!Next]_(Sim!vars) =>
        [Sim!Write => \A a \in Arms :
           (\A b \in Arms : Position[b] <= Position[a] => Sim!Finite(b))
             => /\ hand'[a]
                /\ ~refused => \A g \in Sim!Groups(running \ request.stop) :
                     g.arm = a => gains[a] = g.kind /\ ctrl'[a][g.kind] = "new"]_(Sim!vars)
  BY <1>1, SimNames
<1>3. Sim!Spec => []SimInv
  BY SimInit, SimStep, PTL DEF Sim!Spec
<1> QED BY <1>2, <1>3, PTL DEF Sim!Spec, Sim!CommandsReachActuators

=============================================================================
