----------------------- MODULE ProductionSession_proofs -----------------------
(***************************************************************************)
(* What holds of ProductionSession for every station, any number of        *)
(* programs and Episodes, and any number of faults and signals: IInv, kept *)
(* by every step, and from it HardwareUnderLease, RecordsInGravity and     *)
(* NoneGoesAstray.                                                         *)
(***************************************************************************)
EXTENDS ProductionSessionInv, SequenceTheorems, TLAPS

(* Everything a cleanup can have on its list. *)
Items == Procs \cup Contexts \cup {"usbfs", "lock"}

(* The lock comes last, if at all. *)
LockLast(s) == \A i \in DOMAIN s : s[i] = "lock" => i = Len(s)

(* The elements of a concatenation, by place. *)
LEMMA ConcatParts ==
    ASSUME NEW S, NEW s \in Seq(S), NEW t \in Seq(S)
    PROVE  /\ s \o t \in Seq(S)
           /\ Len(s \o t) = Len(s) + Len(t)
           /\ \A i \in 1..Len(s) : (s \o t)[i] = s[i]
           /\ \A i \in Len(s) + 1 .. Len(s) + Len(t) : (s \o t)[i] = t[i - Len(s)]
  OBVIOUS

(* What a concatenation holds is what either part holds. *)
LEMMA ConcatSet ==
    ASSUME NEW S, NEW s \in Seq(S), NEW t \in Seq(S)
    PROVE  ToSet(s \o t) = ToSet(s) \cup ToSet(t)
<1>1. ASSUME NEW x \in ToSet(s \o t) PROVE x \in ToSet(s) \cup ToSet(t)
  <2>1. PICK i \in 1..Len(s) + Len(t) : x = (s \o t)[i]
    BY <1>1, ConcatParts DEF ToSet
  <2>2. CASE i \in 1..Len(s)
    BY <2>1, <2>2, ConcatParts DEF ToSet
  <2>3. CASE i > Len(s)
    <3>1. i - Len(s) \in 1..Len(t)
      BY <2>3
    <3> QED
      BY <2>1, <2>3, <3>1, ConcatParts DEF ToSet
  <2> QED
    BY <2>1, <2>2, <2>3
<1>2. ASSUME NEW x \in ToSet(s) PROVE x \in ToSet(s \o t)
  <2>1. PICK i \in 1..Len(s) : x = s[i]
    BY <1>2 DEF ToSet
  <2> QED
    BY <2>1, ConcatParts DEF ToSet
<1>3. ASSUME NEW x \in ToSet(t) PROVE x \in ToSet(s \o t)
  <2>1. PICK i \in 1..Len(t) : x = t[i]
    BY <1>3 DEF ToSet
  <2>2. i + Len(s) \in Len(s) + 1 .. Len(s) + Len(t)
    OBVIOUS
  <2>3. (s \o t)[i + Len(s)] = t[i]
    BY <2>2, ConcatParts
  <2>4. i + Len(s) \in DOMAIN (s \o t)
    BY ConcatParts
  <2> QED
    BY <2>1, <2>3, <2>4 DEF ToSet
<1> QED
  BY <1>1, <1>2, <1>3

(* Working a list off from its end neither loses nor adds anything. *)
LEMMA ReverseSet ==
    ASSUME NEW S, NEW s \in Seq(S)
    PROVE  Reverse(s) \in Seq(S) /\ Len(Reverse(s)) = Len(s) /\ ToSet(Reverse(s)) = ToSet(s)
<1>1. Reverse(s) \in Seq(S) /\ Len(Reverse(s)) = Len(s)
  BY DEF Reverse
<1>2. \A i \in 1..Len(s) : Reverse(s)[i] = s[(Len(s) - i) + 1]
  BY DEF Reverse
<1>3. \A i \in 1..Len(s) : (Len(s) - i) + 1 \in 1..Len(s) /\ Len(s) - ((Len(s) - i) + 1) + 1 = i
  OBVIOUS
<1>4. ASSUME NEW i \in 1..Len(s) PROVE Reverse(s)[i] \in ToSet(s) /\ s[i] \in ToSet(Reverse(s))
  <2> DEFINE j == (Len(s) - i) + 1
  <2>1. j \in 1..Len(s) /\ (Len(s) - j) + 1 = i
    BY <1>3
  <2>2. Reverse(s)[i] = s[j] /\ Reverse(s)[j] = s[i]
    BY <1>2, <2>1
  <2> HIDE DEF j
  <2> QED
    BY <1>1, <2>1, <2>2 DEF ToSet
<1> QED
  BY <1>1, <1>4 DEF ToSet

(* What is left after the first element, and what was taken. *)
LEMMA TailSet ==
    ASSUME NEW S, NEW s \in Seq(S), s # <<>>
    PROVE  /\ Tail(s) \in Seq(S) /\ Head(s) \in S
           /\ ToSet(s) \subseteq {Head(s)} \cup ToSet(Tail(s))
           /\ Len(Tail(s)) = Len(s) - 1
           /\ \A i \in DOMAIN Tail(s) : i + 1 \in DOMAIN s /\ Tail(s)[i] = s[i + 1]
<1>1. /\ Tail(s) \in Seq(S) /\ Head(s) \in S /\ Len(Tail(s)) = Len(s) - 1 /\ Head(s) = s[1]
      /\ \A i \in 1..Len(s) - 1 : i + 1 \in DOMAIN s /\ Tail(s)[i] = s[i + 1]
  OBVIOUS
<1>2. ASSUME NEW i \in DOMAIN s PROVE s[i] \in {Head(s)} \cup ToSet(Tail(s))
  <2>1. CASE i = 1
    BY <1>1, <2>1
  <2>2. CASE i # 1
    <3>1. i - 1 \in 1..Len(s) - 1 /\ (i - 1) + 1 = i
      BY <2>2
    <3> QED
      BY <1>1, <3>1 DEF ToSet
  <2> QED
    BY <2>1, <2>2
<1> QED
  BY <1>1, <1>2 DEF ToSet

(* Appending adds one element. *)
LEMMA AppendSet ==
    ASSUME NEW S, NEW s \in Seq(S), NEW x
    PROVE  ToSet(s) \subseteq ToSet(Append(s, x)) /\ x \in ToSet(Append(s, x))
<1>1. /\ DOMAIN s = 1..Len(s) /\ DOMAIN Append(s, x) = 1..Len(s) + 1
      /\ \A i \in 1..Len(s) : Append(s, x)[i] = s[i]
      /\ Append(s, x)[Len(s) + 1] = x
  OBVIOUS
<1>2. \A i \in 1..Len(s) : i \in DOMAIN Append(s, x)
  BY <1>1
<1>3. Len(s) + 1 \in DOMAIN Append(s, x)
  BY <1>1
<1> QED
  BY <1>1, <1>2, <1>3 DEF ToSet

(* A list that is popped loses at most the item in hand. *)
LEMMA WithoutSet ==
    ASSUME NEW S, NEW s \in Seq(S)
    PROVE  Without(s) \in Seq(S) /\ ToSet(s) \subseteq {Item} \cup ToSet(Without(s))
<1>1. CASE s # <<>> /\ Last(s) = Item
  <2>1. Without(s) = SubSeq(s, 1, Len(s) - 1)
    BY <1>1 DEF Without, Front
  <2> DEFINE m == Len(s) - 1
  <2>0. m \in Nat /\ m <= Len(s)
    BY <1>1
  <2>2. /\ SubSeq(s, 1, m) \in Seq(S) /\ Len(SubSeq(s, 1, m)) = m
        /\ \A i \in 1..m : SubSeq(s, 1, m)[i] = s[i]
    <3> HIDE DEF m
    <3> QED
      BY <2>0, SubSeqProperties
  <2>3. s[Len(s)] = Item
    BY <1>1 DEF Last
  <2>4. ASSUME NEW i \in 1..Len(s), i # Len(s) PROVE i \in 1..m
    BY <2>4
  <2>5. ASSUME NEW i \in 1..Len(s), i # Len(s) PROVE s[i] \in ToSet(Without(s))
    <3>1. i \in 1..m
      BY <2>4, <2>5
    <3>2. i \in DOMAIN Without(s) /\ Without(s)[i] = s[i]
      BY <2>1, <2>2, <3>1
    <3> QED
      BY <3>2 DEF ToSet
  <2> QED
    <3>1. Without(s) \in Seq(S)
      BY <2>1, <2>2
    <3>2. \A x \in ToSet(s) : \E i \in 1..Len(s) : x = s[i]
      BY DEF ToSet
    <3> QED
      BY <2>3, <2>5, <3>1, <3>2
<1>2. CASE ~(s # <<>> /\ Last(s) = Item)
  BY <1>2 DEF Without
<1> QED
  BY <1>1, <1>2

(* The plan, before and behind the arms. *)
Before == <<"identity", "disk", "lock", "usbfs">>
Behind == <<"report", "readiness", "monitor", "controller", "adapter", "wait_arms", "home",
            "camera", "wait_cameras", "wait_streams", "precheck">>

(* The plan: four steps, the arms, eleven steps. *)
LEMMA PlanPlaces ==
    /\ Len(Arms) \in Nat /\ Len(Plan) = 15 + Len(Arms)
    /\ \A i \in 1..4 : Plan[i] = Before[i]
    /\ \A i \in 5..4 + Len(Arms) : i - 4 \in 1..Len(Arms) /\ Plan[i] = Arms[i - 4]
    /\ \A i \in 5 + Len(Arms) .. 15 + Len(Arms) : Plan[i] = Behind[i - 4 - Len(Arms)]
<1> DEFINE B == {"identity", "disk", "lock", "usbfs"}
           C == {"report", "readiness", "monitor", "controller", "adapter", "wait_arms",
                 "home", "camera", "wait_cameras", "wait_streams", "precheck"}
           S == Procs \cup B \cup C
           m == Len(Before)
           n == Len(Before \o Arms)
<1>1. Before \in Seq(B) /\ Len(Before) = 4
  BY DEF Before
<1>2. Behind \in Seq(C) /\ Len(Behind) = 11
  BY DEF Behind
<1>x. B \subseteq S /\ C \subseteq S /\ Procs \subseteq S
  OBVIOUS
<1> HIDE DEF B, C, S
<1>a. Before \in Seq(S) /\ Behind \in Seq(S) /\ Arms \in Seq(S) /\ Len(Arms) \in Nat
  BY <1>1, <1>2, <1>x, SessionAssumption, SeqMonotonic
<1>b. /\ Before \o Arms \in Seq(S) /\ n = m + Len(Arms)
      /\ \A i \in 1..m : (Before \o Arms)[i] = Before[i]
      /\ \A i \in m + 1 .. m + Len(Arms) : (Before \o Arms)[i] = Arms[i - m]
  BY <1>a, ConcatParts
<1>3. /\ n = 4 + Len(Arms)
      /\ \A i \in 1..4 : (Before \o Arms)[i] = Before[i]
      /\ \A i \in 5 .. 4 + Len(Arms) : (Before \o Arms)[i] = Arms[i - 4]
  BY <1>1, <1>b
<1>c. /\ Len((Before \o Arms) \o Behind) = n + Len(Behind)
      /\ \A i \in 1..n : ((Before \o Arms) \o Behind)[i] = (Before \o Arms)[i]
      /\ \A i \in n + 1 .. n + Len(Behind) :
            ((Before \o Arms) \o Behind)[i] = Behind[i - n]
  <2> DEFINE front == Before \o Arms
  <2>1. front \in Seq(S) /\ Behind \in Seq(S)
    BY <1>a, <1>b
  <2> HIDE DEF front
  <2>2. /\ Len(front \o Behind) = Len(front) + Len(Behind)
        /\ \A i \in 1..Len(front) : (front \o Behind)[i] = front[i]
        /\ \A i \in Len(front) + 1 .. Len(front) + Len(Behind) :
              (front \o Behind)[i] = Behind[i - Len(front)]
    BY <2>1, ConcatParts
  <2> QED
    BY <2>2 DEF front
<1>4. /\ Len((Before \o Arms) \o Behind) = (4 + Len(Arms)) + 11
      /\ \A i \in 1..4 + Len(Arms) : ((Before \o Arms) \o Behind)[i] = (Before \o Arms)[i]
      /\ \A i \in 4 + Len(Arms) + 1 .. 4 + Len(Arms) + 11 :
            ((Before \o Arms) \o Behind)[i] = Behind[i - (4 + Len(Arms))]
  <2> HIDE DEF n
  <2> QED
    BY <1>2, <1>3, <1>c
<1>5. Plan = (Before \o Arms) \o Behind
  BY DEF Plan, Before, Behind
<1>6. \A i \in 5..4 + Len(Arms) : i - 4 \in 1..Len(Arms)
  BY <1>a
<1>7. \A i \in Int : i - (4 + Len(Arms)) = i - 4 - Len(Arms)
  BY <1>a
<1> QED
  BY <1>a, <1>3, <1>4, <1>5, <1>6, <1>7

(* Where in the plan the steps are that the invariant tells apart. *)
LEMMA StepPlaces ==
    ASSUME NEW i \in 1..Len(Plan)
    PROVE  /\ Reported \in Nat /\ Reported > 4
           /\ Plan[i] = "lock" <=> i = 3
           /\ Plan[i] = "usbfs" <=> i = 4
           /\ Plan[i] = "report" <=> i = Reported
           /\ Plan[i] \in Procs => i > 4
           /\ Plan[i] \in ToSet(Arms) <=> i \in 5..4 + Len(Arms)
           /\ Plan[i] \in Contexts => i > Reported
<1>1. CASE i \in 1..4
  <2>1. Plan[i] = Before[i]
    BY <1>1, PlanPlaces
  <2>2. /\ i = 1 => Plan[i] = "identity"
        /\ i = 2 => Plan[i] = "disk"
        /\ i = 3 => Plan[i] = "lock"
        /\ i = 4 => Plan[i] = "usbfs"
    BY <2>1 DEF Before
  <2>3. i = 1 \/ i = 2 \/ i = 3 \/ i = 4
    BY <1>1
  <2>4. ToSet(Arms) \subseteq Procs
    BY SessionAssumption DEF ToSet
  <2> QED
    BY <2>2, <2>3, <2>4, PlanPlaces, SessionAssumption DEF Contexts, Reported, Waits
<1>2. CASE i \in 5..4 + Len(Arms)
  <2>1. i - 4 \in 1..Len(Arms) /\ Plan[i] = Arms[i - 4]
    BY <1>2, PlanPlaces
  <2>2. Plan[i] \in ToSet(Arms) /\ Plan[i] \in Procs
    BY <2>1, SessionAssumption DEF ToSet
  <2> QED
    BY <1>2, <2>2, PlanPlaces, SessionAssumption DEF Contexts, Reported, Waits
<1>3. CASE i \in 5 + Len(Arms) .. 15 + Len(Arms)
  <2> DEFINE j == i - 4 - Len(Arms)
  <2>1. Plan[i] = Behind[j]
    BY <1>3, PlanPlaces
  <2>2. j \in 1..11 /\ (j = 1 <=> i = Reported)
    BY <1>3, PlanPlaces DEF Reported
  <2>3. j = 1 \/ j = 2 \/ j = 3 \/ j = 4 \/ j = 5 \/ j = 6 \/ j = 7 \/ j = 8 \/ j = 9
          \/ j = 10 \/ j = 11
    BY <2>2
  <2> HIDE DEF j
  <2>4. /\ j = 1 => Plan[i] = "report"
        /\ j = 2 => Plan[i] = "readiness"
        /\ j = 3 => Plan[i] = "monitor"
        /\ j = 4 => Plan[i] = "controller"
        /\ j = 5 => Plan[i] = "adapter"
        /\ j = 6 => Plan[i] = "wait_arms"
        /\ j = 7 => Plan[i] = "home"
        /\ j = 8 => Plan[i] = "camera"
        /\ j = 9 => Plan[i] = "wait_cameras"
        /\ j = 10 => Plan[i] = "wait_streams"
        /\ j = 11 => Plan[i] = "precheck"
    BY <2>1 DEF Behind
  <2>5. ToSet(Arms) \subseteq Procs
    BY SessionAssumption DEF ToSet
  <2>6. /\ Plan[i] \notin {"lock", "usbfs"}
        /\ Plan[i] = "report" <=> j = 1
        /\ Plan[i] \notin ToSet(Arms)
    BY <2>3, <2>4, <2>5, SessionAssumption DEF Contexts, Waits
  <2>7. Plan[i] \in Contexts => j # 1
    BY <2>4 DEF Contexts
  <2> QED
    BY <1>3, <2>2, <2>6, <2>7, PlanPlaces DEF Reported
<1> QED
  BY <1>1, <1>2, <1>3, PlanPlaces

(* What comes before a list without a lock does not move its lock from the *)
(* end.                                                                    *)
LEMMA ConcatLast ==
    ASSUME NEW S, NEW s \in Seq(S), NEW t \in Seq(S), "lock" \notin ToSet(s), LockLast(t)
    PROVE  LockLast(s \o t)
<1> SUFFICES ASSUME NEW i \in 1..Len(s) + Len(t), (s \o t)[i] = "lock"
             PROVE  i = Len(s) + Len(t)
  BY ConcatParts DEF LockLast
<1>1. CASE i \in 1..Len(s)
  BY <1>1, ConcatParts DEF ToSet
<1>2. CASE i \in Len(s) + 1 .. Len(s) + Len(t)
  <2>1. (s \o t)[i] = t[i - Len(s)] /\ i - Len(s) \in 1..Len(t)
    BY <1>2, ConcatParts
  <2> QED
    BY <2>1 DEF LockLast
<1> QED
  BY <1>1, <1>2

(* SystemBringup.stop works off every interface and releases the lock      *)
(* last.                                                                   *)
LEMMA SystemStopShape ==
    ASSUME TypeOK
    PROVE  /\ SystemStop \in Seq(Items) /\ LockLast(SystemStop)
           /\ ToSet(interfaces) \subseteq ToSet(SystemStop)
<1> DEFINE end == <<"usbfs", "lock">>
<1>1. end \in Seq(Items) /\ LockLast(end)
  BY DEF Items, LockLast
<1>2. ToSet(Arms) \subseteq Items /\ "lock" \notin ToSet(Arms)
  BY SessionAssumption DEF ToSet, Items
<1>3. interfaces \in Seq(Items) /\ interfaces \in Seq(ToSet(Arms))
  BY <1>2, SeqMonotonic DEF TypeOK
<1>4. /\ Reverse(interfaces) \in Seq(Items) /\ "lock" \notin ToSet(Reverse(interfaces))
      /\ ToSet(Reverse(interfaces)) = ToSet(interfaces)
  <2>1. ToSet(interfaces) \subseteq ToSet(Arms)
    BY <1>3 DEF ToSet
  <2> QED
    BY <1>2, <1>3, <2>1, ReverseSet
<1> HIDE DEF end
<1>5. /\ Reverse(interfaces) \o end \in Seq(Items) /\ LockLast(Reverse(interfaces) \o end)
      /\ ToSet(interfaces) \subseteq ToSet(Reverse(interfaces) \o end)
  BY <1>1, <1>4, ConcatParts, ConcatLast, ConcatSet
<1> QED
  BY <1>5 DEF SystemStop, end

(* Session.stop works off everything the program kept, the lock last. *)
LEMMA SessionStopShape ==
    ASSUME TypeOK
    PROVE  /\ SessionStop \in Seq(Items) /\ LockLast(SessionStop)
           /\ ToSet(processes) \subseteq ToSet(SessionStop)
           /\ "system" \in flags => ToSet(interfaces) \subseteq ToSet(SessionStop)
<1> DEFINE a == IF "monitor" \in flags THEN <<"monitor">> ELSE <<>>
           b == IF "home" \in flags THEN <<"home">> ELSE <<>>
           c == Reverse(processes)
           d == IF "readiness" \in flags THEN <<"readiness">> ELSE <<>>
           e == IF "system" \in flags THEN SystemStop ELSE <<>>
           Free(s) == s \in Seq(Items) /\ "lock" \notin ToSet(s)
<1>1. Free(a) /\ Free(b) /\ Free(d)
  BY DEF Items, Contexts, ToSet
<1>2. processes \in Seq(Items) /\ "lock" \notin ToSet(processes)
  <2>1. processes \in Seq(Procs) /\ Procs \subseteq Items /\ "lock" \notin Procs
    BY SessionAssumption DEF TypeOK, Items
  <2> QED
    BY <2>1, SeqMonotonic DEF ToSet
<1>3. Free(c) /\ ToSet(c) = ToSet(processes)
  BY <1>2, ReverseSet
<1>4. /\ e \in Seq(Items) /\ LockLast(e)
      /\ "system" \in flags => ToSet(interfaces) \subseteq ToSet(e)
  BY SystemStopShape DEF LockLast
<1> HIDE DEF a, b, c, d, e
<1>5. Free(a \o b)
  BY <1>1, ConcatParts, ConcatSet
<1>6. Free((a \o b) \o c) /\ ToSet(c) \subseteq ToSet((a \o b) \o c)
  <2> DEFINE x == a \o b
  <2> HIDE DEF x
  <2>1. Free(x) => Free(x \o c) /\ ToSet(c) \subseteq ToSet(x \o c)
    BY <1>3, ConcatParts, ConcatSet
  <2> QED
    BY <1>5, <2>1 DEF x
<1>7. Free(((a \o b) \o c) \o d) /\ ToSet(c) \subseteq ToSet(((a \o b) \o c) \o d)
  <2> DEFINE x == (a \o b) \o c
  <2> HIDE DEF x
  <2>1. Free(x) => Free(x \o d) /\ ToSet(x) \subseteq ToSet(x \o d)
    BY <1>1, ConcatParts, ConcatSet
  <2> QED
    BY <1>6, <2>1 DEF x
<1>8. /\ (((a \o b) \o c) \o d) \o e \in Seq(Items) /\ LockLast((((a \o b) \o c) \o d) \o e)
      /\ ToSet(c) \cup ToSet(e) \subseteq ToSet((((a \o b) \o c) \o d) \o e)
  <2> DEFINE x == ((a \o b) \o c) \o d
  <2>0. Free(x) /\ ToSet(c) \subseteq ToSet(x)
    BY <1>7
  <2> HIDE DEF x
  <2>1. x \o e \in Seq(Items) /\ LockLast(x \o e) /\ ToSet(x \o e) = ToSet(x) \cup ToSet(e)
    BY <1>4, <2>0, ConcatParts, ConcatSet, ConcatLast
  <2>2. ToSet(c) \cup ToSet(e) \subseteq ToSet(x \o e)
    BY <2>0, <2>1
  <2> QED
    BY <2>1, <2>2 DEF x
<1>9. SessionStop = (((a \o b) \o c) \o d) \o e
  BY DEF SessionStop, a, b, c, d, e
<1> QED
  BY <1>3, <1>4, <1>8, <1>9

(* What the parts of an action do to the thread's own variables. *)
ThreadTypeOK ==
    /\ pc \in {"none", "stopping", "ended"} \cup Acquiring \cup Cycling
    /\ at \in 1..Len(Plan) /\ sig \in 0..Len(Signals)
    /\ stage \in {"none", "undo", "inner", "outer"}
    /\ todo \in Seq(Items)

(* Cleanup begins with a list of named items. *)
LEMMA CleanupTypes ==
    ASSUME TypeOK, NEW undo \in Seq(Items), Cleanup(undo)
    PROVE  ThreadTypeOK' /\ UNCHANGED owned
<1>1. SystemStop \in Seq(Items) /\ SessionStop \in Seq(Items)
  BY SystemStopShape, SessionStopShape
<1>2. UNCHANGED <<at, owned>>
  BY DEF Cleanup
<1>3. todo' \in Seq(Items)
  BY <1>1 DEF Cleanup
<1>4. at' \in 1..Len(Plan)
  BY <1>2 DEF TypeOK
<1>5. sig' \in 0..Len(Signals)
  BY DEF Cleanup, Signals
<1> QED
  BY <1>2, <1>3, <1>4, <1>5 DEF Cleanup, ThreadTypeOK

(* The thread goes from step to step, ... *)
LEMMA GotoTypes ==
    ASSUME TypeOK, NEW label \in {"none", "stopping", "ended"} \cup Acquiring \cup Cycling,
           Goto(label)
    PROVE  ThreadTypeOK'
  BY DEF TypeOK, ThreadTypeOK, Goto, Items

(* ... on in the plan, ... *)
LEMMA NextStepTypes ==
    ASSUME TypeOK, NextStep
    PROVE  ThreadTypeOK'
<1>1. at' \in 1..Len(Plan)
  BY PlanPlaces DEF TypeOK, NextStep
<1>2. pc' \in Acquiring \cup {"ready"}
  BY DEF NextStep, Acquiring
<1>3. UNCHANGED <<stage, todo, sig>>
  BY DEF NextStep
<1> QED
  BY <1>1, <1>2, <1>3 DEF TypeOK, ThreadTypeOK, Items, Cycling

(* ... on in the cleanup. *)
LEMMA PopTypes ==
    ASSUME TypeOK, todo # <<>>, Pop
    PROVE  ThreadTypeOK'
<1>1. todo' \in Seq(Items)
  BY TailSet DEF TypeOK, Pop, Items
<1>2. UNCHANGED <<pc, at, stage>> /\ sig' = 0
  BY DEF Pop
<1> QED
  BY <1>1, <1>2 DEF TypeOK, ThreadTypeOK, Signals

(* What is forgotten was kept. *)
LEMMA ForgetTypes ==
    ASSUME TypeOK, Item \in Procs, Forget
    PROVE  interfaces' \in Seq(ToSet(Arms)) /\ processes' \in Seq(Procs)
  BY WithoutSet DEF TypeOK, Forget

(* A fault is counted. *)
LEMMA FaultTypes ==
    ASSUME TypeOK, Fault
    PROVE  count' \in [programs : Nat, episodes : Nat, signals : Nat, faults : Nat]
<1>1. count' = [count EXCEPT !.faults = count.faults + 1]
  BY DEF Fault
<1>2. count.faults + 1 \in Nat
  BY DEF TypeOK
<1> QED
  BY <1>1, <1>2 DEF TypeOK

(* An exception starts the cleanup. *)
LEMMA RaiseTypes ==
    ASSUME TypeOK, StepInv, Raise
    PROVE  ThreadTypeOK' /\ UNCHANGED owned
<1> DEFINE undo == IF pc = "confirm" /\ (Step \in Contexts \/ Running(Step))
                     THEN <<Step>> ELSE <<>>
<1>1. undo \in Seq(Items)
  <2>1. pc = "confirm" => Step \in Items
    BY DEF StepInv, Items, Contexts
  <2> QED
    BY <2>1
<1>2. Cleanup(undo)
  BY DEF Raise
<1> HIDE DEF undo
<1> QED
  BY <1>1, <1>2, CleanupTypes

(* Requests that are answered or given up keep to what was asked. *)
LEMMA GiveUpTypes ==
    ASSUME TypeOK, NEW target \in Modes, GiveUp(target)
    PROVE  mode' \in [Sides -> Modes] /\ late' \subseteq [side : Sides, to : Modes]
  BY DEF TypeOK, GiveUp

(* TypeOK, in the parts that different actions touch. *)
TypeParts ==
    /\ GroupsTypeOK
    /\ lock \in {"free", "ours", "other"}
    /\ usbfs \in [raised : BOOLEAN, noted : BOOLEAN]
    /\ interfaces \in Seq(ToSet(Arms)) /\ processes \in Seq(Procs)
    /\ context \in [Contexts -> {"none", "node", "up", "stuck"}]
    /\ flags \subseteq Contexts \cup {"system"}
RequestTypes == mode \in [Sides -> Modes] /\ late \subseteq [side : Sides, to : Modes]
CountTypes == count \in [programs : Nat, episodes : Nat, signals : Nat, faults : Nat]

(* The parts are TypeOK, ... *)
LEMMA TypesJoin ==
    TypeOK <=> TypeParts /\ ThreadTypeOK /\ RequestTypes /\ CountTypes
  BY DEF TypeOK, TypeParts, ThreadTypeOK, RequestTypes, CountTypes, Items

(* ... in the next state as well. *)
LEMMA TypesJoinNext ==
    TypeParts' /\ ThreadTypeOK' /\ RequestTypes' /\ CountTypes' => TypeOK'
  BY DEF TypeOK, TypeParts, ThreadTypeOK, RequestTypes, CountTypes, Items

(* Acquisition names what it takes. *)
LEMMA AcquisitionTypes ==
    ASSUME TypeOK, StepInv, Acquisition
    PROVE  TypeOK'
<1>t. TypeParts /\ ThreadTypeOK /\ RequestTypes /\ CountTypes
  BY TypesJoin
<1>1. ASSUME Check PROVE TypeOK'
  <2>1. TypeParts'
    <3>1. UNCHANGED owned
      BY <1>1 DEF Check, Silent, owned
    <3> QED
      BY <1>t, <3>1 DEF TypeParts, GroupsTypeOK, owned, Running
  <2>2. ThreadTypeOK'
    BY <1>1, <1>t, NextStepTypes DEF Check
  <2>3. RequestTypes'
    <3>1. UNCHANGED <<mode, late>>
      BY <1>1 DEF Check, Silent, vars
    <3> QED
      BY <1>t, <3>1 DEF RequestTypes
  <2>4. CountTypes'
    <3>1. UNCHANGED count
      BY <1>1 DEF Check, Silent, vars
    <3> QED
      BY <1>t, <3>1 DEF CountTypes
  <2> QED
    BY <2>1, <2>2, <2>3, <2>4, TypesJoinNext
<1>2. ASSUME Acquire PROVE TypeOK'
  <2>1. TypeParts'
    BY <1>2, <1>t, SessionAssumption DEF Acquire, Owns, TypeParts, GroupsTypeOK
  <2>2. ThreadTypeOK'
    BY <1>2, <1>t, GotoTypes DEF Acquire, Acquiring
  <2>3. RequestTypes'
    <3>1. UNCHANGED <<mode, late>>
      BY <1>2 DEF Acquire, Owns, vars
    <3> QED
      BY <1>t, <3>1 DEF RequestTypes
  <2>4. CountTypes'
    <3>1. UNCHANGED count
      BY <1>2 DEF Acquire, Owns, vars
    <3> QED
      BY <1>t, <3>1 DEF CountTypes
  <2> QED
    BY <2>1, <2>2, <2>3, <2>4, TypesJoinNext
<1>3. ASSUME RaiseUsbfs PROVE TypeOK'
  <2>1. TypeParts'
    BY <1>3, <1>t, SessionAssumption DEF RaiseUsbfs, Owns, TypeParts, GroupsTypeOK
  <2>2. ThreadTypeOK'
    BY <1>3, <1>t, GotoTypes DEF RaiseUsbfs, Acquiring
  <2>3. RequestTypes'
    <3>1. UNCHANGED <<mode, late>>
      BY <1>3 DEF RaiseUsbfs, Owns, vars
    <3> QED
      BY <1>t, <3>1 DEF RequestTypes
  <2>4. CountTypes'
    <3>1. UNCHANGED count
      BY <1>3 DEF RaiseUsbfs, Owns, vars
    <3> QED
      BY <1>t, <3>1 DEF CountTypes
  <2> QED
    BY <2>1, <2>2, <2>3, <2>4, TypesJoinNext
<1>4. ASSUME KeepUsbfs PROVE TypeOK'
  <2>1. TypeParts'
    <3>1. UNCHANGED owned
      BY <1>4 DEF KeepUsbfs, Silent, owned
    <3> QED
      BY <1>t, <3>1 DEF TypeParts, GroupsTypeOK, owned, Running
  <2>2. ThreadTypeOK'
    BY <1>4, <1>t, NextStepTypes DEF KeepUsbfs
  <2>3. RequestTypes'
    <3>1. UNCHANGED <<mode, late>>
      BY <1>4 DEF KeepUsbfs, Silent, vars
    <3> QED
      BY <1>t, <3>1 DEF RequestTypes
  <2>4. CountTypes'
    <3>1. UNCHANGED count
      BY <1>4 DEF KeepUsbfs, Silent, vars
    <3> QED
      BY <1>t, <3>1 DEF CountTypes
  <2> QED
    BY <2>1, <2>2, <2>3, <2>4, TypesJoinNext
<1>5. ASSUME Start PROVE TypeOK'
  <2>1. TypeParts'
    BY <1>5, <1>t, SessionAssumption DEF Start, Owns, TypeParts, GroupsTypeOK, Popen, Members
  <2>2. ThreadTypeOK'
    BY <1>5, <1>t, GotoTypes DEF Start, Acquiring
  <2>3. RequestTypes'
    <3>1. UNCHANGED <<mode, late>>
      BY <1>5 DEF Start, Owns, vars
    <3> QED
      BY <1>t, <3>1 DEF RequestTypes
  <2>4. CountTypes'
    <3>1. UNCHANGED count
      BY <1>5 DEF Start, Owns, vars
    <3> QED
      BY <1>t, <3>1 DEF CountTypes
  <2> QED
    BY <2>1, <2>2, <2>3, <2>4, TypesJoinNext
<1>6. ASSUME EnterTry PROVE TypeOK'
  <2>1. TypeParts'
    <3>1. UNCHANGED owned
      BY <1>6 DEF EnterTry, Silent, owned
    <3> QED
      BY <1>t, <3>1 DEF TypeParts, GroupsTypeOK, owned, Running
  <2>2. ThreadTypeOK'
    BY <1>6, <1>t, GotoTypes DEF EnterTry, Acquiring
  <2>3. RequestTypes'
    <3>1. UNCHANGED <<mode, late>>
      BY <1>6 DEF EnterTry, Silent, vars
    <3> QED
      BY <1>t, <3>1 DEF RequestTypes
  <2>4. CountTypes'
    <3>1. UNCHANGED count
      BY <1>6 DEF EnterTry, Silent, vars
    <3> QED
      BY <1>t, <3>1 DEF CountTypes
  <2> QED
    BY <2>1, <2>2, <2>3, <2>4, TypesJoinNext
<1>7. ASSUME Confirm PROVE TypeOK'
  <2>1. TypeParts'
    <3>1. UNCHANGED owned
      BY <1>7 DEF Confirm, Silent, owned
    <3> QED
      BY <1>t, <3>1 DEF TypeParts, GroupsTypeOK, owned, Running
  <2>2. ThreadTypeOK'
    BY <1>7, <1>t, GotoTypes DEF Confirm, Acquiring
  <2>3. RequestTypes'
    <3>1. UNCHANGED <<mode, late>>
      BY <1>7 DEF Confirm, Silent, vars
    <3> QED
      BY <1>t, <3>1 DEF RequestTypes
  <2>4. CountTypes'
    <3>1. UNCHANGED count
      BY <1>7 DEF Confirm, Silent, vars
    <3> QED
      BY <1>t, <3>1 DEF CountTypes
  <2> QED
    BY <2>1, <2>2, <2>3, <2>4, TypesJoinNext
<1>8. ASSUME OpenReadiness PROVE TypeOK'
  <2>1. TypeParts'
    BY <1>8, <1>t, SessionAssumption DEF OpenReadiness, Owns, TypeParts, GroupsTypeOK
  <2>2. ThreadTypeOK'
    BY <1>8, <1>t, GotoTypes DEF OpenReadiness, Acquiring
  <2>3. RequestTypes'
    <3>1. UNCHANGED <<mode, late>>
      BY <1>8 DEF OpenReadiness, Owns, vars
    <3> QED
      BY <1>t, <3>1 DEF RequestTypes
  <2>4. CountTypes'
    <3>1. UNCHANGED count
      BY <1>8 DEF OpenReadiness, Owns, vars
    <3> QED
      BY <1>t, <3>1 DEF CountTypes
  <2> QED
    BY <2>1, <2>2, <2>3, <2>4, TypesJoinNext
<1>9. ASSUME OpenContext PROVE TypeOK'
  <2>1. TypeParts'
    BY <1>9, <1>t, SessionAssumption DEF OpenContext, Owns, TypeParts, GroupsTypeOK
  <2>2. ThreadTypeOK'
    BY <1>9, <1>t, GotoTypes DEF OpenContext, Acquiring
  <2>3. RequestTypes'
    <3>1. UNCHANGED <<mode, late>>
      BY <1>9 DEF OpenContext, Owns, vars
    <3> QED
      BY <1>t, <3>1 DEF RequestTypes
  <2>4. CountTypes'
    <3>1. UNCHANGED count
      BY <1>9 DEF OpenContext, Owns, vars
    <3> QED
      BY <1>t, <3>1 DEF CountTypes
  <2> QED
    BY <2>1, <2>2, <2>3, <2>4, TypesJoinNext
<1>10. ASSUME Keep PROVE TypeOK'
  <2>1. TypeParts'
    <3>1. interfaces' \in Seq(ToSet(Arms))
      BY <1>10, <1>t DEF Keep, TypeParts
    <3>2. processes' \in Seq(Procs)
      BY <1>10, <1>t DEF Keep, TypeParts
    <3>3. usbfs' \in [raised : BOOLEAN, noted : BOOLEAN]
      BY <1>10, <1>t DEF Keep, TypeParts
    <3>4. flags' \subseteq Contexts \cup {"system"} /\ UNCHANGED <<lock, context, group>>
      BY <1>10, <1>t DEF Keep, TypeParts
    <3> QED
      BY <1>t, <3>1, <3>2, <3>3, <3>4 DEF TypeParts, GroupsTypeOK
  <2>2. ThreadTypeOK'
    BY <1>10, <1>t, NextStepTypes DEF Keep
  <2>3. RequestTypes'
    <3>1. UNCHANGED <<mode, late>>
      BY <1>10 DEF Keep, vars
    <3> QED
      BY <1>t, <3>1 DEF RequestTypes
  <2>4. CountTypes'
    <3>1. UNCHANGED count
      BY <1>10 DEF Keep, vars
    <3> QED
      BY <1>t, <3>1 DEF CountTypes
  <2> QED
    BY <2>1, <2>2, <2>3, <2>4, TypesJoinNext
<1>11. ASSUME SpinReadiness PROVE TypeOK'
  <2>1. TypeParts'
    BY <1>11, <1>t, SessionAssumption DEF SpinReadiness, Owns, TypeParts, GroupsTypeOK
  <2>2. ThreadTypeOK'
    BY <1>11, <1>t, GotoTypes DEF SpinReadiness, Acquiring
  <2>3. RequestTypes'
    <3>1. UNCHANGED <<mode, late>>
      BY <1>11 DEF SpinReadiness, Owns, vars
    <3> QED
      BY <1>t, <3>1 DEF RequestTypes
  <2>4. CountTypes'
    <3>1. UNCHANGED count
      BY <1>11 DEF SpinReadiness, Owns, vars
    <3> QED
      BY <1>t, <3>1 DEF CountTypes
  <2> QED
    BY <2>1, <2>2, <2>3, <2>4, TypesJoinNext
<1> QED
  BY <1>1, <1>2, <1>3, <1>4, <1>5, <1>6, <1>7, <1>8, <1>9, <1>10, <1>11 DEF Acquisition

(* A call of start that raises. *)
LEMMA StartFailsTypes ==
    ASSUME TypeOK, StepInv, StartFails
    PROVE  TypeOK'
<1>t. TypeParts /\ ThreadTypeOK /\ RequestTypes /\ CountTypes
  BY TypesJoin
<1>1. ASSUME StartFails PROVE TypeOK'
  <2>1. TypeParts'
    <3>1. UNCHANGED owned
      BY <1>1, RaiseTypes DEF StartFails
    <3> QED
      BY <1>t, <3>1 DEF TypeParts, GroupsTypeOK, owned, Running
  <2>2. ThreadTypeOK'
    BY <1>1, <1>t, RaiseTypes DEF StartFails
  <2>3. RequestTypes'
    <3>1. UNCHANGED <<mode, late>>
      BY <1>1 DEF StartFails, vars
    <3> QED
      BY <1>t, <3>1 DEF RequestTypes
  <2>4. CountTypes'
    BY <1>1, <1>t, FaultTypes DEF StartFails, CountTypes
  <2> QED
    BY <2>1, <2>2, <2>3, <2>4, TypesJoinNext
<1> QED
  BY <1>1

(* Episodes. *)
LEMMA CycleTypes ==
    ASSUME TypeOK, Cycle
    PROVE  TypeOK'
<1>t. TypeParts /\ ThreadTypeOK /\ RequestTypes /\ CountTypes
  BY TypesJoin
<1>m. Target \in Modes
  BY DEF Target, Modes
<1>1. ASSUME Activate PROVE TypeOK'
  <2>1. TypeParts'
    <3>1. UNCHANGED owned
      BY <1>1 DEF Activate, owned
    <3> QED
      BY <1>t, <3>1 DEF TypeParts, GroupsTypeOK, owned, Running
  <2>2. ThreadTypeOK'
    BY <1>1, <1>t, GotoTypes DEF Activate, Cycling
  <2>3. RequestTypes'
    <3>1. UNCHANGED <<mode, late>>
      BY <1>1 DEF Activate, vars
    <3> QED
      BY <1>t, <3>1 DEF RequestTypes
  <2>4. CountTypes'
    BY <1>1, <1>t DEF Activate, CountTypes
  <2> QED
    BY <2>1, <2>2, <2>3, <2>4, TypesJoinNext
<1>2. ASSUME Prepare PROVE TypeOK'
  <2>1. TypeParts'
    <3>1. UNCHANGED owned
      BY <1>2 DEF Prepare, Cleanup
    <3> QED
      BY <1>t, <3>1 DEF TypeParts, GroupsTypeOK, owned, Running
  <2>2. ThreadTypeOK'
    <3>1. <<>> \in Seq(Items)
      OBVIOUS
    <3> QED
      BY <1>2, <3>1, CleanupTypes, GotoTypes DEF Prepare, Cycling
  <2>3. RequestTypes'
    <3>1. UNCHANGED <<mode, late>>
      BY <1>2 DEF Prepare, vars
    <3> QED
      BY <1>t, <3>1 DEF RequestTypes
  <2>4. CountTypes'
    BY <1>2, <1>t, FaultTypes DEF Prepare, CountTypes
  <2> QED
    BY <2>1, <2>2, <2>3, <2>4, TypesJoinNext
<1>3. ASSUME CallReturns PROVE TypeOK'
  <2>1. TypeParts'
    <3>1. UNCHANGED owned
      BY <1>3 DEF CallReturns, Cleanup
    <3> QED
      BY <1>t, <3>1 DEF TypeParts, GroupsTypeOK, owned, Running
  <2>2. ThreadTypeOK'
    <3>1. <<>> \in Seq(Items)
      OBVIOUS
    <3> QED
      BY <1>3, <1>t, <3>1, CleanupTypes, GotoTypes DEF CallReturns, After, Acquiring, Cycling
  <2>3. RequestTypes'
    BY <1>3, <1>t, <1>m DEF CallReturns, CallOk, RequestTypes
  <2>4. CountTypes'
    <3>1. UNCHANGED count
      BY <1>3 DEF CallReturns, vars
    <3> QED
      BY <1>t, <3>1 DEF CountTypes
  <2> QED
    BY <2>1, <2>2, <2>3, <2>4, TypesJoinNext
<1>4. ASSUME CallFails PROVE TypeOK'
  <2>1. TypeParts'
    <3>1. UNCHANGED owned
      BY <1>4 DEF CallFails, Cleanup
    <3> QED
      BY <1>t, <3>1 DEF TypeParts, GroupsTypeOK, owned, Running
  <2>2. ThreadTypeOK'
    <3>1. <<>> \in Seq(Items)
      OBVIOUS
    <3> QED
      BY <1>4, <1>t, <3>1, CleanupTypes, GotoTypes DEF CallFails, Acquiring, Cycling
  <2>3. RequestTypes'
    BY <1>4, <1>t, <1>m, GiveUpTypes DEF CallFails, RequestTypes
  <2>4. CountTypes'
    BY <1>4, <1>t, FaultTypes DEF CallFails, CountTypes
  <2> QED
    BY <2>1, <2>2, <2>3, <2>4, TypesJoinNext
<1>5. ASSUME Converge PROVE TypeOK'
  <2>1. TypeParts'
    <3>1. UNCHANGED owned
      BY <1>5 DEF Converge, Cleanup
    <3> QED
      BY <1>t, <3>1 DEF TypeParts, GroupsTypeOK, owned, Running
  <2>2. ThreadTypeOK'
    <3>1. <<>> \in Seq(Items)
      OBVIOUS
    <3> QED
      BY <1>5, <1>t, <3>1, CleanupTypes, GotoTypes DEF Converge, Acquiring, Cycling
  <2>3. RequestTypes'
    <3>1. UNCHANGED <<mode, late>>
      BY <1>5 DEF Converge, vars
    <3> QED
      BY <1>t, <3>1 DEF RequestTypes
  <2>4. CountTypes'
    BY <1>5, <1>t, FaultTypes DEF Converge, CountTypes
  <2> QED
    BY <2>1, <2>2, <2>3, <2>4, TypesJoinNext
<1>6. ASSUME EndRecording PROVE TypeOK'
  <2>1. TypeParts'
    <3>1. UNCHANGED owned
      BY <1>6 DEF EndRecording, Silent, owned
    <3> QED
      BY <1>t, <3>1 DEF TypeParts, GroupsTypeOK, owned, Running
  <2>2. ThreadTypeOK'
    BY <1>6, <1>t, GotoTypes DEF EndRecording, Cycling
  <2>3. RequestTypes'
    <3>1. UNCHANGED <<mode, late>>
      BY <1>6 DEF EndRecording, Silent, vars
    <3> QED
      BY <1>t, <3>1 DEF RequestTypes
  <2>4. CountTypes'
    <3>1. UNCHANGED count
      BY <1>6 DEF EndRecording, Silent, vars
    <3> QED
      BY <1>t, <3>1 DEF CountTypes
  <2> QED
    BY <2>1, <2>2, <2>3, <2>4, TypesJoinNext
<1>7. ASSUME Leave PROVE TypeOK'
  <2>1. TypeParts'
    <3>1. UNCHANGED owned
      BY <1>7 DEF Leave, Cleanup
    <3> QED
      BY <1>t, <3>1 DEF TypeParts, GroupsTypeOK, owned, Running
  <2>2. ThreadTypeOK'
    <3>1. <<>> \in Seq(Items)
      OBVIOUS
    <3> QED
      BY <1>7, <1>t, <3>1, CleanupTypes, GotoTypes DEF Leave, Acquiring, Cycling
  <2>3. RequestTypes'
    <3>1. UNCHANGED <<mode, late>>
      BY <1>7 DEF Leave, vars
    <3> QED
      BY <1>t, <3>1 DEF RequestTypes
  <2>4. CountTypes'
    <3>1. UNCHANGED count
      BY <1>7 DEF Leave, vars
    <3> QED
      BY <1>t, <3>1 DEF CountTypes
  <2> QED
    BY <2>1, <2>2, <2>3, <2>4, TypesJoinNext
<1> QED
  BY <1>1, <1>2, <1>3, <1>4, <1>5, <1>6, <1>7 DEF Cycle

(* The cleanup. *)
LEMMA CleanupStepTypes ==
    ASSUME TypeOK, CleanupStep
    PROVE  TypeOK'
<1>t. TypeParts /\ ThreadTypeOK /\ RequestTypes /\ CountTypes
  BY TypesJoin
<1>1. ASSUME CloseContext PROVE TypeOK'
  <2>1. TypeParts'
    BY <1>1, <1>t DEF CloseContext, Owns, Stopping, TypeParts, GroupsTypeOK
  <2>2. ThreadTypeOK'
    BY <1>1, <1>t, PopTypes DEF CloseContext, Stopping
  <2>3. RequestTypes'
    <3>1. UNCHANGED <<mode, late>>
      BY <1>1 DEF CloseContext, Owns, vars
    <3> QED
      BY <1>t, <3>1 DEF RequestTypes
  <2>4. CountTypes'
    <3>1. UNCHANGED count
      BY <1>1 DEF CloseContext, Owns, vars
    <3> QED
      BY <1>t, <3>1 DEF CountTypes
  <2> QED
    BY <2>1, <2>2, <2>3, <2>4, TypesJoinNext
<1>2. ASSUME CloseTimesOut PROVE TypeOK'
  <2>1. TypeParts'
    BY <1>2, <1>t DEF CloseTimesOut, Stopping, TypeParts, GroupsTypeOK
  <2>2. ThreadTypeOK'
    BY <1>2, <1>t, PopTypes DEF CloseTimesOut, Stopping
  <2>3. RequestTypes'
    <3>1. UNCHANGED <<mode, late>>
      BY <1>2 DEF CloseTimesOut, Spare, vars
    <3> QED
      BY <1>t, <3>1 DEF RequestTypes
  <2>4. CountTypes'
    BY <1>2, <1>t, FaultTypes DEF CloseTimesOut, CountTypes
  <2> QED
    BY <2>1, <2>2, <2>3, <2>4, TypesJoinNext
<1>3. ASSUME SendSignal PROVE TypeOK'
  <2>1. TypeParts'
    BY <1>3, <1>t DEF SendSignal, SignalGroup, Stopping, TypeParts, GroupsTypeOK, Members
  <2>2. ThreadTypeOK'
    BY <1>3, <1>t DEF SendSignal, ThreadTypeOK
  <2>3. RequestTypes'
    <3>1. UNCHANGED <<mode, late>>
      BY <1>3 DEF SendSignal, Spare, vars
    <3> QED
      BY <1>t, <3>1 DEF RequestTypes
  <2>4. CountTypes'
    BY <1>3, <1>t, FaultTypes DEF SendSignal, CountTypes
  <2> QED
    BY <2>1, <2>2, <2>3, <2>4, TypesJoinNext
<1>4. ASSUME Reaped PROVE TypeOK'
  <2>1. TypeParts'
    BY <1>4, <1>t, ForgetTypes DEF Reaped, Stopping, TypeParts, GroupsTypeOK
  <2>2. ThreadTypeOK'
    BY <1>4, <1>t, PopTypes DEF Reaped, Stopping
  <2>3. RequestTypes'
    <3>1. UNCHANGED <<mode, late>>
      BY <1>4 DEF Reaped, Spare, vars
    <3> QED
      BY <1>t, <3>1 DEF RequestTypes
  <2>4. CountTypes'
    <3>1. UNCHANGED count
      BY <1>4 DEF Reaped, Spare, vars
    <3> QED
      BY <1>t, <3>1 DEF CountTypes
  <2> QED
    BY <2>1, <2>2, <2>3, <2>4, TypesJoinNext
<1>5. ASSUME RestoreUsbfs PROVE TypeOK'
  <2>1. TypeParts'
    <3>1. usbfs' \in [raised : BOOLEAN, noted : BOOLEAN]
      <4>1. usbfs' \in {usbfs, [raised |-> FALSE, noted |-> FALSE]}
        BY <1>5 DEF RestoreUsbfs
      <4>2. [raised |-> FALSE, noted |-> FALSE] \in [raised : BOOLEAN, noted : BOOLEAN]
        OBVIOUS
      <4> QED
        BY <1>t, <4>1, <4>2 DEF TypeParts
    <3>2. UNCHANGED <<lock, interfaces, processes, context, flags, group>>
      BY <1>5 DEF RestoreUsbfs
    <3> QED
      BY <1>t, <3>1, <3>2 DEF TypeParts, GroupsTypeOK
  <2>2. ThreadTypeOK'
    BY <1>5, <1>t, PopTypes DEF RestoreUsbfs, Stopping
  <2>3. RequestTypes'
    <3>1. UNCHANGED <<mode, late>>
      BY <1>5 DEF RestoreUsbfs, Spare, vars
    <3> QED
      BY <1>t, <3>1 DEF RequestTypes
  <2>4. CountTypes'
    BY <1>5, <1>t, FaultTypes DEF RestoreUsbfs, CountTypes
  <2> QED
    BY <2>1, <2>2, <2>3, <2>4, TypesJoinNext
<1>6. ASSUME ReleaseLock PROVE TypeOK'
  <2>1. TypeParts'
    BY <1>6, <1>t DEF ReleaseLock, TypeParts, GroupsTypeOK
  <2>2. ThreadTypeOK'
    BY <1>6, <1>t, PopTypes DEF ReleaseLock, Stopping
  <2>3. RequestTypes'
    <3>1. UNCHANGED <<mode, late>>
      BY <1>6 DEF ReleaseLock, Spare, vars
    <3> QED
      BY <1>t, <3>1 DEF RequestTypes
  <2>4. CountTypes'
    <3>1. UNCHANGED count
      BY <1>6 DEF ReleaseLock, Spare, vars
    <3> QED
      BY <1>t, <3>1 DEF CountTypes
  <2> QED
    BY <2>1, <2>2, <2>3, <2>4, TypesJoinNext
<1>7. ASSUME StageDone PROVE TypeOK'
  <2>1. TypeParts'
    <3>1. UNCHANGED owned
      BY <1>7 DEF StageDone, owned
    <3> QED
      BY <1>t, <3>1 DEF TypeParts, GroupsTypeOK, owned, Running
  <2>2. ThreadTypeOK'
    BY <1>7, <1>t, SystemStopShape, SessionStopShape DEF StageDone, ThreadTypeOK
  <2>3. RequestTypes'
    <3>1. UNCHANGED <<mode, late>>
      BY <1>7 DEF StageDone, vars
    <3> QED
      BY <1>t, <3>1 DEF RequestTypes
  <2>4. CountTypes'
    <3>1. UNCHANGED count
      BY <1>7 DEF StageDone, vars
    <3> QED
      BY <1>t, <3>1 DEF CountTypes
  <2> QED
    BY <2>1, <2>2, <2>3, <2>4, TypesJoinNext
<1> QED
  BY <1>1, <1>2, <1>3, <1>4, <1>5, <1>6, <1>7 DEF CleanupStep

(* The environment, but for signals. *)
LEMMA EnvironmentTypes ==
    ASSUME TypeOK, Launch \/ Exit \/ Crash \/ ProcessDies \/ Other \/ LateService \/ UNCHANGED vars
    PROVE  TypeOK'
<1>t. TypeParts /\ ThreadTypeOK /\ RequestTypes /\ CountTypes
  BY TypesJoin
<1>1. ASSUME Exit PROVE TypeOK'
  <2>1. TypeParts'
    <3>1. Gone
      BY <1>1 DEF Exit, Crash
    <3>2. usbfs' \in [raised : BOOLEAN, noted : BOOLEAN]
      BY <1>t, <3>1 DEF Gone, TypeParts
    <3>3. context' \in [Contexts -> {"none", "node", "up", "stuck"}] /\ flags' = {} /\ UNCHANGED group
      BY <3>1 DEF Gone
    <3>4. /\ interfaces' = <<>> /\ processes' = <<>>
          /\ lock' \in {"free", "ours", "other"}
      BY <1>t, <3>1 DEF Gone, TypeParts
    <3>5. interfaces' \in Seq(ToSet(Arms)) /\ processes' \in Seq(Procs)
      BY <3>4
    <3> QED
      BY <1>t, <3>2, <3>3, <3>4, <3>5 DEF TypeParts, GroupsTypeOK
  <2>2. ThreadTypeOK'
    <3>1. Gone
      BY <1>1 DEF Exit, Crash
    <3>2. 1 \in 1..Len(Plan)
      BY PlanPlaces
    <3> QED
      BY <1>t, <3>1, <3>2 DEF Gone, ThreadTypeOK, Signals
  <2>3. RequestTypes'
    <3>1. Gone
      BY <1>1 DEF Exit, Crash
    <3> QED
      BY <1>t, <3>1 DEF Gone, RequestTypes
  <2>4. CountTypes'
    <3>1. UNCHANGED count
      BY <1>1 DEF Exit, vars
    <3> QED
      BY <1>t, <3>1 DEF CountTypes
  <2> QED
    BY <2>1, <2>2, <2>3, <2>4, TypesJoinNext
<1>2. ASSUME Crash PROVE TypeOK'
  <2>1. TypeParts'
    <3>1. Gone
      BY <1>2 DEF Exit, Crash
    <3>2. usbfs' \in [raised : BOOLEAN, noted : BOOLEAN]
      BY <1>t, <3>1 DEF Gone, TypeParts
    <3>3. context' \in [Contexts -> {"none", "node", "up", "stuck"}] /\ flags' = {} /\ UNCHANGED group
      BY <3>1 DEF Gone
    <3>4. /\ interfaces' = <<>> /\ processes' = <<>>
          /\ lock' \in {"free", "ours", "other"}
      BY <1>t, <3>1 DEF Gone, TypeParts
    <3>5. interfaces' \in Seq(ToSet(Arms)) /\ processes' \in Seq(Procs)
      BY <3>4
    <3> QED
      BY <1>t, <3>2, <3>3, <3>4, <3>5 DEF TypeParts, GroupsTypeOK
  <2>2. ThreadTypeOK'
    <3>1. Gone
      BY <1>2 DEF Exit, Crash
    <3>2. 1 \in 1..Len(Plan)
      BY PlanPlaces
    <3> QED
      BY <1>t, <3>1, <3>2 DEF Gone, ThreadTypeOK, Signals
  <2>3. RequestTypes'
    <3>1. Gone
      BY <1>2 DEF Exit, Crash
    <3> QED
      BY <1>t, <3>1 DEF Gone, RequestTypes
  <2>4. CountTypes'
    BY <1>2, <1>t, FaultTypes DEF Crash, CountTypes
  <2> QED
    BY <2>1, <2>2, <2>3, <2>4, TypesJoinNext
<1>3. ASSUME ProcessDies PROVE TypeOK'
  <2>1. TypeParts'
    BY <1>3, <1>t DEF ProcessDies, Die, TypeParts, GroupsTypeOK, Members
  <2>2. ThreadTypeOK'
    <3>1. UNCHANGED thread
      BY <1>3 DEF ProcessDies, thread
    <3> QED
      BY <1>t, <3>1 DEF ThreadTypeOK, thread, Step
  <2>3. RequestTypes'
    <3>1. UNCHANGED <<mode, late>>
      BY <1>3 DEF ProcessDies, vars
    <3> QED
      BY <1>t, <3>1 DEF RequestTypes
  <2>4. CountTypes'
    BY <1>3, <1>t, FaultTypes DEF ProcessDies, CountTypes
  <2> QED
    BY <2>1, <2>2, <2>3, <2>4, TypesJoinNext
<1>4. ASSUME Other PROVE TypeOK'
  <2>1. TypeParts'
    BY <1>4, <1>t DEF Other, TypeParts, GroupsTypeOK
  <2>2. ThreadTypeOK'
    <3>1. UNCHANGED thread
      BY <1>4 DEF Other, thread
    <3> QED
      BY <1>t, <3>1 DEF ThreadTypeOK, thread, Step
  <2>3. RequestTypes'
    <3>1. UNCHANGED <<mode, late>>
      BY <1>4 DEF Other, vars
    <3> QED
      BY <1>t, <3>1 DEF RequestTypes
  <2>4. CountTypes'
    <3>1. UNCHANGED count
      BY <1>4 DEF Other, vars
    <3> QED
      BY <1>t, <3>1 DEF CountTypes
  <2> QED
    BY <2>1, <2>2, <2>3, <2>4, TypesJoinNext
<1>5. ASSUME LateService PROVE TypeOK'
  <2>1. TypeParts'
    <3>1. UNCHANGED owned
      BY <1>5 DEF LateService, owned
    <3> QED
      BY <1>t, <3>1 DEF TypeParts, GroupsTypeOK, owned, Running
  <2>2. ThreadTypeOK'
    <3>1. UNCHANGED thread
      BY <1>5 DEF LateService, thread
    <3> QED
      BY <1>t, <3>1 DEF ThreadTypeOK, thread, Step
  <2>3. RequestTypes'
    BY <1>5, <1>t DEF LateService, RequestTypes
  <2>4. CountTypes'
    <3>1. UNCHANGED count
      BY <1>5 DEF LateService, vars
    <3> QED
      BY <1>t, <3>1 DEF CountTypes
  <2> QED
    BY <2>1, <2>2, <2>3, <2>4, TypesJoinNext
<1>6. ASSUME Launch PROVE TypeOK'
  <2>1. TypeParts'
    <3>1. UNCHANGED owned
      BY <1>6 DEF Launch, owned
    <3> QED
      BY <1>t, <3>1 DEF TypeParts, GroupsTypeOK, owned, Running
  <2>2. ThreadTypeOK'
    <3>1. 1 \in 1..Len(Plan)
      BY PlanPlaces
    <3> QED
      BY <1>6, <1>t, <3>1 DEF Launch, ThreadTypeOK, Acquiring
  <2>3. RequestTypes'
    <3>1. UNCHANGED <<mode, late>>
      BY <1>6 DEF Launch, vars
    <3> QED
      BY <1>t, <3>1 DEF RequestTypes
  <2>4. CountTypes'
    <3>1. count' = [count EXCEPT !.programs = count.programs + 1, !.episodes = 0]
      BY <1>6 DEF Launch
    <3>2. count.programs + 1 \in Nat
      BY <1>t DEF CountTypes
    <3> QED
      BY <1>t, <3>1, <3>2 DEF CountTypes
  <2> QED
    BY <2>1, <2>2, <2>3, <2>4, TypesJoinNext
<1>7. ASSUME UNCHANGED vars PROVE TypeOK'
  <2>1. TypeParts'
    <3>1. UNCHANGED owned
      BY <1>7 DEF vars
    <3> QED
      BY <1>t, <3>1 DEF TypeParts, GroupsTypeOK, owned, Running
  <2>2. ThreadTypeOK'
    <3>1. UNCHANGED thread
      BY <1>7 DEF vars
    <3> QED
      BY <1>t, <3>1 DEF ThreadTypeOK, thread, Step
  <2>3. RequestTypes'
    <3>1. UNCHANGED <<mode, late>>
      BY <1>7 DEF vars
    <3> QED
      BY <1>t, <3>1 DEF RequestTypes
  <2>4. CountTypes'
    <3>1. UNCHANGED count
      BY <1>7 DEF vars
    <3> QED
      BY <1>t, <3>1 DEF CountTypes
  <2> QED
    BY <2>1, <2>2, <2>3, <2>4, TypesJoinNext
<1> QED
  BY <1>1, <1>2, <1>3, <1>4, <1>5, <1>6, <1>7

----------------------------------------------------------------------------
(* The lease covers every list that holds a process.                        *)

(* The invariant without its last part, which Core does not need. *)
Core == StepInv /\ LockInv /\ FlagInv /\ TodoInv

(* Where the Session is in its plan, and what the step there is.            *)
LEMMA AtPlaces ==
    ASSUME TypeOK
    PROVE  /\ at \in 1..Len(Plan) /\ at \in Nat /\ Reported \in Nat /\ Reported > 4
           /\ Len(Plan) > Reported
           /\ Step = "lock" <=> at = 3
           /\ Step = "usbfs" <=> at = 4
           /\ Step = "report" <=> at = Reported
           /\ Step \in Procs => at > 4
           /\ Step \in ToSet(Arms) <=> at \in 5..Reported - 1
           /\ Step \in Contexts => at > Reported
           /\ InSystem <=> at \in 4..Reported - 1
           /\ at # Len(Plan) => (Plan[at + 1] = "report" <=> at + 1 = Reported)
<1>1. at \in 1..Len(Plan)
  BY DEF TypeOK
<1>2. Len(Plan) = 15 + Len(Arms) /\ Len(Arms) \in Nat /\ Reported = 5 + Len(Arms)
  BY PlanPlaces DEF Reported
<1>3. /\ Step = "lock" <=> at = 3
      /\ Step = "usbfs" <=> at = 4
      /\ Step = "report" <=> at = Reported
      /\ Step \in Procs => at > 4
      /\ Step \in ToSet(Arms) <=> at \in 5..4 + Len(Arms)
      /\ Step \in Contexts => at > Reported
  BY <1>1, StepPlaces DEF Step
<1>4. at # Len(Plan) => at + 1 \in 1..Len(Plan)
  BY <1>1, <1>2
<1>5. at # Len(Plan) => (Plan[at + 1] = "report" <=> at + 1 = Reported)
  BY <1>4, StepPlaces
<1>6. Step \in ToSet(Arms) <=> at \in 5..Reported - 1
  BY <1>2, <1>3
<1>7. InSystem <=> at \in 4..Reported - 1
  BY <1>1, <1>2, <1>3, <1>6 DEF InSystem
<1> QED
  BY <1>1, <1>2, <1>3, <1>5, <1>6, <1>7

(* No process has the name of another step. *)
LEMMA NamesDiffer ==
    /\ Procs \cap (Contexts \cup {"identity", "disk", "lock", "usbfs", "report"}) = {}
    /\ ToSet(Arms) \subseteq Procs
  BY SessionAssumption DEF ToSet

(* Without processes and system the Session stops ROS contexts only. *)
LEMMA SessionStopNames ==
    ASSUME processes = <<>>, "system" \notin flags
    PROVE  ToSet(SessionStop) \cap Procs = {}
<1> DEFINE a == IF "monitor" \in flags THEN <<"monitor">> ELSE <<>>
           b == IF "home" \in flags THEN <<"home">> ELSE <<>>
           c == Reverse(processes)
           d == IF "readiness" \in flags THEN <<"readiness">> ELSE <<>>
           e == IF "system" \in flags THEN SystemStop ELSE <<>>
<1>1. a \in Seq(Contexts) /\ b \in Seq(Contexts) /\ d \in Seq(Contexts) /\ e \in Seq(Contexts)
  BY DEF Contexts
<1>2. c \in Seq(Contexts)
  <2>1. processes \in Seq(Contexts)
    OBVIOUS
  <2> QED
    BY <2>1, ReverseSet
<1>3. SessionStop = (((a \o b) \o c) \o d) \o e
  BY DEF SessionStop
<1> HIDE DEF a, b, c, d, e
<1>4. (((a \o b) \o c) \o d) \o e \in Seq(Contexts)
  <2>1. (a \o b) \o c \in Seq(Contexts)
    BY <1>1, <1>2
  <2> QED
    BY <1>1, <2>1
<1>5. ASSUME NEW s \in Seq(Contexts) PROVE ToSet(s) \subseteq Contexts
  BY DEF ToSet
<1> QED
  BY <1>3, <1>4, <1>5, NamesDiffer

(* The step is done, and whatever it made has been named. *)
LEMMA NextStepKeeps ==
    ASSUME TypeOK, Core, NextStep, pc \in {"do", "keep"}, pc = "do" => at # 3,
           UNCHANGED lock,
           flags \subseteq flags', at = Reported => "system" \in flags',
           at < Reported => "system" \notin flags',
           at <= Reported => processes' = <<>>, at <= 3 => interfaces' = <<>>
    PROVE  Core'
<1>1. /\ at \in Nat /\ at \in 1..Len(Plan) /\ Reported > 4 /\ Len(Plan) > Reported /\ Reported \in Nat
      /\ at # Len(Plan) => (Plan[at + 1] = "report" <=> at + 1 = Reported)
  BY AtPlaces
<1>2. /\ UNCHANGED <<stage, todo>> /\ stage = "none"
      /\ pc' \in {"do", "keep", "ready"}
  BY DEF NextStep, Core, StepInv
<1>3. /\ pc' = "ready" => at = Len(Plan)
      /\ pc' # "ready" => at # Len(Plan) /\ at' = at + 1
      /\ pc' = "keep" => Plan[at'] = "report"
      /\ pc' = "do" => Plan[at'] # "report"
  BY DEF NextStep
<1>4. StepInv'
  BY <1>2, <1>3 DEF StepInv, Step
<1>5. LockInv'
  <2>1. at >= 3 => lock = "ours"
    BY <1>1 DEF Core, LockInv, Acquiring
  <2>2. pc' = "keep" => at' = Reported
    BY <1>1, <1>3
  <2> QED
    BY <1>1, <1>2, <1>3, <2>1, <2>2 DEF LockInv, Acquiring, Cycling
<1>6. FlagInv'
  <2>1. at >= Reported => "system" \in flags'
    BY <1>1 DEF Core, FlagInv, Acquiring
  <2> QED
    BY <1>1, <1>2, <1>3, <2>1 DEF FlagInv, Acquiring, Cycling, Reported
<1>7. TodoInv'
  BY <1>2 DEF TodoInv
<1> QED
  BY <1>4, <1>5, <1>6, <1>7 DEF Core

(* A move within a step. *)
LEMMA MoveKeeps ==
    ASSUME TypeOK, Core, pc \in Acquiring, NEW label \in {"made", "confirm", "keep"}, Goto(label),
           UNCHANGED <<interfaces, processes, flags>>,
           StepInv', lock' = "ours"
    PROVE  Core'
<1>1. /\ pc' = label /\ UNCHANGED <<at, stage, todo>> /\ stage = "none"
  BY DEF Goto, Core, StepInv, Acquiring
<1>2. LockInv'
  BY <1>1 DEF LockInv, Cycling
<1>3. FlagInv'
  BY <1>1 DEF FlagInv, Core, Acquiring, Cycling, Reported
<1>4. TodoInv'
  BY <1>1 DEF TodoInv
<1> QED
  BY <1>2, <1>3, <1>4 DEF Core

(* An exception: a cleanup begins, under the lease if it has a process to    *)
(* stop.                                                                     *)
LEMMA CleanupKeeps ==
    ASSUME TypeOK, Core, NEW undo, Cleanup(undo), pc \in Acquiring \cup Cycling,
           undo = <<>> \/ (undo = <<Step>> /\ pc = "confirm")
    PROVE  Core'
<1>1. /\ pc' = "stopping" /\ UNCHANGED <<at, owned>> /\ stage = "none"
      /\ stage' \in {"undo", "inner", "outer"} /\ Step' = Step
  BY DEF Cleanup, Core, StepInv, Acquiring, Cycling, owned, Step
<1>2. /\ stage' = "undo" => undo = <<Step>> /\ pc = "confirm" /\ todo' = <<Step>>
      /\ stage' = "inner" => undo = <<>> /\ pc \in Acquiring /\ InSystem /\ todo' = SystemStop
      /\ stage' = "outer" => /\ undo = <<>> /\ todo' = SessionStop
                             /\ pc \in Cycling \/ (pc \in Acquiring /\ ~InSystem)
  BY DEF Cleanup, Acquiring
<1>3. /\ at \in Nat /\ Reported \in Nat /\ Reported > 4
      /\ InSystem <=> at \in 4..Reported - 1
      /\ Step \in Procs => at > 4
      /\ Step \in Contexts => at > Reported
  BY AtPlaces
<1>4. LockLast(SystemStop) /\ LockLast(SessionStop)
  BY SystemStopShape, SessionStopShape
<1>5. pc \in Acquiring => IF at > Reported THEN "system" \in flags
                                           ELSE "system" \notin flags /\ processes = <<>>
  BY DEF Core, FlagInv
<1>6. StepInv'
  BY <1>1, <1>2 DEF StepInv, Core
<1>7. LockInv'
  <2>1. stage' = "undo" => lock = "ours"
    BY <1>2, <1>3 DEF Core, StepInv, LockInv, Acquiring, Contexts
  <2>2. stage' = "inner" => lock = "ours"
    BY <1>2, <1>3 DEF Core, LockInv
  <2>3. CASE stage' = "outer" /\ lock # "ours"
    <3>1. pc \in Acquiring /\ at <= 3
      BY <1>2, <1>3, <2>3 DEF Core, LockInv
    <3>2. ToSet(SessionStop) \cap Procs = {}
      BY <1>3, <1>5, <3>1, SessionStopNames
    <3> QED
      BY <1>1, <1>2, <2>3, <3>2 DEF LockInv, Acquiring, Cycling, owned
  <2>4. CASE ~(stage' = "outer" /\ lock # "ours")
    BY <1>1, <2>1, <2>2, <2>4 DEF LockInv, Acquiring, Cycling, owned
  <2> QED
    BY <2>3, <2>4
<1>8. FlagInv'
  BY <1>1, <1>2, <1>3, <1>5 DEF FlagInv, Acquiring, Cycling, owned, Reported
<1>9. TodoInv'
  BY <1>1, <1>2, <1>4 DEF TodoInv, LockLast, Step
<1> QED
  BY <1>6, <1>7, <1>8, <1>9 DEF Core

(* One item of the list is dealt with, the lease as the last. *)
LEMMA PopKeeps ==
    ASSUME TypeOK, Core, pc = "stopping", todo # <<>>, Pop,
           lock' = lock \/ Item = "lock",
           processes = <<>> => processes' = <<>>,
           flags' \subseteq flags, "system" \in flags => "system" \in flags' \/ Item = "lock"
    PROVE  Core'
<1>1. UNCHANGED <<pc, at, stage>> /\ todo' = Tail(todo) /\ Step' = Step
  BY DEF Pop, Step
<1>2. todo \in Seq(Items)
  BY DEF TypeOK, Items
<1>3. /\ Len(todo') = Len(todo) - 1
      /\ \A i \in DOMAIN todo' : i + 1 \in DOMAIN todo /\ todo'[i] = todo[i + 1]
  BY <1>1, <1>2, TailSet
<1>4. todo[1] = Item /\ 1 \in DOMAIN todo
  BY <1>2 DEF Item
<1>5. stage = "undo" => Item # "lock"
  <2>1. stage = "undo" => Item = Step
    BY <1>4 DEF Core, TodoInv
  <2> QED
    BY <2>1, NamesDiffer DEF Core, StepInv
<1>6. StepInv'
  BY <1>1 DEF Core, StepInv
<1>7. LockInv'
  <2>1. ASSUME stage \in {"inner", "outer"}, NEW p \in ToSet(todo'), p \in Procs
        PROVE  lock' = "ours"
    <3>1. PICK i \in DOMAIN todo' : p = todo'[i]
      BY <2>1 DEF ToSet
    <3>2. i + 1 \in DOMAIN todo /\ p = todo[i + 1]
      BY <1>3, <3>1
    <3>3. lock = "ours"
      BY <2>1, <3>2 DEF Core, LockInv, ToSet
    <3>4. Item # "lock"
      <4>1. Item = "lock" => Len(todo) = 1
        BY <1>4, <2>1 DEF Core, TodoInv
      <4>2. todo' \in Seq(Items) /\ Len(todo') = Len(todo) - 1
        BY <1>1, <1>2, TailSet
      <4>3. i \in 1..Len(todo')
        BY <3>1, <4>2
      <4> QED
        BY <4>1, <4>2, <4>3
    <3> QED
      BY <3>3, <3>4
  <2> QED
    BY <1>1, <1>5, <2>1 DEF Core, LockInv, Acquiring, Cycling
<1>8. FlagInv'
  <2>1. stage = "undo" => IF at > Reported THEN "system" \in flags'
                                           ELSE "system" \notin flags' /\ processes' = <<>>
    BY <1>5 DEF Core, FlagInv
  <2>2. stage = "inner" => "system" \notin flags' /\ processes' = <<>>
    BY DEF Core, FlagInv
  <2> QED
    BY <1>1, <2>1, <2>2 DEF FlagInv, Acquiring, Cycling, Reported
<1>9. TodoInv'
  <2>1. stage = "undo" => \A i \in DOMAIN todo' : todo'[i] = Step
    BY <1>3 DEF Core, TodoInv
  <2>2. ASSUME stage \in {"inner", "outer"}, NEW i \in DOMAIN todo', todo'[i] = "lock"
        PROVE  i = Len(todo')
    <3>1. i + 1 = Len(todo)
      BY <1>3, <2>2 DEF Core, TodoInv
    <3>2. i \in Nat /\ Len(todo) \in Nat
      BY <1>1, <1>2, <2>2, TailSet
    <3> QED
      BY <1>3, <3>1, <3>2
  <2> QED
    BY <1>1, <2>1, <2>2 DEF TodoInv
<1> QED
  BY <1>6, <1>7, <1>8, <1>9 DEF Core

(* The program is gone, and with it its lists. *)
LEMMA GoneKeeps ==
    ASSUME Gone
    PROVE  Core'
<1>1. /\ pc' = "none" /\ stage' = "none" /\ lock' # "ours" /\ interfaces' = <<>> /\ processes' = <<>>
      /\ flags' = {}
  BY DEF Gone
<1> QED
  BY <1>1 DEF Core, StepInv, LockInv, FlagInv, TodoInv, Acquiring, Cycling

(* The part of Core that a change of the environment does not touch. *)
LEMMA ShrinkKeeps ==
    ASSUME TypeOK, Core, UNCHANGED <<interfaces, processes, flags, pc, at, stage, todo>>,
           lock' = lock \/ (pc \in {"none", "ended"} /\ lock' # "ours")
                        \/ (pc = "do" /\ at = 1 /\ lock # "ours")
    PROVE  Core'
<1>1. Step' = Step
  BY DEF Step
<1>2. StepInv' /\ FlagInv' /\ TodoInv'
  BY <1>1 DEF Core, StepInv, FlagInv, TodoInv, Reported
<1>3. LockInv'
  BY DEF Core, LockInv, StepInv, Acquiring, Cycling
<1> QED
  BY <1>2, <1>3 DEF Core

(* A step between Episodes keeps what the Session holds. *)
LEMMA CyclingKeeps ==
    ASSUME TypeOK, Core, pc \in Cycling, NEW label \in Cycling, Goto(label), UNCHANGED owned
    PROVE  Core'
<1>1. /\ pc' = label /\ UNCHANGED <<at, stage, todo>> /\ stage = "none" /\ Step' = Step
  BY DEF Goto, Core, StepInv, Cycling, Step
<1> QED
  BY <1>1 DEF Core, StepInv, FlagInv, TodoInv, LockInv, owned, Acquiring, Cycling, Reported

(* What a step of start was making is stopped by its own handler. *)
LEMMA RaiseKeeps ==
    ASSUME TypeOK, Core, Raise, pc \in Acquiring
    PROVE  Core'
<1> DEFINE undo == IF pc = "confirm" /\ (Step \in Contexts \/ Running(Step))
                     THEN <<Step>> ELSE <<>>
<1>1. Cleanup(undo)
  BY DEF Raise
<1>2. undo = <<>> \/ (undo = <<Step>> /\ pc = "confirm")
  OBVIOUS
<1> HIDE DEF undo
<1> QED
  BY <1>1, <1>2, CleanupKeeps

(* A request or a check that raises among the Episodes. *)
LEMMA LeaveKeeps ==
    ASSUME TypeOK, Core, pc \in Cycling, Cleanup(<<>>)
    PROVE  Core'
  BY CleanupKeeps

(* Every step of start() keeps the invariant, the failing ones too. *)
LEMMA AcquisitionKeeps ==
    ASSUME TypeOK, Core, Acquisition
    PROVE  Core'
<1>p. /\ at \in Nat /\ Reported \in Nat /\ Reported > 4
      /\ Step = "lock" <=> at = 3
      /\ Step = "usbfs" <=> at = 4
      /\ Step = "report" <=> at = Reported
      /\ Step \in Procs => at > 4
      /\ Step \in ToSet(Arms) <=> at \in 5..Reported - 1
      /\ Step \in Contexts => at > Reported
  BY AtPlaces
<1>c. StepInv /\ LockInv /\ FlagInv
  BY DEF Core
<1>q. pc \in Acquiring => /\ at > Reported \/ ("system" \notin flags /\ processes = <<>>)
                          /\ at > 4 \/ interfaces = <<>>
                          /\ at > 3 \/ pc = "keep" => lock = "ours"
  BY <1>c, <1>p DEF FlagInv, LockInv
<1>1. ASSUME Check PROVE Core'
  <2>1. /\ pc = "do" /\ NextStep /\ UNCHANGED owned
        /\ Step \in {"identity", "disk"} \cup Waits
    BY <1>1 DEF Check, Silent, DeviceCheck, DiskCheck, TelemetryWait, MonitorWait, PreCheck, Waits
  <2>2. at # 3 /\ at # Reported
    BY <1>p, <2>1 DEF Waits
  <2>3. UNCHANGED <<lock, flags, interfaces, processes>>
    BY <2>1 DEF owned
  <2> QED
    BY <1>p, <1>q, <2>1, <2>2, <2>3, NextStepKeeps DEF Acquiring
<1>2. ASSUME Acquire PROVE Core'
  <2>1. /\ pc = "do" /\ Goto("keep") /\ lock' = "ours" /\ Step = "lock"
        /\ UNCHANGED <<interfaces, processes, flags>>
    BY <1>2 DEF Acquire, Owns
  <2>2. StepInv'
    BY <1>c, <2>1 DEF StepInv, Goto, Step
  <2> QED
    BY <2>1, <2>2, MoveKeeps DEF Acquiring
<1>3. ASSUME RaiseUsbfs PROVE Core'
  <2>1. /\ pc = "do" /\ Goto("keep") /\ lock' = lock /\ Step = "usbfs"
        /\ UNCHANGED <<interfaces, processes, flags>>
    BY <1>3 DEF RaiseUsbfs, Owns
  <2>2. StepInv' /\ lock' = "ours"
    BY <1>c, <1>p, <1>q, <2>1 DEF StepInv, Goto, Step, Acquiring
  <2> QED
    BY <2>1, <2>2, MoveKeeps DEF Acquiring
<1>4. ASSUME KeepUsbfs PROVE Core'
  <2>1. /\ pc = "do" /\ NextStep /\ UNCHANGED owned /\ Step = "usbfs"
    BY <1>4 DEF KeepUsbfs, Silent
  <2>2. at # 3 /\ at # Reported
    BY <1>p, <2>1
  <2>3. UNCHANGED <<lock, flags, interfaces, processes>>
    BY <2>1 DEF owned
  <2> QED
    BY <1>p, <1>q, <2>1, <2>2, <2>3, NextStepKeeps DEF Acquiring
<1>5. ASSUME Start PROVE Core'
  <2>1. /\ pc = "do" /\ Goto("made") /\ lock' = lock /\ Step \in Procs
        /\ UNCHANGED <<interfaces, processes, flags>>
    BY <1>5 DEF Start, Owns
  <2>2. StepInv' /\ lock' = "ours"
    BY <1>c, <1>p, <1>q, <2>1 DEF StepInv, Goto, Step, Acquiring
  <2> QED
    BY <2>1, <2>2, MoveKeeps DEF Acquiring
<1>6. ASSUME EnterTry PROVE Core'
  <2>1. /\ pc = "made" /\ Goto("confirm") /\ UNCHANGED owned /\ Step \in Procs
    BY <1>6 DEF EnterTry, Silent
  <2>2. StepInv' /\ lock' = "ours"
    BY <1>c, <1>p, <1>q, <2>1 DEF StepInv, Goto, Step, Acquiring, owned
  <2>3. UNCHANGED <<interfaces, processes, flags>>
    BY <2>1 DEF owned
  <2> QED
    BY <2>1, <2>2, <2>3, MoveKeeps DEF Acquiring
<1>7. ASSUME Confirm PROVE Core'
  <2>1. /\ pc = "confirm" /\ Goto("keep") /\ UNCHANGED owned
    BY <1>7 DEF Confirm, Silent
  <2>2. Step \in Procs \cup {"monitor", "home"}
    BY <1>c, <2>1 DEF StepInv
  <2>3. StepInv' /\ lock' = "ours"
    BY <1>c, <1>p, <1>q, <2>1, <2>2 DEF StepInv, Goto, Step, Acquiring, owned, Contexts
  <2>4. UNCHANGED <<interfaces, processes, flags>>
    BY <2>1 DEF owned
  <2> QED
    BY <2>1, <2>3, <2>4, MoveKeeps DEF Acquiring
<1>8. ASSUME OpenReadiness PROVE Core'
  <2>1. /\ pc = "do" /\ Goto("made") /\ Step \in Contexts /\ Step = "readiness"
        /\ UNCHANGED <<lock, interfaces, processes, flags>>
    BY <1>8 DEF OpenReadiness, Owns, Contexts
  <2>2. StepInv' /\ lock' = "ours"
    BY <1>c, <1>p, <1>q, <2>1 DEF StepInv, Goto, Step, Acquiring
  <2> QED
    BY <2>1, <2>2, MoveKeeps DEF Acquiring
<1>9. ASSUME OpenContext PROVE Core'
  <2>1. /\ pc = "do" /\ Goto("confirm") /\ Step \in {"monitor", "home"}
        /\ UNCHANGED <<lock, interfaces, processes, flags>>
    BY <1>9 DEF OpenContext, Owns
  <2>2. StepInv' /\ lock' = "ours"
    BY <1>c, <1>p, <1>q, <2>1 DEF StepInv, Goto, Step, Acquiring, Contexts
  <2> QED
    BY <2>1, <2>2, MoveKeeps DEF Acquiring
<1>10. ASSUME Keep PROVE Core'
  <2>1. /\ pc = "keep" /\ NextStep /\ UNCHANGED lock /\ flags \subseteq flags'
    BY <1>10 DEF Keep
  <2>2. at = Reported => "system" \in flags'
    BY <1>p, <1>10 DEF Keep
  <2>3. at < Reported => "system" \notin flags'
    <3>1. at < Reported => Step # "report" /\ "system" \notin flags
      BY <1>p, <1>q, <2>1 DEF Acquiring
    <3> QED
      BY <1>10, <3>1 DEF Keep, Contexts
  <2>4. at <= Reported => processes' = <<>>
    <3>1. at <= Reported => ~(Step \in Procs \ ToSet(Arms))
      BY <1>p, NamesDiffer
    <3>2. at <= Reported => processes = <<>>
      BY <1>p, <1>q, <2>1 DEF Acquiring
    <3> QED
      BY <1>10, <3>1, <3>2 DEF Keep
  <2>5. at <= 3 => interfaces' = <<>>
    <3>1. at <= 3 => Step \notin ToSet(Arms) /\ interfaces = <<>>
      BY <1>p, <1>q, <2>1 DEF Acquiring
    <3> QED
      BY <1>10, <3>1 DEF Keep
  <2> QED
    BY <2>1, <2>2, <2>3, <2>4, <2>5, NextStepKeeps
<1>11. ASSUME SpinReadiness PROVE Core'
  <2>1. /\ pc = "made" /\ Goto("keep") /\ Step \in Contexts
        /\ UNCHANGED <<lock, interfaces, processes, flags>>
    BY <1>11 DEF SpinReadiness, Owns, Contexts
  <2>2. StepInv' /\ lock' = "ours"
    BY <1>c, <1>p, <1>q, <2>1 DEF StepInv, Goto, Step, Acquiring
  <2> QED
    BY <2>1, <2>2, MoveKeeps DEF Acquiring
<1> QED
  BY <1>1, <1>2, <1>3, <1>4, <1>5, <1>6, <1>7, <1>8, <1>9, <1>10, <1>11 DEF Acquisition

(* Episodes keep it. *)
LEMMA CycleKeeps ==
    ASSUME TypeOK, Core, Cycle
    PROVE  Core'
<1>1. ASSUME Activate PROVE Core'
  BY <1>1, CyclingKeeps DEF Activate, Cycling
<1>2. ASSUME Prepare PROVE Core'
  <2>1. pc \in Cycling
    BY <1>2 DEF Prepare, Cycling
  <2>2. Cleanup(<<>>) \/ ((Goto("go_home") \/ Goto("recover")) /\ UNCHANGED owned)
    BY <1>2 DEF Prepare
  <2> QED
    BY <2>1, <2>2, CyclingKeeps, LeaveKeeps DEF Cycling
<1>3. ASSUME CallReturns PROVE Core'
  <2>1. pc \in Cycling /\ After \in Cycling
    BY <1>3 DEF CallReturns, Calling, Cycling, After
  <2>2. Cleanup(<<>>) \/ (Goto(After) /\ UNCHANGED owned)
    BY <1>3 DEF CallReturns
  <2> QED
    BY <2>1, <2>2, CyclingKeeps, LeaveKeeps
<1>4. ASSUME CallFails PROVE Core'
  BY <1>4, LeaveKeeps DEF CallFails, Calling, Cycling
<1>5. ASSUME Converge PROVE Core'
  <2>1. /\ pc \in Cycling
        /\ Cleanup(<<>>) \/ (Goto("settle") /\ UNCHANGED owned)
    BY <1>5 DEF Converge, Cycling
  <2> QED
    BY <2>1, CyclingKeeps, LeaveKeeps DEF Cycling
<1>6. ASSUME EndRecording PROVE Core'
  <2>1. /\ pc \in Cycling /\ UNCHANGED owned
        /\ Goto("ready") \/ Goto("regravity")
    BY <1>6 DEF EndRecording, Cycling, Silent
  <2> QED
    BY <2>1, CyclingKeeps DEF Cycling
<1>7. ASSUME Leave PROVE Core'
  BY <1>7, LeaveKeeps DEF Leave, Cycling
<1> QED
  BY <1>1, <1>2, <1>3, <1>4, <1>5, <1>6, <1>7 DEF Cycle

(* A process that is stopped is taken off the lists. *)
LEMMA ForgetKeeps ==
    ASSUME TypeOK, Core, Stopping(Procs), Forget, Pop, UNCHANGED <<lock, flags>>
    PROVE  Core'
<1>1. pc = "stopping" /\ todo # <<>>
  BY DEF Stopping
<1>2. processes = <<>> => processes' = <<>>
  BY DEF Forget, Without
<1> QED
  BY <1>1, <1>2, PopKeeps

(* Every step of the cleanup keeps it, those that fail or time out too. *)
LEMMA CleanupStepKeeps ==
    ASSUME TypeOK, Core, CleanupStep
    PROVE  Core'
<1>1. ASSUME CloseContext \/ CloseTimesOut PROVE Core'
  <2>1. /\ pc = "stopping" /\ todo # <<>> /\ Item \in Contexts /\ Pop
        /\ UNCHANGED <<lock, processes>> /\ flags' = flags \ {Item}
    BY <1>1 DEF CloseContext, CloseTimesOut, Stopping, Owns
  <2> QED
    BY <2>1, PopKeeps DEF Contexts
<1>2. ASSUME SendSignal PROVE Core'
  BY <1>2, ShrinkKeeps DEF SendSignal
<1>3. ASSUME Reaped PROVE Core'
  BY <1>3, ForgetKeeps DEF Reaped
<1>4. ASSUME RestoreUsbfs PROVE Core'
  BY <1>4, PopKeeps DEF RestoreUsbfs, Stopping
<1>5. ASSUME ReleaseLock PROVE Core'
  <2>1. /\ pc = "stopping" /\ todo # <<>> /\ Item = "lock" /\ Pop
        /\ UNCHANGED processes /\ flags' = flags \ {"system"}
    BY <1>5 DEF ReleaseLock, Stopping
  <2> QED
    BY <2>1, PopKeeps
<1>6. ASSUME StageDone PROVE Core'
  <2>1. pc = "stopping" /\ todo = <<>> /\ UNCHANGED <<at, owned>> /\ Step' = Step
    BY <1>6 DEF StageDone, Step
  <2>2. \/ /\ stage = "undo" /\ InSystem
           /\ stage' = "inner" /\ todo' = SystemStop /\ pc' = pc
        \/ /\ stage = "inner" \/ (stage = "undo" /\ ~InSystem)
           /\ stage' = "outer" /\ todo' = SessionStop /\ pc' = pc
        \/ stage = "outer" /\ stage' = "none" /\ pc' = "ended" /\ todo' = todo
    BY <1>6 DEF StageDone
  <2>3. /\ at \in Nat /\ Reported \in Nat
        /\ InSystem <=> at \in 4..Reported - 1
    BY AtPlaces
  <2>4. LockLast(SystemStop) /\ LockLast(SessionStop)
    BY SystemStopShape, SessionStopShape
  <2>5. StepInv' /\ TodoInv'
    BY <2>1, <2>2, <2>4 DEF Core, StepInv, TodoInv, LockLast
  <2>6. stage = "inner" => ToSet(SessionStop) \cap Procs = {}
    BY SessionStopNames DEF Core, FlagInv
  <2>7. LockInv'
    BY <2>1, <2>2, <2>6 DEF Core, LockInv, owned, Acquiring, Cycling
  <2>8. stage = "undo" /\ InSystem => "system" \notin flags /\ processes = <<>>
    BY <2>3 DEF Core, FlagInv
  <2>9. FlagInv'
    BY <2>1, <2>2, <2>8 DEF FlagInv, Acquiring, Cycling, owned
  <2> QED
    BY <2>5, <2>7, <2>9 DEF Core
<1> QED
  BY <1>1, <1>2, <1>3, <1>4, <1>5, <1>6 DEF CleanupStep

(* KeyboardInterrupt, wherever the thread is. *)
LEMMA InterruptKeeps ==
    ASSUME TypeOK, Core, Interrupt
    PROVE  Core'
<1>1. CASE pc \in Acquiring /\ Raise
  BY <1>1, RaiseKeeps
<1>2. CASE (Calling \/ pc \in {"ready", "prepare", "converge"}) /\ Cleanup(<<>>)
  BY <1>2, LeaveKeeps DEF Calling, Cycling
<1>3. CASE pc = "recording" /\ Goto("regravity") /\ UNCHANGED owned
  BY <1>3, CyclingKeeps DEF Cycling
<1>4. CASE Stopping(Procs) /\ Forget /\ Pop /\ UNCHANGED <<lock, flags>>
  BY <1>4, ForgetKeeps
<1>5. CASE Stopping({"usbfs"}) /\ Pop /\ UNCHANGED owned
  BY <1>5, PopKeeps DEF Stopping, owned
<1>6. CASE pc = "stopping" /\ todo' = <<>> /\ UNCHANGED <<owned, pc, at, stage>>
  <2>1. Step' = Step
    BY <1>6 DEF Step
  <2>2. ToSet(<<>>) = {}
    BY DEF ToSet
  <2>3. StepInv' /\ LockInv' /\ FlagInv'
    BY <1>6, <2>1, <2>2 DEF Core, StepInv, LockInv, FlagInv, owned, Acquiring, Cycling, Reported
  <2>4. TodoInv'
    BY <1>6 DEF TodoInv
  <2> QED
    BY <2>3, <2>4 DEF Core
<1>7. Interrupt => \/ pc \in Acquiring /\ Raise
                   \/ (Calling \/ pc \in {"ready", "prepare", "converge"}) /\ Cleanup(<<>>)
                   \/ pc = "recording" /\ Goto("regravity") /\ UNCHANGED owned
                   \/ Stopping(Procs) /\ Forget /\ Pop /\ UNCHANGED <<lock, flags>>
                   \/ Stopping({"usbfs"}) /\ Pop /\ UNCHANGED owned
                   \/ pc = "stopping" /\ todo' = <<>> /\ UNCHANGED <<owned, pc, at, stage>>
  BY DEF Interrupt, Stopping
<1> QED
  BY <1>1, <1>2, <1>3, <1>4, <1>5, <1>6, <1>7

(* So does whatever happens outside of the thread. *)
LEMMA EnvironmentKeeps ==
    ASSUME TypeOK, Core,
           Launch \/ Exit \/ Crash \/ ProcessDies \/ Other \/ LateService \/ UNCHANGED vars
    PROVE  Core'
<1>1. ASSUME Exit \/ Crash PROVE Core'
  BY <1>1, GoneKeeps DEF Exit, Crash
<1>2. ASSUME ProcessDies PROVE Core'
  BY <1>2, ShrinkKeeps DEF ProcessDies, thread
<1>3. ASSUME Other PROVE Core'
  <2>1. /\ UNCHANGED <<interfaces, processes, flags, pc, at, stage, todo>>
        /\ pc \in {"none", "ended"} \/ (pc = "do" /\ at = 1)
        /\ lock # "ours" /\ lock' # "ours"
    BY <1>3 DEF Other, thread
  <2> QED
    BY <2>1, ShrinkKeeps
<1>4. ASSUME LateService \/ UNCHANGED vars PROVE Core'
  BY <1>4, ShrinkKeeps DEF LateService, vars, owned, thread
<1>5. ASSUME Launch PROVE Core'
  <2>1. pc = "none" /\ pc' = "do" /\ at' = 1 /\ UNCHANGED <<owned, stage, todo>>
    BY <1>5 DEF Launch
  <2>2. 1 \in 1..Len(Plan) /\ Reported > 4 /\ Reported \in Nat
    BY PlanPlaces DEF Reported
  <2>3. Step' # "report"
    BY <2>1, <2>2, StepPlaces DEF Step
  <2>4. StepInv' /\ LockInv' /\ TodoInv'
    BY <2>1, <2>3 DEF Core, StepInv, LockInv, TodoInv, Cycling
  <2>5. FlagInv'
    BY <2>1, <2>2 DEF Core, StepInv, FlagInv, owned, Cycling, Reported
  <2> QED
    BY <2>4, <2>5 DEF Core
<1> QED
  BY <1>1, <1>2, <1>3, <1>4, <1>5

(* As long as a process is on a list, or in the hand of a step, the program  *)
(* holds the lease.                                                          *)
LEMMA KnownUnderLease ==
    ASSUME TypeOK, Core
    PROVE  HardwareUnderLease
<1> SUFFICES ASSUME NEW p \in Known, lock # "ours" PROVE FALSE
  BY DEF HardwareUnderLease
<1>1. /\ at \in Nat /\ Reported \in Nat /\ Reported > 4 /\ (Step \in Procs => at > 4)
  BY AtPlaces
<1>2. CASE pc \in Acquiring
  <2>1. at <= 3 /\ pc # "keep"
    BY <1>1, <1>2 DEF Core, LockInv
  <2>2. interfaces = <<>> /\ processes = <<>>
    BY <1>1, <1>2, <2>1 DEF Core, FlagInv
  <2>3. Kept = {}
    BY <2>2 DEF Kept, ToSet
  <2>4. stage = "none" /\ p \in Procs
    BY <1>2 DEF Core, StepInv, Known, Acquiring
  <2> QED
    BY <1>1, <2>1, <2>3, <2>4 DEF Known
<1>3. CASE pc \notin Acquiring
  <2>1. pc \notin Cycling /\ stage # "undo"
    BY DEF Core, LockInv
  <2>2. stage \in {"inner", "outer"} /\ p \in ToSet(todo) /\ p \in Procs
    BY <1>3, <2>1 DEF Known, TypeOK
  <2> QED
    BY <2>2 DEF Core, LockInv
<1> QED
  BY <1>2, <1>3

(* KeyboardInterrupt keeps the types, too. *)
LEMMA InterruptTypes ==
    ASSUME TypeOK, StepInv, Interrupt
    PROVE  TypeOK'
<1>t. TypeParts /\ ThreadTypeOK /\ RequestTypes /\ CountTypes
  BY TypesJoin
<1>c. CountTypes'
  <2>1. count' = [count EXCEPT !.signals = count.signals + 1]
    BY DEF Interrupt
  <2>2. count.signals + 1 \in Nat
    BY <1>t DEF CountTypes
  <2> QED
    BY <1>t, <2>1, <2>2 DEF CountTypes
<1>o. ASSUME UNCHANGED owned PROVE TypeParts'
  BY <1>t, <1>o DEF TypeParts, GroupsTypeOK, owned, Running
<1>e. <<>> \in Seq(Items) /\ Target \in Modes
  BY DEF Target, Modes
<1>1. CASE pc \in Acquiring /\ Raise /\ Spare
  <2>1. UNCHANGED owned /\ ThreadTypeOK'
    BY <1>1, RaiseTypes
  <2>2. RequestTypes'
    BY <1>t, <1>1 DEF Spare, RequestTypes
  <2> QED
    BY <1>c, <1>o, <2>1, <2>2, TypesJoinNext
<1>2. CASE Calling /\ GiveUp(Target) /\ Cleanup(<<>>)
  <2>1. UNCHANGED owned /\ ThreadTypeOK'
    BY <1>2, <1>e, CleanupTypes
  <2>2. RequestTypes'
    BY <1>2, <1>e, GiveUpTypes DEF RequestTypes
  <2> QED
    BY <1>c, <1>o, <1>t, <1>2, <2>1, <2>2, TypesJoinNext
<1>3. CASE pc \in {"ready", "prepare", "converge"} /\ Cleanup(<<>>) /\ Spare
  <2>1. UNCHANGED owned /\ ThreadTypeOK'
    BY <1>3, <1>e, CleanupTypes
  <2>2. RequestTypes'
    BY <1>t, <1>3 DEF Spare, RequestTypes
  <2> QED
    BY <1>c, <1>o, <1>t, <1>3, <2>1, <2>2, TypesJoinNext
<1>4. CASE pc = "recording" /\ Goto("regravity") /\ Spare /\ UNCHANGED owned
  <2>1. ThreadTypeOK'
    BY <1>4, GotoTypes DEF Cycling
  <2>2. RequestTypes'
    BY <1>t, <1>4 DEF Spare, RequestTypes
  <2> QED
    BY <1>c, <1>o, <1>t, <1>4, <2>1, <2>2, TypesJoinNext
<1>5. CASE /\ Stopping(Procs) /\ Forget /\ Pop
           /\ Spare /\ UNCHANGED <<lock, usbfs, context, flags, group>>
  <2>1. ThreadTypeOK'
    BY <1>5, PopTypes DEF Stopping
  <2>2. TypeParts'
    BY <1>t, <1>5, ForgetTypes DEF Stopping, TypeParts, GroupsTypeOK
  <2>3. RequestTypes'
    BY <1>t, <1>5 DEF Spare, RequestTypes
  <2> QED
    BY <1>c, <2>1, <2>2, <2>3, TypesJoinNext
<1>6. CASE Stopping({"usbfs"}) /\ Pop /\ Spare /\ UNCHANGED owned
  <2>1. ThreadTypeOK'
    BY <1>6, PopTypes DEF Stopping
  <2>2. RequestTypes'
    BY <1>t, <1>6 DEF Spare, RequestTypes
  <2> QED
    BY <1>c, <1>o, <1>6, <2>1, <2>2, TypesJoinNext
<1>7. CASE /\ Stopping(Contexts \cup {"usbfs", "lock"})
           /\ todo' = <<>> /\ Spare /\ UNCHANGED <<owned, pc, at, stage, sig>>
  <2>1. ThreadTypeOK'
    BY <1>t, <1>e, <1>7 DEF ThreadTypeOK
  <2>2. RequestTypes'
    BY <1>t, <1>7 DEF Spare, RequestTypes
  <2> QED
    BY <1>c, <1>o, <1>7, <2>1, <2>2, TypesJoinNext
<1> QED
  BY <1>1, <1>2, <1>3, <1>4, <1>5, <1>6, <1>7 DEF Interrupt

----------------------------------------------------------------------------
(* A recording begins when both arms have answered, and no request is on its *)
(* way then: whoever gave one up has left the Episodes for good.             *)
LEMMA RecordingKeeps ==
    ASSUME TypeOK, StepInv, LateInv, RecordsInGravity, Next \/ UNCHANGED vars
    PROVE  LateInv' /\ RecordsInGravity'
<1>1. ASSUME pc' \in {"stopping", "ended"} PROVE LateInv' /\ RecordsInGravity'
  BY <1>1 DEF LateInv, RecordsInGravity
<1>2. ASSUME late' = {}, pc' # "recording" PROVE LateInv' /\ RecordsInGravity'
  BY <1>2 DEF LateInv, RecordsInGravity
<1>3. ASSUME UNCHANGED <<late, pc, mode>> PROVE LateInv' /\ RecordsInGravity'
  BY <1>3 DEF LateInv, RecordsInGravity
<1>4. ASSUME late' = late, pc \notin {"stopping", "ended"}, pc' # "recording"
      PROVE LateInv' /\ RecordsInGravity'
  BY <1>4 DEF LateInv, RecordsInGravity
<1>5. CASE Launch
  BY <1>4, <1>5 DEF Launch
<1>6. CASE Acquisition
  <2>1. /\ pc \in Acquiring /\ UNCHANGED late
        /\ NextStep \/ Goto("made") \/ Goto("confirm") \/ Goto("keep")
    BY <1>6 DEF Acquisition, Check, Acquire, RaiseUsbfs, KeepUsbfs, Start, EnterTry, Confirm,
         OpenReadiness, SpinReadiness, OpenContext, Keep, Silent, Owns, Acquiring
  <2> QED
    BY <1>4, <2>1 DEF Acquiring, NextStep, Goto
<1>7. CASE StartFails
  BY <1>1, <1>7 DEF StartFails, Raise, Cleanup
<1>8. CASE Cycle
  <2>1. CASE Activate
    BY <1>4, <2>1 DEF Activate, Goto
  <2>2. CASE Prepare
    <3>1. late' = late /\ pc = "prepare" /\ pc' # "recording"
      BY <2>2 DEF Prepare, Goto, Cleanup
    <3> QED
      BY <1>4, <3>1
  <2>3. CASE CallReturns
    <3>1. CASE pc' = "recording"
      <4>1. pc = "settle" /\ late' = late
        BY <2>3, <3>1 DEF CallReturns, Calling, After, Goto, Cleanup
      <4>2. mode' = [s \in Sides |-> "gravity"]
        BY <2>3, <4>1 DEF CallReturns, CallOk, Target
      <4> QED
        BY <3>1, <4>1, <4>2 DEF LateInv, RecordsInGravity
    <3>2. CASE pc' # "recording"
      BY <1>4, <2>3, <3>2 DEF CallReturns, Calling
    <3> QED
      BY <3>1, <3>2
  <2>4. CASE CallFails
    BY <1>1, <2>4 DEF CallFails, Cleanup
  <2>5. CASE Converge
    BY <1>4, <2>5 DEF Converge, Cleanup, Goto
  <2>6. CASE EndRecording
    BY <1>4, <2>6 DEF EndRecording, Silent, Goto
  <2>7. CASE Leave
    BY <1>1, <2>7 DEF Leave, Cleanup
  <2> QED
    BY <1>8, <2>1, <2>2, <2>3, <2>4, <2>5, <2>6, <2>7 DEF Cycle
<1>9. CASE CleanupStep
  <2>1. pc = "stopping" /\ (pc' = pc \/ pc' = "ended")
    BY <1>9 DEF CleanupStep, CloseContext, CloseTimesOut, SendSignal, Reaped, RestoreUsbfs,
         ReleaseLock, StageDone, Stopping, Pop
  <2> QED
    BY <1>1, <2>1
<1>10. CASE Exit \/ Crash
  BY <1>2, <1>10 DEF Exit, Crash, Gone
<1>11. CASE Interrupt
  <2>1. pc' = "stopping" \/ (late' = late /\ pc = "recording" /\ pc' = "regravity")
    BY <1>11 DEF Interrupt, Raise, Cleanup, Goto, Stopping, Pop, Spare
  <2> QED
    BY <1>1, <1>4, <2>1
<1>12. CASE ProcessDies \/ Other \/ UNCHANGED vars
  BY <1>3, <1>12 DEF ProcessDies, Other, vars, thread
<1>13. CASE LateService
  <2>1. late # {} /\ pc' = pc
    BY <1>13 DEF LateService, thread
  <2> QED
    BY <1>1, <2>1 DEF LateInv
<1> QED
  BY <1>5, <1>6, <1>7, <1>8, <1>9, <1>10, <1>11, <1>12, <1>13 DEF Next, Environment

----------------------------------------------------------------------------
(* The station starts with nothing taken. *)
LEMMA InitInvariant == Init => IInv
<1> SUFFICES ASSUME Init PROVE IInv
  OBVIOUS
<1> USE DEF Init
<1>1. 1 \in 1..Len(Plan)
  BY PlanPlaces
<1>2. TypeOK
  <2>1. interfaces \in Seq(ToSet(Arms)) /\ processes \in Seq(Procs)
        /\ todo \in Seq(Procs \cup Contexts \cup {"usbfs", "lock"})
    OBVIOUS
  <2>2. count \in [programs : Nat, episodes : Nat, signals : Nat, faults : Nat]
    OBVIOUS
  <2>3. usbfs \in [raised : BOOLEAN, noted : BOOLEAN]
    OBVIOUS
  <2>4. GroupsTypeOK
    BY DEF GroupsTypeOK, Members
  <2>5. mode \in [Sides -> Modes] /\ context \in [Contexts -> {"none", "up", "stuck"}]
    BY DEF Modes
  <2>6. sig \in 0..Len(Signals)
    BY DEF Signals
  <2> QED
    BY <1>1, <2>1, <2>2, <2>3, <2>4, <2>5, <2>6 DEF TypeOK
<1>4. StepInv /\ LockInv /\ FlagInv /\ TodoInv
  BY DEF StepInv, LockInv, FlagInv, TodoInv, Acquiring, Cycling
<1>6. LateInv /\ RecordsInGravity
  BY DEF LateInv, RecordsInGravity
<1> QED
  BY <1>2, <1>4, <1>6 DEF IInv

(* Every step keeps the invariant. *)
LEMMA NextInvariant == IInv /\ [Next]_vars => IInv'
<1> SUFFICES ASSUME IInv, Next \/ UNCHANGED vars PROVE IInv'
  OBVIOUS
<1>1. TypeOK /\ Core /\ StepInv /\ LateInv /\ RecordsInGravity
  BY DEF IInv, Core
<1>2. \/ Acquisition \/ StartFails \/ Cycle \/ CleanupStep \/ Interrupt
      \/ Launch \/ Exit \/ Crash \/ ProcessDies \/ Other \/ LateService \/ UNCHANGED vars
  BY DEF Next, Environment
<1>3. TypeOK'
  BY <1>1, <1>2, AcquisitionTypes, StartFailsTypes, CycleTypes, CleanupStepTypes,
     InterruptTypes, EnvironmentTypes
<1>4. StartFails => Core'
  BY <1>1, RaiseKeeps DEF StartFails, Acquiring
<1>5. Core'
  BY <1>1, <1>2, <1>4, AcquisitionKeeps, CycleKeeps, CleanupStepKeeps, InterruptKeeps,
     EnvironmentKeeps
<1>6. LateInv' /\ RecordsInGravity'
  BY <1>1, RecordingKeeps
<1> QED
  BY <1>3, <1>5, <1>6 DEF IInv, Core

(* IInv is an invariant of the production Session for every station, any      *)
(* number of programs and Episodes, and any number of faults and signals.     *)
THEOREM Inductive == Spec => []IInv
  BY InitInvariant, NextInvariant, PTL DEF Spec

(* Whatever process runs that the program would still stop runs under its     *)
(* lease (SystemBringup.stop, stop_all).                                      *)
THEOREM HardwareStaysUnderLease == Spec => []HardwareUnderLease
<1>1. IInv => HardwareUnderLease
  BY KnownUnderLease DEF IInv, Core
<1> QED
  BY <1>1, Inductive, PTL

(* Both arms are in gravity compensation during every recording: no late      *)
(* answer to an earlier reset moves them (ResetCoordinator._call_all).        *)
THEOREM ArmsStayInGravity == Spec => []RecordsInGravity
<1>1. IInv => RecordsInGravity
  BY DEF IInv
<1> QED
  BY <1>1, Inductive, PTL

----------------------------------------------------------------------------
(* What the program knows of passes from its lists to the cleanup.           *)

(* What was kept or is being undone is on the list of a cleanup or in the    *)
(* lists the next cleanup reads.                                             *)
LEMMA CleanupKnows ==
    ASSUME TypeOK, Core, NEW undo, Cleanup(undo), pc \in Acquiring \cup Cycling,
           undo = <<>> \/ (undo = <<Step>> /\ pc = "confirm"),
           pc \in Acquiring => at # Reported,
           NEW p \in Procs, p \in Kept \cup ToSet(undo)
    PROVE  p \in Known'
<1>1. UNCHANGED <<at, owned>> /\ stage' \in {"undo", "inner", "outer"} /\ Kept' = Kept
  BY DEF Cleanup, owned, Kept
<1>2. /\ stage' = "undo" => undo = <<Step>> /\ pc = "confirm" /\ todo' = <<Step>>
      /\ stage' = "inner" => undo = <<>> /\ pc \in Acquiring /\ InSystem /\ todo' = SystemStop
      /\ stage' = "outer" => /\ undo = <<>> /\ todo' = SessionStop
                             /\ pc \in Cycling \/ (pc \in Acquiring /\ ~InSystem)
  BY DEF Cleanup, Acquiring
<1>3. /\ at \in Nat /\ Reported \in Nat /\ Reported > 4
      /\ InSystem <=> at \in 4..Reported - 1
  BY AtPlaces
<1>4. CASE stage' = "undo"
  BY <1>1, <1>2, <1>4 DEF Known
<1>5. CASE stage' = "inner"
  <2>1. processes = <<>>
    BY <1>2, <1>3, <1>5 DEF Core, FlagInv
  <2>2. p \in ToSet(interfaces)
    BY <1>2, <1>5, <2>1 DEF Kept, ToSet
  <2>3. p \in ToSet(todo')
    BY <1>2, <1>5, <2>2, SystemStopShape
  <2> QED
    BY <1>5, <2>3 DEF Known
<1>6. CASE stage' = "outer"
  <2>1. p \in ToSet(interfaces) \cup ToSet(processes)
    BY <1>2, <1>6 DEF Kept, ToSet
  <2>2. ToSet(interfaces) = {} \/ "system" \in flags
    BY <1>2, <1>3, <1>6 DEF Core, FlagInv, ToSet
  <2>3. p \in ToSet(todo')
    BY <1>2, <1>6, <2>1, <2>2, SessionStopShape
  <2> QED
    BY <1>6, <2>3 DEF Known
<1> QED
  BY <1>1, <1>4, <1>5, <1>6

(* A step of start() hands on what it made. *)
LEMMA AcquisitionKnows ==
    ASSUME TypeOK, Core, Acquisition, NEW p \in Procs, Running(p)', p \notin Known'
    PROVE  Running(p) /\ p \notin Known
<1>1. pc \in Acquiring /\ stage = "none"
  BY DEF Acquisition, Check, Acquire, RaiseUsbfs, KeepUsbfs, Start, EnterTry, Confirm,
     OpenReadiness, SpinReadiness, OpenContext, Keep, Acquiring, Core, StepInv
<1>2. p \in Known => p \in Kept \/ (p = Step /\ pc # "do")
  BY <1>1 DEF Known
<1>3. ASSUME p \in Kept', pc' \in Acquiring \cup Cycling PROVE FALSE
  BY <1>3 DEF Known
<1>4. ASSUME p = Step', pc' \in Acquiring \ {"do"} PROVE FALSE
  BY <1>4 DEF Known
<1>5. CASE Check \/ Acquire \/ RaiseUsbfs \/ KeepUsbfs \/ OpenReadiness \/ OpenContext
  <2>1. /\ pc = "do" /\ pc' \in Acquiring \cup Cycling
        /\ UNCHANGED <<interfaces, processes, group>>
    BY <1>5 DEF Check, Acquire, RaiseUsbfs, KeepUsbfs, OpenReadiness, OpenContext, Silent, Owns,
         owned, NextStep, Goto, Acquiring, Cycling
  <2>2. Kept' = Kept /\ Running(p)
    BY <2>1 DEF Kept, Running
  <2> QED
    BY <1>2, <1>3, <2>1, <2>2
<1>6. CASE Start
  <2>1. /\ pc = "do" /\ pc' = "made" /\ at' = at /\ UNCHANGED <<interfaces, processes>>
        /\ Popen(Step)
    BY <1>6 DEF Start, Goto, Owns
  <2>2. Kept' = Kept /\ Step' = Step
    BY <2>1 DEF Kept, Step
  <2>3. p # Step
    BY <1>4, <2>1, <2>2 DEF Acquiring
  <2>4. group'[p] = group[p]
    BY <2>1, <2>3 DEF Popen, TypeOK, GroupsTypeOK
  <2> QED
    BY <1>2, <1>3, <2>1, <2>2, <2>4 DEF Running, Acquiring
<1>7. CASE EnterTry \/ Confirm \/ SpinReadiness
  <2>1. /\ pc' \in {"confirm", "keep"} /\ at' = at /\ UNCHANGED <<interfaces, processes, group>>
    BY <1>7 DEF EnterTry, Confirm, SpinReadiness, Goto, Silent, Owns, owned
  <2>2. Kept' = Kept /\ Step' = Step /\ Running(p)
    BY <2>1 DEF Kept, Step, Running
  <2> QED
    BY <1>2, <1>3, <1>4, <2>1, <2>2 DEF Acquiring
<1>8. CASE Keep
  <2>1. pc = "keep" /\ pc' \in Acquiring \cup Cycling /\ UNCHANGED group
    BY <1>8 DEF Keep, NextStep, Acquiring, Cycling
  <2>2. /\ ToSet(interfaces) \subseteq ToSet(interfaces')
        /\ Step \in ToSet(Arms) => Step \in ToSet(interfaces')
    <3>1. CASE Step \in ToSet(Arms)
      <4>1. interfaces' = Append(interfaces, Step)
        BY <1>8, <3>1 DEF Keep
      <4> QED
        BY <3>1, <4>1, AppendSet DEF TypeOK
    <3>2. CASE Step \notin ToSet(Arms)
      BY <1>8, <3>2 DEF Keep
    <3> QED
      BY <3>1, <3>2
  <2>3. /\ ToSet(processes) \subseteq ToSet(processes')
        /\ Step \in Procs \ ToSet(Arms) => Step \in ToSet(processes')
    <3>1. CASE Step \in Procs \ ToSet(Arms)
      <4>1. processes' = Append(processes, Step)
        BY <1>8, <3>1 DEF Keep
      <4> QED
        BY <3>1, <4>1, AppendSet DEF TypeOK
    <3>2. CASE Step \notin Procs \ ToSet(Arms)
      BY <1>8, <3>2 DEF Keep
    <3> QED
      BY <3>1, <3>2
  <2>4. Kept \subseteq Kept' /\ (Step \in Procs => Step \in Kept') /\ Running(p)
    BY <2>1, <2>2, <2>3 DEF Kept, Running
  <2> QED
    BY <1>2, <1>3, <2>1, <2>4
<1> QED
  BY <1>5, <1>6, <1>7, <1>8 DEF Acquisition

(* A call of start() that raises hands what it was confirming to the handler *)
(* and everything else to the cleanup.                                       *)
LEMMA StartFailsKnows ==
    ASSUME TypeOK, Core, StartFails, ~(pc = "keep" /\ Step = "report"),
           NEW p \in Procs, Running(p)', p \notin Known'
    PROVE  Running(p) /\ p \notin Known
<1> DEFINE undo == IF pc = "confirm" /\ (Step \in Contexts \/ Running(Step))
                     THEN <<Step>> ELSE <<>>
<1>1. /\ Cleanup(undo) /\ pc \in Acquiring /\ stage = "none"
      /\ pc = "do" \/ pc = "confirm" \/ (pc = "made" /\ Step = "readiness")
  BY DEF StartFails, Raise, Acquiring, Core, StepInv
<1>2. undo = <<>> \/ (undo = <<Step>> /\ pc = "confirm")
  OBVIOUS
<1>3. Running(p)
  BY <1>1 DEF Cleanup, owned, Running
<1>4. at # Reported
  BY <1>1, AtPlaces, NamesDiffer DEF Core, StepInv
<1>5. ASSUME p \in Known PROVE p \in Kept \cup ToSet(undo)
  <2>1. p \in Kept \/ (p = Step /\ pc # "do")
    BY <1>1, <1>5 DEF Known
  <2>2. CASE p = Step /\ pc # "do"
    <3>1. undo = <<Step>>
      BY <1>1, <1>3, <2>2, NamesDiffer DEF Contexts
    <3> QED
      BY <2>2, <3>1 DEF ToSet
  <2> QED
    BY <2>1, <2>2
<1> HIDE DEF undo
<1> QED
  BY <1>1, <1>2, <1>3, <1>4, <1>5, CleanupKnows

(* So does whatever leaves the Episodes. *)
LEMMA CycleKnows ==
    ASSUME TypeOK, Core, Cycle, NEW p \in Procs, Running(p)', p \notin Known'
    PROVE  Running(p) /\ p \notin Known
<1>1. pc \in Cycling /\ pc \notin Acquiring /\ stage = "none"
  BY DEF Cycle, Activate, Prepare, CallReturns, CallFails, Converge, EndRecording, Leave,
     Calling, Cycling, Acquiring, Core, StepInv
<1>2. p \in Known => p \in Kept
  BY <1>1 DEF Known
<1>3. ASSUME pc' \in Cycling, UNCHANGED owned PROVE Running(p) /\ p \notin Known
  BY <1>2, <1>3 DEF Known, Kept, owned, Running
<1>4. ASSUME Cleanup(<<>>) PROVE Running(p) /\ p \notin Known
  <2>1. Running(p)
    BY <1>4 DEF Cleanup, owned, Running
  <2> QED
    BY <1>1, <1>2, <1>4, <2>1, CleanupKnows
<1>5. Cleanup(<<>>) \/ (pc' \in Cycling /\ UNCHANGED owned)
  BY DEF Cycle, Activate, Prepare, CallReturns, CallFails, Converge, EndRecording, Leave,
     Silent, Goto, After, Cycling
<1> QED
  BY <1>3, <1>4, <1>5

(* The cleanup takes off its list what does not run any more. *)
LEMMA CleanupStepKnows ==
    ASSUME TypeOK, Core, CleanupStep, sig # Len(Signals),
           NEW p \in Procs, Running(p)', p \notin Known'
    PROVE  Running(p) /\ p \notin Known
<1>s. pc = "stopping" /\ stage # "none"
  BY DEF CleanupStep, CloseContext, CloseTimesOut, SendSignal, Reaped, RestoreUsbfs, ReleaseLock,
     StageDone, Stopping, Core, StepInv
<1>n. pc \notin Acquiring \cup Cycling
  BY <1>s DEF Acquiring, Cycling
<1>k. p \in Known => p \in ToSet(todo) \/ (p \in Kept /\ stage = "undo")
  BY <1>s, <1>n DEF Known
<1>1. ASSUME Pop, todo # <<>>, p # Item, UNCHANGED group, Kept \subseteq Kept' \cup {Item}
      PROVE  Running(p) /\ p \notin Known
  <2>1. UNCHANGED <<pc, stage>> /\ ToSet(todo) \subseteq {Item} \cup ToSet(todo')
    BY <1>1, TailSet DEF Pop, TypeOK, Item
  <2>2. Running(p)
    BY <1>1 DEF Running
  <2> QED
    BY <1>s, <1>k, <1>1, <2>1, <2>2 DEF Known
<1>2. CASE CloseContext \/ CloseTimesOut \/ RestoreUsbfs \/ ReleaseLock
  <2>1. /\ Pop /\ todo # <<>> /\ UNCHANGED <<group, interfaces, processes>>
        /\ Item \in Contexts \cup {"usbfs", "lock"}
    BY <1>2 DEF CloseContext, CloseTimesOut, RestoreUsbfs, ReleaseLock, Stopping, Owns
  <2>2. p # Item /\ Kept' = Kept
    BY <2>1, NamesDiffer DEF Kept
  <2> QED
    BY <1>1, <2>1, <2>2
<1>3. CASE SendSignal
  <2>1. /\ UNCHANGED <<interfaces, processes, pc, at, stage, todo>>
        /\ \E obey : SignalGroup(Item, obey)
    BY <1>3 DEF SendSignal
  <2>2. Known' = Known
    BY <2>1 DEF Known, Kept, Step
  <2>3. group'[p] \subseteq group[p]
    BY <2>1 DEF SignalGroup, TypeOK, GroupsTypeOK
  <2> QED
    BY <2>2, <2>3 DEF Running
<1>4. CASE Reaped
  <2>1. /\ Pop /\ todo # <<>> /\ UNCHANGED group /\ ~Running(Item)
        /\ interfaces' = Without(interfaces) /\ processes' = Without(processes)
    BY <1>4 DEF Reaped, Stopping, Forget
  <2>2. p # Item
    BY <2>1 DEF Running
  <2>3. /\ ToSet(interfaces) \subseteq {Item} \cup ToSet(interfaces')
        /\ ToSet(processes) \subseteq {Item} \cup ToSet(processes')
    BY <2>1, WithoutSet DEF TypeOK
  <2> QED
    BY <1>1, <2>1, <2>2, <2>3 DEF Kept
<1>5. CASE StageDone
  <2>1. todo = <<>> /\ UNCHANGED <<at, owned>> /\ ToSet(todo) = {}
    BY <1>5 DEF StageDone, ToSet
  <2>2. Running(p)
    BY <2>1 DEF Running, owned
  <2>3. CASE stage # "undo"
    BY <1>k, <2>1, <2>2, <2>3
  <2>4. CASE stage = "undo" /\ p \in Kept
    <3>1. /\ at \in Nat /\ Reported \in Nat /\ Reported > 4
          /\ InSystem <=> at \in 4..Reported - 1
          /\ Step \in Procs => at > 4
          /\ Step \in Contexts => at > Reported
          /\ Step = "report" <=> at = Reported
      BY AtPlaces
    <3>2. CASE InSystem
      <4>1. processes = <<>>
        BY <2>4, <3>1, <3>2 DEF Core, FlagInv
      <4>2. stage' \in {"inner", "outer"} /\ ToSet(SystemStop) \subseteq ToSet(todo')
        BY <1>5, <2>4, <3>2 DEF StageDone
      <4>3. p \in ToSet(interfaces)
        BY <2>4, <4>1 DEF Kept, ToSet
      <4>4. p \in ToSet(todo')
        BY <4>2, <4>3, SystemStopShape
      <4> QED
        BY <4>2, <4>4 DEF Known
    <3>3. CASE ~InSystem
      <4>1. at > Reported
        BY <2>4, <3>1, <3>3, NamesDiffer DEF Core, StepInv, Contexts
      <4>2. "system" \in flags
        BY <2>4, <4>1 DEF Core, FlagInv
      <4>3. stage' = "outer" /\ todo' = SessionStop
        BY <1>5, <2>4, <3>3 DEF StageDone
      <4>4. p \in ToSet(todo')
        BY <2>4, <4>2, <4>3, SessionStopShape DEF Kept
      <4> QED
        BY <4>3, <4>4 DEF Known
    <3> QED
      BY <3>2, <3>3
  <2> QED
    BY <1>k, <2>1, <2>2, <2>3, <2>4
<1> QED
  BY <1>2, <1>3, <1>4, <1>5 DEF CleanupStep

(* A process whose leader runs leaves the hands of the program only by a      *)
(* signal, a crash, a report that cannot be printed, or by outliving SIGKILL: *)
(* failing calls and dying processes alone lose none (processes.py, start and *)
(* stop of system.py and orchestrator.py).                                    *)
THEOREM NoneIsLost == Spec => NoneGoesAstray
<1>1. ASSUME IInv, [Next]_vars PROVE [Strays' \subseteq Strays \/ Struck]_vars
  <2> SUFFICES ASSUME Next, ~Struck, NEW p \in Procs, Running(p)', p \notin Known'
               PROVE  Running(p) /\ p \notin Known
    BY <1>1 DEF Strays
  <2>1. TypeOK /\ Core
    BY <1>1 DEF IInv, Core
  <2>2. CASE Acquisition
    BY <2>1, <2>2, AcquisitionKnows
  <2>3. CASE StartFails
    BY <2>1, <2>3, StartFailsKnows DEF Struck
  <2>4. CASE Cycle
    BY <2>1, <2>4, CycleKnows
  <2>5. CASE CleanupStep
    BY <2>1, <2>5, CleanupStepKnows DEF Struck
  <2>6. CASE Exit \/ Crash
    BY <2>6 DEF Exit, Crash, Gone, Struck
  <2>7. CASE Interrupt
    <3>1. count' = [count EXCEPT !.signals = count.signals + 1]
      BY <2>7 DEF Interrupt
    <3>2. count \in [programs : Nat, episodes : Nat, signals : Nat, faults : Nat]
      BY <2>1 DEF TypeOK
    <3> QED
      BY <3>1, <3>2 DEF Struck
  <2>8. CASE ProcessDies \/ Other \/ LateService
    <3>1. /\ UNCHANGED <<interfaces, processes, pc, at, stage, todo>>
          /\ group'[p] \subseteq group[p]
      BY <2>1, <2>8 DEF ProcessDies, Die, Other, LateService, owned, thread, TypeOK, GroupsTypeOK
    <3>2. Known' = Known
      BY <3>1 DEF Known, Kept, Step
    <3> QED
      BY <3>1, <3>2 DEF Running
  <2>9. CASE Launch
    <3>1. pc = "none" /\ stage = "none" /\ UNCHANGED owned
      BY <2>1, <2>9 DEF Launch, Core, StepInv
    <3> QED
      BY <3>1 DEF Known, Running, owned, Acquiring, Cycling
  <2> QED
    BY <2>2, <2>3, <2>4, <2>5, <2>6, <2>7, <2>8, <2>9 DEF Next, Environment
<1>2. ASSUME TRUE PROVE NoneGoesAstray <=> [][Strays' \subseteq Strays \/ Struck]_vars
  BY PTL DEF NoneGoesAstray
<1> QED
  BY <1>1, <1>2, Inductive, PTL DEF Spec
===============================================================================
