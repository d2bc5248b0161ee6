-------------------------- MODULE Regionator_proofs --------------------------
(***************************************************************************)
(* What a Regionator writes, whatever the features, their places and the   *)
(* Regions.  No file of a regionation is written over: a Region is given   *)
(* its number before its children are, and its file is written when they   *)
(* have theirs (IInv).  Each link is to the file of the Region it is for:  *)
(* a call's children have been written when it returns, and its number     *)
(* does not change (LinksInv).  Then where the features go: each that is   *)
(* in the root's Region ends up in one file (EveryFeatureOnce), and of a   *)
(* sorted list none is seen from farther away than one that scores more    *)
(* (HigherScoresFirst).                                                    *)
(***************************************************************************)
EXTENDS Regionator, SequenceTheorems, FiniteSetTheorems, WellFoundedInduction, TLAPS

(* The stack, whatever the boxes and the children are.                     *)
Calls(Bs, Kids) ==
  [region : [id : Seq(Quadrants), box : Bs], next : 0..Done, children : Kids]

Shape ==
  /\ count \in Nat
  /\ \E Bs, Kids : stack \in Seq(Calls(Bs, Kids))
  /\ task.name \in RootNames \cup {NoRootName}

(* The calls are of Regions one deeper each, so no two of the same, and all*)
(* but the last are on to their children.                                  *)
CallsDeepen ==
  \A k \in DOMAIN stack :
    /\ Len(stack[k].region.id) = k - 1
    /\ k < Len(stack) => stack[k].next \in Quadrants

(* A call that has been given its number waits to be written: the number is*)
(* its own and not yet a name.                                             *)
Numbered    == {k \in DOMAIN stack : stack[k].next # 0}
NumberOf(k) == numbers[stack[k].region.id]

NumbersWait ==
  \A k \in Numbered :
    /\ stack[k].region.id \in DOMAIN numbers
    /\ NumberOf(k) \in 1..count /\ NumberOf(k) \notin Names
    /\ \A l \in Numbered : NumberOf(l) = NumberOf(k) => l = k

NamesGiven == stack # << >> => Names \subseteq 1..count

IInv == Shape /\ CallsDeepen /\ NumbersWait /\ NamesGiven

-----------------------------------------------------------------------------
LEMMA InitIInv == Init => IInv
<1> SUFFICES ASSUME Init PROVE IInv
  OBVIOUS
<1>1. stack = << >> /\ DOMAIN stack = {}
  BY DEF Init
<1>2. stack \in Seq(Calls({}, {}))
  BY <1>1
<1>3. Shape
  BY <1>2 DEF Shape, Init, NoTask
<1> QED BY <1>1, <1>3 DEF IInv, CallsDeepen, NumbersWait, Numbered, NamesGiven

(* A new Regionator starts afresh.                                         *)
LEMMA StartIInv ==
    ASSUME NEW l, NEW box, NEW sorted, NEW max, NEW name \in RootNames \cup {NoRootName},
           Start(l, box, sorted, max, name)
    PROVE  IInv'
<1>1. /\ stack' = <<Call(Root(box))>> /\ count' = 0 /\ files' = << >>
      /\ task'.name = name
  BY DEF Start
<1>2. Call(Root(box)) \in Calls({box}, {<< >>})
  BY DEF Call, Root, Calls, Done
<1>3. stack' \in Seq(Calls({box}, {<< >>}))
  BY <1>1, <1>2
<1>4. /\ Len(stack') = 1 /\ DOMAIN stack' = {1}
      /\ stack'[1].next = 0 /\ stack'[1].region.id = << >>
  BY <1>1 DEF Call, Root
<1>5. DOMAIN files' = {}
  BY <1>1
<1>6. Shape'
  BY <1>1, <1>3 DEF Shape
<1>7. CallsDeepen'
  BY <1>4 DEF CallsDeepen
<1> QED BY <1>4, <1>5, <1>6, <1>7 DEF IInv, NumbersWait, Numbered, NamesGiven, Names

(* A call whose child has returned.                                        *)
AdvancedWith(c, kids) == [c EXCEPT !.next = c.next + 1, !.children = kids]

LEMMA AdvancedCall ==
    ASSUME NEW Bs, NEW Kids, NEW c \in Calls(Bs, Kids), c.next \in Quadrants,
           NEW kids
    PROVE  /\ AdvancedWith(c, kids) \in Calls(Bs, Kids \cup {kids})
           /\ AdvancedWith(c, kids).region = c.region
           /\ AdvancedWith(c, kids).next # 0
           /\ AdvancedWith(c, kids).next = c.next + 1
           /\ AdvancedWith(c, kids).children = kids
<1> DEFINE R == [id : Seq(Quadrants), box : Bs]
           d == AdvancedWith(c, kids)
<1>1. c \in [region : R, next : 0..Done, children : Kids] /\ c.next + 1 \in 1..Done
  BY DEF Calls, Quadrants, Done
<1> HIDE DEF R
<1>2. \A n : \A x \in [region : R, next : 0..Done, children : Kids] :
         n \in 0..Done =>
           /\ [x EXCEPT !.next = n] \in [region : R, next : 0..Done, children : Kids]
           /\ [x EXCEPT !.next = n].region = x.region
           /\ [x EXCEPT !.next = n].next = n
  OBVIOUS
<1>3. \A e : \A x \in [region : R, next : 0..Done, children : Kids] :
           /\ [x EXCEPT !.children = e] \in [region : R, next : 0..Done, children : Kids \cup {e}]
           /\ [x EXCEPT !.children = e].region = x.region
           /\ [x EXCEPT !.children = e].next = x.next
           /\ [x EXCEPT !.children = e].children = e
  OBVIOUS
<1> DEFINE x == [c EXCEPT !.next = c.next + 1]
<1>4. d = [x EXCEPT !.children = kids]
  BY DEF AdvancedWith
<1>5. x \in [region : R, next : 0..Done, children : Kids] /\ x.region = c.region /\ x.next = c.next + 1
  <2> HIDE DEF x
  <2>1. c.next + 1 \in 0..Done
    BY <1>1
  <2> QED BY <1>1, <1>2, <2>1 DEF x
<1> HIDE DEF x, d
<1>6. d \in [region : R, next : 0..Done, children : Kids \cup {kids}]
  BY <1>3, <1>4, <1>5
<1>7. d.region = c.region /\ d.next # 0 /\ d.next = c.next + 1 /\ d.children = kids
  BY <1>1, <1>3, <1>4, <1>5 DEF Done
<1> QED BY <1>6, <1>7 DEF Calls, R, d

(* When a call returns its caller has a child less to ask.                 *)
LEMMA ReturnShape ==
    ASSUME IInv, stack # << >>, NEW b, Return(b)
    PROVE  /\ \E Bs, Kids : stack' \in Seq(Calls(Bs, Kids))
           /\ Len(stack') = Len(stack) - 1
           /\ DOMAIN stack' = 1..(Len(stack) - 1)
           /\ DOMAIN stack = 1..Len(stack)
           /\ \A k \in DOMAIN stack' :
                /\ stack'[k].region = stack[k].region
                /\ stack[k].next # 0 /\ stack'[k].next # 0
                /\ k < Len(stack') => stack'[k] = stack[k]
                /\ k = Len(stack') =>
                     /\ stack'[k].next = stack[k].next + 1
                     /\ stack'[k].children = IF b THEN Append(stack[k].children, Top.region)
                                                   ELSE stack[k].children
<1> PICK Bs, Kids : stack \in Seq(Calls(Bs, Kids))
  BY DEF IInv, Shape
<1>1. stack' = Returned(stack, Top.region, b)
  BY DEF Return
<1>2. Len(stack) \in Nat /\ Len(stack) >= 1 /\ DOMAIN stack = 1..Len(stack)
  OBVIOUS
<1>3. CASE Len(stack) = 1
  <2>1. stack' = << >>
    BY <1>1, <1>3 DEF Returned
  <2> QED BY <1>2, <1>3, <2>1
<1>4. CASE Len(stack) # 1
  <2> DEFINE m == Len(stack) - 1
             c == stack[m]
             kids == IF b THEN Append(c.children, Top.region) ELSE c.children
             d == [c EXCEPT !.next = Advanced(c),
                            !.children = IF b THEN Append(@, Top.region) ELSE @]
             front == SubSeq(stack, 1, Len(stack) - 2)
  <2>1. stack' = Append(front, d)
    BY <1>1, <1>4 DEF Returned
  <2>2. m \in Nat /\ m \in DOMAIN stack /\ m < Len(stack) /\ c \in Calls(Bs, Kids)
    BY <1>2, <1>4
  <2>3. c.next \in Quadrants
    BY <2>2 DEF IInv, CallsDeepen
  <2>4. d \in Calls(Bs, Kids \cup {kids}) /\ d.region = c.region /\ d.next # 0
        /\ d.next = c.next + 1 /\ d.children = kids
    <3> HIDE DEF kids, c
    <3>1. d = AdvancedWith(c, kids)
      BY DEF AdvancedWith, Advanced, kids
    <3> HIDE DEF d
    <3>2. c \in Calls(Bs, Kids)
      BY <2>2
    <3> QED BY ONLY <2>3, <3>1, <3>2, AdvancedCall
  <2>5. /\ front \in Seq(Calls(Bs, Kids)) /\ Len(front) = m - 1
        /\ \A k \in 1..(m - 1) : front[k] = stack[k]
    BY <1>2, <1>4
  <2>6. front \in Seq(Calls(Bs, Kids \cup {kids}))
    <3> HIDE DEF front, kids, m
    <3>1. Calls(Bs, Kids) \subseteq Calls(Bs, Kids \cup {kids})
      BY DEF Calls
    <3> QED BY <2>5, <3>1, SeqMonotonic
  <2>7. /\ stack' \in Seq(Calls(Bs, Kids \cup {kids}))
        /\ Len(stack') = m /\ DOMAIN stack' = 1..m
        /\ stack'[m] = d
        /\ \A k \in 1..(m - 1) : stack'[k] = front[k]
    <3> HIDE DEF front, kids, d
    <3> QED BY <2>1, <2>4, <2>5, <2>6, <1>2, <1>4
  <2>8. ASSUME NEW k \in 1..m
        PROVE  /\ stack'[k].region = stack[k].region
               /\ stack[k].next # 0 /\ stack'[k].next # 0
               /\ k < m => stack'[k] = stack[k]
               /\ k = m => stack'[k].next = stack[k].next + 1 /\ stack'[k].children = kids
    <3>1. stack[k].next \in Quadrants
      BY <1>2 DEF IInv, CallsDeepen
    <3> HIDE DEF d, front, kids, c
    <3>2. k = m \/ k \in 1..(m - 1)
      <4> HIDE DEF m
      <4> QED BY <2>2
    <3>3. CASE k = m
      <4>1. stack'[k] = d /\ c = stack[k]
        BY <2>7, <3>3 DEF c
      <4>2. d.next = stack[k].next + 1 /\ d.region = stack[k].region
        BY <2>4, <4>1
      <4>3. m \in Nat /\ d.next # 0 /\ d.children = kids
        BY <2>2, <2>4
      <4> HIDE DEF m
      <4> QED BY ONLY <3>1, <3>3, <4>1, <4>2, <4>3 DEF Quadrants
    <3>4. CASE k \in 1..(m - 1)
      <4>1. stack'[k] = stack[k]
        BY <2>5, <2>7, <3>4
      <4>2. m \in Nat
        BY <2>2
      <4> HIDE DEF m
      <4>3. k # m
        BY <3>4, <4>2
      <4> QED BY ONLY <3>1, <4>1, <4>3 DEF Quadrants
    <3> QED BY <3>2, <3>3, <3>4
  <2>9. kids = IF b THEN Append(stack[m].children, Top.region) ELSE stack[m].children
    OBVIOUS
  <2> HIDE DEF d, front, kids
  <2> QED BY <1>2, <2>7, <2>8, <2>9
<1> QED BY <1>3, <1>4

(* A return leaves the numbers and the names as they are, or names what the*)
(* call that returns has for a number, or the root.                        *)
LEMMA ReturnIInv ==
    ASSUME IInv, stack # << >>, NEW b, Return(b),
           UNCHANGED <<numbers, count>>, task'.name = task.name,
           \/ Names' = Names
           \/ /\ Top.next # 0
              /\ \/ Names' = Names \cup {numbers[Top.region.id]}
                 \/ IsRoot(Top.region)
    PROVE  IInv'
<1>1. /\ \E Bs, Kids : stack' \in Seq(Calls(Bs, Kids))
      /\ Len(stack') = Len(stack) - 1
      /\ DOMAIN stack' = 1..(Len(stack) - 1)
      /\ DOMAIN stack = 1..Len(stack)
      /\ \A k \in DOMAIN stack' :
           /\ stack'[k].region = stack[k].region
           /\ stack[k].next # 0 /\ stack'[k].next # 0
           /\ k < Len(stack') => stack'[k] = stack[k]
  BY ReturnShape
<1>2. Len(stack) \in Nat /\ Len(stack) >= 1 /\ Top = stack[Len(stack)]
  BY DEF IInv, Shape, Top, Last
<1>3. Shape'
  BY <1>1 DEF IInv, Shape
<1>4. CallsDeepen'
  BY <1>1, <1>2 DEF IInv, CallsDeepen
<1>5. Numbered' \subseteq Numbered \ {Len(stack)}
  BY <1>1, <1>2 DEF Numbered
<1>6. \A k \in Numbered' : stack'[k].region.id = stack[k].region.id
  BY <1>1 DEF Numbered
<1>7. NumbersWait' /\ NamesGiven'
  <2>1. CASE Names' = Names
    BY <2>1, <1>5, <1>6 DEF IInv, NumbersWait, NumberOf, NamesGiven
  <2>2. CASE Top.next # 0 /\ Names' = Names \cup {numbers[Top.region.id]}
    <3>1. Len(stack) \in Numbered /\ numbers[Top.region.id] = NumberOf(Len(stack))
      BY <1>1, <1>2, <2>2 DEF Numbered, NumberOf
    <3>2. \A k \in Numbered' :
            /\ k \in Numbered /\ k # Len(stack) /\ NumberOf(k)' = NumberOf(k)
            /\ stack'[k].region.id \in DOMAIN numbers'
      BY <1>5, <1>6 DEF IInv, NumbersWait, NumberOf
    <3>3. \A k \in Numbered : NumberOf(k) \in 1..count /\ NumberOf(k) \notin Names
      BY DEF IInv, NumbersWait
    <3>4. \A k \in Numbered, l \in Numbered : NumberOf(l) = NumberOf(k) => l = k
      BY DEF IInv, NumbersWait
    <3>5. Names' = Names \cup {NumberOf(Len(stack))} /\ Names \subseteq 1..count
      BY <2>2, <3>1 DEF IInv, NamesGiven
    <3>6. NumbersWait'
      <4> HIDE DEF NumberOf, Numbered
      <4> QED BY <3>1, <3>2, <3>3, <3>4, <3>5 DEF NumbersWait
    <3>7. NamesGiven'
      BY <3>1, <3>3, <3>5 DEF NamesGiven
    <3> QED BY <3>6, <3>7
  <2>3. CASE IsRoot(Top.region)
    <3>1. Len(stack) = 1
      BY <1>1, <1>2, <2>3 DEF IsRoot, IInv, CallsDeepen
    <3>2. DOMAIN stack' = {} /\ stack' = << >>
      BY <1>1, <3>1
    <3> QED BY <3>2 DEF NumbersWait, Numbered, NamesGiven
  <2> QED BY <2>1, <2>2, <2>3
<1> QED BY <1>3, <1>4, <1>7 DEF IInv

(* A Region with data is given the next number.                            *)
LEMMA NumberIInv ==
    ASSUME IInv, stack # << >>, Top.next = 0,
           count' = count + 1,
           numbers' = [i \in DOMAIN numbers \cup {Top.region.id} |->
                         IF i = Top.region.id THEN count' ELSE numbers[i]],
           stack' = [stack EXCEPT ![Len(stack)].next = 1],
           UNCHANGED <<files, task>>
    PROVE  IInv'
<1> PICK Bs, Kids : stack \in Seq(Calls(Bs, Kids))
  BY DEF IInv, Shape
<1> DEFINE n == Len(stack)
<1>1. n \in Nat /\ n >= 1 /\ DOMAIN stack = 1..n /\ Top = stack[n] /\ stack[n] \in Calls(Bs, Kids)
  BY DEF Top, Last
<1>2. [stack[n] EXCEPT !.next = 1] \in Calls(Bs, Kids)
  BY <1>1 DEF Calls, Done
<1>3. stack' \in Seq(Calls(Bs, Kids)) /\ Len(stack') = n /\ DOMAIN stack' = 1..n
  BY <1>1, <1>2
<1>4. /\ \A k \in 1..n : stack'[k].region = stack[k].region
      /\ \A k \in 1..n : k # n => stack'[k] = stack[k]
      /\ stack'[n].next = 1
  BY <1>1, <1>3 DEF Calls
<1>5. Shape'
  BY <1>3 DEF IInv, Shape
<1>6. CallsDeepen'
  BY <1>1, <1>3, <1>4 DEF IInv, CallsDeepen
<1>7. Numbered' = Numbered \cup {n} /\ n \notin Numbered
  BY <1>1, <1>3, <1>4 DEF Numbered
<1>8. /\ numbers'[Top.region.id] = count + 1 /\ Top.region.id \in DOMAIN numbers'
      /\ \A k \in Numbered : /\ numbers'[stack[k].region.id] = NumberOf(k)
                             /\ stack[k].region.id \in DOMAIN numbers'
  <2>1. \A k \in Numbered : stack[k].region.id \in DOMAIN numbers /\ stack[k].region.id # Top.region.id
    BY <1>1, <1>7 DEF IInv, NumbersWait, CallsDeepen, Numbered
  <2> QED BY <2>1 DEF NumberOf
<1>9. count \in Nat /\ Names' = Names /\ Names \subseteq 1..count
  BY DEF IInv, Shape, Names, NamesGiven
<1>10. \A k \in Numbered : NumberOf(k) \in 1..count /\ NumberOf(k) \notin Names
  BY DEF IInv, NumbersWait
<1>11. \A k \in Numbered, l \in Numbered : NumberOf(l) = NumberOf(k) => l = k
  BY DEF IInv, NumbersWait
<1>12. NumberOf(n)' = count + 1 /\ \A k \in Numbered : NumberOf(k)' = NumberOf(k)
  <2>1. NumberOf(n)' = numbers'[stack'[n].region.id]
    BY <1>3 DEF NumberOf
  <2>2. stack'[n].region = Top.region
    BY <1>1, <1>4
  <2>3. ASSUME NEW k \in Numbered PROVE NumberOf(k)' = NumberOf(k)
    <3>1. k \in 1..n
      BY <1>1 DEF Numbered
    <3>2. NumberOf(k)' = numbers'[stack[k].region.id]
      BY <3>1, <1>4 DEF NumberOf
    <3> QED BY <3>2, <1>8
  <2> QED BY <2>1, <2>2, <2>3, <1>8
<1>13. NumbersWait'
  <2> SUFFICES ASSUME NEW k \in Numbered'
               PROVE  /\ stack'[k].region.id \in DOMAIN numbers'
                      /\ NumberOf(k)' \in 1..count' /\ NumberOf(k)' \notin Names'
                      /\ \A l \in Numbered' : NumberOf(l)' = NumberOf(k)' => l = k
    BY DEF NumbersWait
  <2>1. k \in 1..n
    BY <1>3 DEF Numbered
  <2>2. stack'[k].region.id \in DOMAIN numbers'
    BY <2>1, <1>1, <1>4, <1>7, <1>8
  <2>3. NumberOf(k)' \in 1..count' /\ NumberOf(k)' \notin Names'
    BY <1>7, <1>9, <1>10, <1>12
  <2>4. \A l \in Numbered' : NumberOf(l)' = NumberOf(k)' => l = k
    BY <1>7, <1>9, <1>10, <1>11, <1>12
  <2> QED BY <2>2, <2>3, <2>4
<1>14. NamesGiven'
  BY <1>9 DEF NamesGiven
<1> QED BY <1>5, <1>6, <1>13, <1>14 DEF IInv

LEMMA HasDataIInv == IInv /\ HasData => IInv'
<1> SUFFICES ASSUME IInv, HasData PROVE IInv'
  OBVIOUS
<1>1. stack # << >> /\ Top.next = 0 /\ Names' = Names /\ UNCHANGED files
  BY DEF HasData, Names
<1>2. CASE /\ Return(FALSE)
           /\ UNCHANGED <<numbers, count>> /\ task'.name = task.name
  BY <1>1, <1>2, ReturnIInv
<1>3. CASE /\ count' = count + 1
           /\ numbers' = [i \in DOMAIN numbers \cup {Top.region.id} |->
                            IF i = Top.region.id THEN count' ELSE numbers[i]]
           /\ stack' = [stack EXCEPT ![Len(stack)].next = 1]
           /\ UNCHANGED task
  BY <1>1, <1>3, NumberIInv
<1>4. task' = [task EXCEPT !.refused = @ \cup {Top.region}] => task'.name = task.name
  OBVIOUS
<1> QED BY <1>2, <1>3, <1>4 DEF HasData

LEMMA RecurseIInv == IInv /\ Recurse => IInv'
<1> SUFFICES ASSUME IInv, Recurse PROVE IInv'
  OBVIOUS
<1> PICK Bs, Kids : stack \in Seq(Calls(Bs, Kids))
  BY DEF IInv, Shape
<1> DEFINE n == Len(stack)
           c == Call(Child(Top.region, Top.next))
           B == Bs \cup {c.region.box}
           K == Kids \cup {<< >>}
<1>1. /\ n \in Nat /\ n >= 1 /\ DOMAIN stack = 1..n
      /\ Top = stack[n] /\ stack[n] \in Calls(Bs, Kids)
      /\ Top.next \in Quadrants /\ stack' = Append(stack, c)
  BY DEF Recurse, Top, Last
<1>2. c.region.id \in Seq(Quadrants) /\ Len(c.region.id) = n /\ c.next = 0
  <2>1. Top.region.id \in Seq(Quadrants) /\ Len(Top.region.id) = n - 1
    <3>1. Top.region \in [id : Seq(Quadrants), box : Bs]
      BY <1>1 DEF Calls
    <3>2. Len(stack[n].region.id) = n - 1
      <4>1. n \in DOMAIN stack
        BY <1>1
      <4> HIDE DEF n
      <4> QED BY <4>1 DEF IInv, CallsDeepen
    <3> QED BY <1>1, <3>1, <3>2
  <2>2. c.region.id = Append(Top.region.id, Top.next) /\ c.next = 0
    BY DEF Call, Child
  <2> HIDE DEF c
  <2>3. c.region.id \in Seq(Quadrants) /\ Len(c.region.id) = Len(Top.region.id) + 1
    <3>1. Top.next \in Quadrants
      BY <1>1
    <3> QED BY ONLY <2>1, <2>2, <3>1, AppendProperties
  <2>4. n \in Nat
    BY <1>1
  <2> HIDE DEF n
  <2> QED BY <2>1, <2>2, <2>3, <2>4
<1>3. c \in Calls(B, K)
  <2>1. c.region.id \in Seq(Quadrants)
    BY <1>2
  <2>2. /\ c = [region |-> c.region, next |-> 0, children |-> << >>]
        /\ c.region = [id |-> c.region.id, box |-> c.region.box]
    BY DEF Call, Child
  <2> HIDE DEF c
  <2>3. c.region \in [id : Seq(Quadrants), box : B]
    BY <2>1, <2>2
  <2> HIDE DEF B
  <2> QED BY <2>2, <2>3 DEF Calls, Done
<1>4. stack \in Seq(Calls(B, K))
  <2>1. Calls(Bs, Kids) \subseteq Calls(B, K)
    BY DEF Calls
  <2> QED BY <2>1, SeqMonotonic
<1> HIDE DEF c, B, K
<1>5. /\ stack' \in Seq(Calls(B, K)) /\ Len(stack') = n + 1 /\ DOMAIN stack' = 1..(n + 1)
      /\ stack'[n + 1] = c
      /\ \A k \in 1..n : stack'[k] = stack[k]
  BY <1>1, <1>3, <1>4
<1>6. Shape'
  BY <1>5 DEF Recurse, IInv, Shape
<1>7. CallsDeepen'
  BY <1>1, <1>2, <1>5 DEF IInv, CallsDeepen
<1>8. Numbered' = Numbered
  BY <1>1, <1>2, <1>5 DEF Numbered
<1>9. \A k \in Numbered : stack'[k] = stack[k]
  BY <1>1, <1>5 DEF Numbered
<1>10. NumbersWait'
  <2>1. UNCHANGED <<numbers, count>> /\ Names' = Names
    BY DEF Recurse, Names
  <2>2. \A k \in Numbered : NumberOf(k)' = NumberOf(k)
    BY <1>9, <2>1 DEF NumberOf
  <2> QED BY <1>8, <1>9, <2>1, <2>2 DEF IInv, NumbersWait
<1>11. NamesGiven'
  BY <1>1 DEF Recurse, IInv, NamesGiven, Names
<1> QED BY <1>6, <1>7, <1>10, <1>11 DEF IInv

(* The file that is written has a name that no other has.                  *)
LEMMA NameIsNew ==
    ASSUME IInv, stack # << >>, Top.next = Done
    PROVE  /\ RegionFilename(Top.region) \notin Names
           /\ \/ RegionFilename(Top.region) = numbers[Top.region.id]
              \/ IsRoot(Top.region)
<1>1. Len(stack) \in DOMAIN stack /\ Top = stack[Len(stack)]
  BY DEF IInv, Shape, Top, Last
<1>2. Len(stack) \in Numbered
  BY <1>1 DEF Numbered, Done
<1>3. numbers[Top.region.id] \notin Names
  BY <1>1, <1>2 DEF IInv, NumbersWait, NumberOf
<1>4. CASE task.name # NoRootName /\ IsRoot(Top.region)
  <2>1. RegionFilename(Top.region) = task.name /\ task.name \in RootNames
    BY <1>4 DEF RegionFilename, IInv, Shape
  <2>2. task.name \notin 1..count
    BY <2>1, RootNameAssumption DEF IInv, Shape
  <2> QED BY <1>4, <2>1, <2>2 DEF IInv, NamesGiven
<1>5. CASE ~ (task.name # NoRootName /\ IsRoot(Top.region))
  BY <1>3, <1>5 DEF RegionFilename
<1> QED BY <1>4, <1>5

LEMMA SaveKmlIInv == IInv /\ SaveKml => IInv'
<1> SUFFICES ASSUME IInv, SaveKml PROVE IInv'
  OBVIOUS
<1> DEFINE name == RegionFilename(Top.region)
<1>1. /\ stack # << >> /\ Top.next = Done /\ Top.next # 0
      /\ UNCHANGED <<numbers, count>>
  BY DEF SaveKml, Done
<1>2. CASE /\ files' = [n \in DOMAIN files \cup {name} |->
                          IF n = name THEN Document(Top.region) ELSE files[n]]
           /\ Return(TRUE) /\ UNCHANGED task
  <2>1. Names' = Names \cup {name}
    BY <1>2 DEF Names
  <2>2. name = numbers[Top.region.id] \/ IsRoot(Top.region)
    BY <1>1, NameIsNew
  <2> HIDE DEF name
  <2> QED BY <1>1, <1>2, <2>1, <2>2, ReturnIInv
<1>3. CASE Return(FALSE) /\ UNCHANGED files /\ task'.name = task.name
  <2>1. Names' = Names
    BY <1>3 DEF Names
  <2> QED BY <1>1, <1>3, <2>1, ReturnIInv
<1>4. task' = [task EXCEPT !.refused = @ \cup {Top.region}] => task'.name = task.name
  OBVIOUS
<1> QED BY <1>2, <1>3, <1>4 DEF SaveKml

LEMMA NextIInv == IInv /\ [Next]_vars => IInv'
<1> SUFFICES ASSUME IInv, [Next]_vars PROVE IInv'
  OBVIOUS
<1>1. ASSUME NEW max \in MaxPers, RegionateAligned(max) PROVE IInv'
  <2>1. CASE UNCHANGED <<left, folders, stack, numbers, count, files, task>>
    BY <2>1 DEF IInv, Shape, CallsDeepen, NumbersWait, Numbered, NumberOf, NamesGiven, Names
  <2>2. CASE \E box : Start(list', box, TRUE, max, NoRootName)
    BY <2>2, StartIInv
  <2> QED BY <1>1, <2>1, <2>2 DEF RegionateAligned
<1>2. ASSUME NEW max \in MaxPers, NEW box \in Regions, NEW name \in RootNames,
             Regionate(box, max, name)
      PROVE IInv'
  BY <1>2, StartIInv DEF Regionate
<1>3. CASE Walk
  BY <1>3, HasDataIInv, RecurseIInv, SaveKmlIInv DEF Walk
<1>4. CASE UNCHANGED vars
  BY <1>4 DEF vars, IInv, Shape, CallsDeepen, NumbersWait, Numbered, NumberOf, NamesGiven, Names
<1> QED BY <1>1, <1>2, <1>3, <1>4 DEF Next

-----------------------------------------------------------------------------
(* What the invariant is for: a step of the walk writes over no file.      *)
FilesStay ==
  stack # << >> => \A n \in Names : n \in DOMAIN files' /\ files'[n] = files[n]

LEMMA StepKeepsFiles == IInv /\ [Next]_vars => FilesStay
<1> SUFFICES ASSUME IInv, [Next]_vars, stack # << >> PROVE FilesStay
  BY DEF FilesStay
<1>1. CASE SaveKml
  BY <1>1, NameIsNew DEF SaveKml, FilesStay, Names
<1>2. CASE UNCHANGED files
  BY <1>2 DEF FilesStay, Names
<1>3. ~ MayStart
  BY DEF MayStart
<1> QED BY <1>1, <1>2, <1>3
        DEF Next, Walk, RegionateAligned, Regionate, HasData, Recurse, vars

(* Whatever features there are and wherever, and whatever the handler says:*)
(* while a Regionator walks, each file it wrote stays as it was written,   *)
(* if the client's name for the root's file is none that the walk gives    *)
(* (RootNameAssumption).                                                   *)
THEOREM NoFileLost == Spec => NoFileTwice
<1>1. IInv /\ [Next]_vars =>
        (stack # << >> => \A n \in Names : n \in DOMAIN files' /\ files'[n] = files[n])
  BY StepKeepsFiles DEF FilesStay
<1> QED BY InitIInv, NextIInv, <1>1, PTL DEF Spec, NoFileTwice
-----------------------------------------------------------------------------
(* The links.  A sequence, of whatever its elements are.                   *)
IsList(s) == \E S : s \in Seq(S)

FileOf(r)  == numbers[r.id]
Written(r) ==
  r.id \in DOMAIN numbers /\ FileOf(r) \in Names /\ files[FileOf(r)].region = r

(* Each call is of a quarter of its caller's Region, and the children it   *)
(* has gathered are quarters it has asked, whose files are written.        *)
Descent ==
  \A k \in DOMAIN stack :
    k > 1 => stack[k].region = Child(stack[k - 1].region, stack[k - 1].next)

AskedBy(c, r) == \E q \in Quadrants : q < c.next /\ r = Child(c.region, q)

Gathered(c) ==
  /\ IsList(c.children)
  /\ \A j \in DOMAIN c.children : AskedBy(c, c.children[j]) /\ Written(c.children[j])

ChildrenWritten == \A k \in DOMAIN stack : Gathered(stack[k])

(* The root's file is the first to be numbered, unless it has a name.      *)
RootFile == IF task.name # NoRootName THEN task.name ELSE 1

RootIsFirst ==
  /\ 1 \in DOMAIN stack /\ stack[1].next = 0 => count = 0
  /\ 1 \in Numbered => NumberOf(1) = 1
  /\ \A n \in Names :
       files[n].root = RootFile /\ (IsRoot(files[n].region) => n = RootFile)

LinksFit ==
  \A n \in Names : \A k \in DOMAIN files[n].links :
    LET link == files[n].links[k] IN
      /\ link.href \in Names /\ files[link.href].region = link.region
      /\ Front(link.region.id) = files[n].region.id

(* A file that no other links to is the root's, is about to be linked to,  *)
(* or was lost with its parent's Feature.                                  *)
Linked(n)  == \E m \in Names : \E k \in DOMAIN files[m].links : files[m].links[k].href = n
Awaited(n) == \E k \in DOMAIN stack : \E j \in DOMAIN stack[k].children :
                FileOf(stack[k].children[j]) = n
Orphaned(n) == \E p \in task.refused : p.id = Front(files[n].region.id)

NoneForgotten ==
  \A n \in Names : IsRoot(files[n].region) \/ Linked(n) \/ Awaited(n) \/ Orphaned(n)

RefusedKnown == "refused" \in DOMAIN task

LinksInv ==
  Descent /\ ChildrenWritten /\ RootIsFirst /\ LinksFit /\ NoneForgotten /\ RefusedKnown

-----------------------------------------------------------------------------
LEMMA ListAppend ==
    ASSUME NEW s, IsList(s), NEW x
    PROVE  /\ IsList(Append(s, x))
           /\ DOMAIN s = 1..Len(s) /\ Len(s) \in Nat
           /\ DOMAIN Append(s, x) = 1..(Len(s) + 1)
           /\ \A i \in 1..Len(s) : Append(s, x)[i] = s[i]
           /\ Append(s, x)[Len(s) + 1] = x
<1> PICK S : s \in Seq(S)
  BY DEF IsList
<1>1. S \subseteq S \cup {x}
  OBVIOUS
<1>2. s \in Seq(S \cup {x})
  BY <1>1, SeqMonotonic
<1>3. /\ Append(s, x) \in Seq(S \cup {x}) /\ Len(Append(s, x)) = Len(s) + 1
      /\ \A i \in 1..Len(s) : Append(s, x)[i] = s[i]
      /\ Append(s, x)[Len(s) + 1] = x
  BY <1>2, AppendProperties
<1>4. DOMAIN s = 1..Len(s) /\ Len(s) \in Nat
  BY <1>2
<1>5. DOMAIN Append(s, x) = 1..(Len(s) + 1)
  BY <1>3
<1> QED BY <1>3, <1>4, <1>5 DEF IsList

(* A quarter of a Region is one deeper, and not another quarter of it.     *)
LEMMA ChildIsDeeper ==
    ASSUME NEW r, r.id \in Seq(Quadrants), NEW q \in Quadrants
    PROVE  /\ Len(Child(r, q).id) = Len(r.id) + 1
           /\ ~ IsRoot(Child(r, q))
           /\ Front(Child(r, q).id) = r.id
           /\ \A p \in Quadrants : Child(r, p).id = Child(r, q).id => p = q
<1> DEFINE s == Append(r.id, q)
<1>1. Child(r, q).id = s /\ \A p : Child(r, p).id = Append(r.id, p)
  BY DEF Child
<1>2. /\ s \in Seq(Quadrants) /\ s # << >> /\ Len(s) = Len(r.id) + 1
      /\ \A i \in 1..Len(r.id) : s[i] = r.id[i]
  BY AppendProperties
<1>3. \A p \in Quadrants : Append(r.id, p) = Append(r.id, q) => p = q
  BY AppendInjective
<1>4. SubSeq(s, 1, Len(s) - 1) = r.id
  <2> DEFINE n == Len(r.id)
             t == SubSeq(s, 1, n)
  <2>1. n \in Nat /\ Len(s) - 1 = n
    BY <1>2
  <2>2. \A i \in 1..n : s[i] \in Quadrants
    BY <1>2
  <2>3. t \in Seq(Quadrants) /\ Len(t) = n /\ \A i \in 1..n : t[i] = s[i]
    <3> HIDE DEF s, n
    <3>1. t \in Seq(Quadrants) /\ Len(t) = IF 1 <= n THEN n - 1 + 1 ELSE 0
      BY <2>1, <2>2, SubSeqProperties
    <3>2. \A i \in 1..(n - 1 + 1) : t[i] = s[1 + i - 1]
      BY <2>1, <2>2, SubSeqProperties
    <3> HIDE DEF t
    <3> QED BY <2>1, <3>1, <3>2
  <2> HIDE DEF t
  <2>4. t = r.id
    BY <1>2, <2>3, SeqEqual
  <2> QED BY <2>1, <2>4 DEF t
<1> HIDE DEF s
<1> QED BY <1>1, <1>2, <1>3, <1>4 DEF Front, IsRoot, s

LEMMA StackFacts ==
    ASSUME IInv, stack # << >>
    PROVE  /\ DOMAIN stack = 1..Len(stack) /\ Len(stack) \in Nat /\ Len(stack) >= 1
           /\ Top = stack[Len(stack)]
           /\ \A k \in DOMAIN stack :
                /\ stack[k].region.id \in Seq(Quadrants)
                /\ Len(stack[k].region.id) = k - 1
                /\ stack[k].next \in 0..Done
                /\ k < Len(stack) => stack[k].next \in Quadrants
<1> PICK Bs, Kids : stack \in Seq(Calls(Bs, Kids))
  BY DEF IInv, Shape
<1>1. DOMAIN stack = 1..Len(stack) /\ Len(stack) \in Nat /\ Len(stack) >= 1
  OBVIOUS
<1>2. \A k \in DOMAIN stack : stack[k] \in Calls(Bs, Kids)
  OBVIOUS
<1>3. \A k \in DOMAIN stack :
        /\ stack[k].region.id \in Seq(Quadrants)
        /\ stack[k].next \in 0..Done
  BY <1>2 DEF Calls
<1> QED BY <1>1, <1>3 DEF IInv, CallsDeepen, Top, Last

(* The children gathered so far are not of the Region that is asked now.   *)
LEMMA ChildrenAreOthers ==
    ASSUME IInv, LinksInv, stack # << >>, Top.next = 0,
           NEW k \in DOMAIN stack, NEW j \in DOMAIN stack[k].children
    PROVE  stack[k].children[j].id # Top.region.id
<1> DEFINE n == Len(stack)
           r == stack[k].children[j]
<1>1. PICK q \in Quadrants : q < stack[k].next /\ r = Child(stack[k].region, q)
  BY DEF LinksInv, ChildrenWritten, Gathered, AskedBy
<1>2. /\ k \in 1..n /\ n \in Nat /\ Top = stack[n] /\ n \in DOMAIN stack
      /\ stack[k].region.id \in Seq(Quadrants) /\ Len(stack[k].region.id) = k - 1
      /\ Len(Top.region.id) = n - 1
      /\ k < n => stack[k].next \in Quadrants
  <2>1. DOMAIN stack = 1..n /\ n \in Nat /\ n >= 1 /\ Top = stack[n]
    BY StackFacts
  <2>2. k \in 1..n /\ n \in DOMAIN stack
    <3> HIDE DEF n
    <3> QED BY <2>1
  <2>3. \A i \in DOMAIN stack :
          /\ stack[i].region.id \in Seq(Quadrants)
          /\ Len(stack[i].region.id) = i - 1
          /\ i < n => stack[i].next \in Quadrants
    BY StackFacts
  <2> HIDE DEF n
  <2> QED BY <2>1, <2>2, <2>3
<1>3. Len(r.id) = k
  <2>1. Len(Child(stack[k].region, q).id) = Len(stack[k].region.id) + 1
    BY <1>2, ChildIsDeeper
  <2> HIDE DEF r
  <2> QED BY <1>1, <1>2, <2>1
<1>4. CASE k # n - 1
  <2>1. Len(r.id) # Len(Top.region.id)
    BY <1>2, <1>3, <1>4
  <2> QED BY <2>1
<1>5. CASE k = n - 1
  <2>1. n > 1 /\ n - 1 = k /\ stack[k].next \in Quadrants
    <3> HIDE DEF n
    <3> QED BY <1>2, <1>5
  <2>2. Top.region = Child(stack[k].region, stack[k].next)
    BY <1>2, <2>1 DEF LinksInv, Descent
  <2>3. q # stack[k].next
    BY <1>1, <2>1 DEF Quadrants
  <2> QED BY <1>1, <1>2, <2>1, <2>2, <2>3, ChildIsDeeper
<1> QED BY <1>4, <1>5

-----------------------------------------------------------------------------
LEMMA StartLinks ==
    ASSUME NEW l, NEW box, NEW sorted, NEW max, NEW name, Start(l, box, sorted, max, name)
    PROVE  LinksInv'
<1>1. stack' = <<Call(Root(box))>> /\ count' = 0 /\ files' = << >>
  BY DEF Start
<1>2. DOMAIN stack' = {1} /\ stack'[1].next = 0 /\ stack'[1].children = << >>
  BY <1>1 DEF Call
<1>3. Names' = {}
  BY <1>1 DEF Names
<1>4. IsList(<< >>) /\ DOMAIN << >> = {}
  <2>1. << >> \in Seq({})
    OBVIOUS
  <2> QED BY <2>1 DEF IsList
<1>5. Descent' /\ ChildrenWritten'
  BY <1>2, <1>4 DEF Descent, ChildrenWritten, Gathered
<1>6. RootIsFirst'
  BY <1>1, <1>2, <1>3 DEF RootIsFirst, Numbered
<1>7. RefusedKnown'
  BY DEF Start, RefusedKnown
<1> QED BY <1>3, <1>5, <1>6, <1>7 DEF LinksInv, LinksFit, NoneForgotten

LEMMA InitLinks == Init => LinksInv
<1> SUFFICES ASSUME Init PROVE LinksInv
  OBVIOUS
<1>1. DOMAIN stack = {} /\ Names = {}
  BY DEF Init, Names
<1>2. RefusedKnown
  BY DEF Init, NoTask, RefusedKnown
<1> QED BY <1>1, <1>2 DEF LinksInv, Descent, ChildrenWritten, RootIsFirst, Numbered, LinksFit,
                    NoneForgotten

(* What the calls have gathered stays true while the files stay, and the   *)
(* numbers of their children.                                              *)
FilesRemain == \A n \in Names : n \in Names' /\ files'[n] = files[n]

NumberRemains(r) == r.id \in DOMAIN numbers' /\ numbers'[r.id] = numbers[r.id]

WrittenNext(r) ==
  /\ r.id \in DOMAIN numbers' /\ numbers'[r.id] \in Names'
  /\ files'[numbers'[r.id]].region = r

LEMMA GatheredStays ==
    ASSUME FilesRemain, NEW c, Gathered(c),
           \A j \in DOMAIN c.children : NumberRemains(c.children[j])
    PROVE  \A j \in DOMAIN c.children : WrittenNext(c.children[j])
<1> TAKE j \in DOMAIN c.children
<1> DEFINE r == c.children[j]
<1>1. Written(r) /\ NumberRemains(r)
  BY DEF Gathered
<1> HIDE DEF r
<1>2. WrittenNext(r)
  BY <1>1 DEF FilesRemain, Written, FileOf, NumberRemains, WrittenNext
<1> QED BY <1>2 DEF r

(* Files that remain, and no others: what is said of them stays true.      *)
LEMMA FilesStayFit ==
    ASSUME IInv, LinksInv, UNCHANGED files, task'.name = task.name
    PROVE  /\ LinksFit'
           /\ \A n \in Names' :
                files'[n].root = RootFile' /\ (IsRoot(files'[n].region) => n = RootFile')
<1>1. RootFile' = RootFile /\ Names' = Names
  BY DEF RootFile, Names
<1> QED BY <1>1 DEF LinksInv, LinksFit, RootIsFirst

-----------------------------------------------------------------------------
(* A call returns: its caller goes on to the next quadrant, with a child   *)
(* more if a file was written.                                             *)
LEMMA ReturnLinks ==
    ASSUME IInv, LinksInv, stack # << >>, NEW b, Return(b),
           UNCHANGED <<numbers, count>>, FilesRemain,
           b => Len(stack) = 1 \/ WrittenNext(Top.region)
    PROVE  /\ Descent' /\ ChildrenWritten'
           /\ 1 \in DOMAIN stack' /\ stack'[1].next = 0 => count' = 0
           /\ 1 \in Numbered' => NumberOf(1)' = 1
<1> DEFINE n == Len(stack)
<1>1. /\ DOMAIN stack' = 1..(n - 1) /\ Len(stack') = n - 1
      /\ DOMAIN stack = 1..n
      /\ \A k \in DOMAIN stack' :
           /\ stack'[k].region = stack[k].region
           /\ stack[k].next # 0 /\ stack'[k].next # 0
           /\ k < n - 1 => stack'[k] = stack[k]
           /\ k = n - 1 =>
                /\ stack'[k].next = stack[k].next + 1
                /\ stack'[k].children = IF b THEN Append(stack[k].children, Top.region)
                                              ELSE stack[k].children
  BY ReturnShape
<1>2. n \in Nat /\ n >= 1 /\ Top = stack[n]
  BY StackFacts
<1>3. \A k \in DOMAIN stack : k < n => stack[k].next \in Quadrants
  BY StackFacts
<1>4. \A k \in DOMAIN stack :
        k > 1 => stack[k].region = Child(stack[k - 1].region, stack[k - 1].next)
  BY DEF LinksInv, Descent
<1> HIDE DEF n
<1>5. Descent'
  <2> SUFFICES ASSUME NEW k \in DOMAIN stack', k > 1
               PROVE  stack'[k].region = Child(stack'[k - 1].region, stack'[k - 1].next)
    BY DEF Descent
  <2>1. k \in DOMAIN stack /\ k - 1 \in DOMAIN stack' /\ k - 1 < n - 1
    BY <1>1, <1>2
  <2>2. stack'[k - 1] = stack[k - 1] /\ stack'[k].region = stack[k].region
    BY <1>1, <2>1
  <2> QED BY <1>4, <2>1, <2>2
<1>6. ASSUME NEW k \in DOMAIN stack'
      PROVE  /\ IsList(stack'[k].children)
             /\ \A j \in DOMAIN stack'[k].children :
                  /\ AskedBy(stack'[k], stack'[k].children[j])
                  /\ WrittenNext(stack'[k].children[j])
  <2> DEFINE c == stack[k]
             d == stack'[k]
  <2>1. k \in DOMAIN stack /\ k < n
    BY <1>1, <1>2
  <2>2. Gathered(c) /\ c.next \in Quadrants
    BY <1>3, <2>1 DEF LinksInv, ChildrenWritten
  <2>3. \A j \in DOMAIN c.children : WrittenNext(c.children[j])
    <3>1. \A j \in DOMAIN c.children : NumberRemains(c.children[j])
      BY <2>2 DEF Gathered, Written, NumberRemains
    <3> QED BY <2>2, <3>1, GatheredStays
  <2>4. \A j \in DOMAIN c.children : AskedBy(c, c.children[j])
    BY <2>2 DEF Gathered
  <2>5. d.region = c.region /\ (d.next = c.next \/ d.next = c.next + 1)
    BY <1>1, <1>2, <2>1
  <2> HIDE DEF c, d
  <2>6. \A r : AskedBy(c, r) => AskedBy(d, r)
    BY <2>2, <2>5 DEF AskedBy, Quadrants
  <2>7. CASE d.children = c.children
    <3>1. IsList(d.children)
      BY <2>2, <2>7 DEF Gathered
    <3> QED BY <2>3, <2>4, <2>6, <2>7, <3>1 DEF d
  <2>8. CASE k = n - 1 /\ b /\ d.children = Append(c.children, Top.region)
    <3> DEFINE s == c.children
               t == d.children
    <3>1. IsList(s)
      BY <2>2 DEF Gathered
    <3>2. /\ IsList(t) /\ DOMAIN s = 1..Len(s) /\ Len(s) \in Nat /\ DOMAIN t = 1..(Len(s) + 1)
          /\ \A i \in 1..Len(s) : t[i] = s[i]
          /\ t[Len(s) + 1] = Top.region
      BY <2>8, <3>1, ListAppend
    <3>3. AskedBy(d, Top.region)
      <4>1. n \in DOMAIN stack /\ n > 1 /\ n - 1 = k
        BY <1>1, <1>2, <2>8
      <4>2. Top.region = Child(stack[k].region, stack[k].next)
        BY <1>2, <1>4, <4>1
      <4>3. Top.region = Child(d.region, c.next)
        BY <2>5, <4>2 DEF c
      <4>4. d.next = c.next + 1
        BY <1>1, <2>8 DEF c, d
      <4>5. c.next < d.next
        BY <2>2, <4>4 DEF Quadrants
      <4> QED BY <2>2, <4>3, <4>5 DEF AskedBy
    <3>4. WrittenNext(Top.region)
      <4>1. n # 1
        BY <1>1, <1>2, <2>1, <2>8
      <4> QED BY <2>8, <4>1 DEF n
    <3>5. ASSUME NEW j \in DOMAIN t
          PROVE  /\ AskedBy(d, t[j])
                 /\ WrittenNext(t[j])
      <4>1. CASE j \in 1..Len(s)
        BY <2>3, <2>4, <2>6, <3>2, <4>1
      <4>2. CASE j = Len(s) + 1
        BY <3>2, <3>3, <3>4, <4>2
      <4>3. j \in 1..Len(s) \/ j = Len(s) + 1
        <5> HIDE DEF s, t
        <5> QED BY <3>2
      <4> QED BY <4>1, <4>2, <4>3
    <3>6. IsList(t)
      BY <3>2
    <3> QED BY <3>5, <3>6 DEF d
  <2>9. \/ d.children = c.children
        \/ k = n - 1 /\ b /\ d.children = Append(c.children, Top.region)
    <3>1. CASE k < n - 1
      BY <1>1, <3>1 DEF c, d
    <3>2. CASE k = n - 1
      <4>1. d.children = IF b THEN Append(c.children, Top.region) ELSE c.children
        BY <1>1, <3>2 DEF c, d
      <4> QED BY <3>2, <4>1
    <3> QED BY <1>1, <1>2, <3>1, <3>2
  <2> QED BY <2>7, <2>8, <2>9
<1>7. ChildrenWritten'
  BY <1>6 DEF ChildrenWritten, Gathered, Written, FileOf, WrittenNext
<1>8. 1 \in Numbered' => NumberOf(1)' = 1
  <2>1. 1 \in Numbered' => 1 \in Numbered /\ stack'[1].region = stack[1].region
    BY <1>1, <1>2 DEF Numbered
  <2>2. 1 \in Numbered => numbers[stack[1].region.id] = 1
    BY DEF LinksInv, RootIsFirst, NumberOf
  <2> QED BY <2>1, <2>2 DEF NumberOf
<1> QED BY <1>1, <1>5, <1>7, <1>8

(* Who awaited a link still does, unless the one who returns was to make it*)
LEMMA ReturnAwaited ==
    ASSUME IInv, LinksInv, stack # << >>, NEW b, Return(b), UNCHANGED numbers,
           NEW n, Awaited(n)
    PROVE  \/ Awaited(n)'
           \/ \E j \in DOMAIN Top.children : FileOf(Top.children[j]) = n
<1>1. /\ DOMAIN stack' = 1..(Len(stack) - 1) /\ Len(stack') = Len(stack) - 1
      /\ DOMAIN stack = 1..Len(stack)
      /\ \A k \in DOMAIN stack' :
           /\ k < Len(stack') => stack'[k] = stack[k]
           /\ k = Len(stack') =>
                /\ stack'[k].children = IF b THEN Append(stack[k].children, Top.region)
                                              ELSE stack[k].children
  BY ReturnShape
<1>2. Len(stack) \in Nat /\ Top = stack[Len(stack)]
  BY StackFacts
<1>3. PICK k \in DOMAIN stack : \E j \in DOMAIN stack[k].children : FileOf(stack[k].children[j]) = n
  BY DEF Awaited
<1>4. PICK j \in DOMAIN stack[k].children : numbers[stack[k].children[j].id] = n
  BY <1>3 DEF FileOf
<1>5. CASE k = Len(stack)
  BY <1>2, <1>3, <1>5
<1>6. CASE k # Len(stack)
  <2>1. k \in DOMAIN stack'
    BY <1>1, <1>2, <1>6
  <2>2. IsList(stack[k].children)
    BY DEF LinksInv, ChildrenWritten, Gathered
  <2> DEFINE s == stack[k].children
             t == Append(s, Top.region)
  <2>3. j \in DOMAIN t /\ t[j] = s[j]
    <3>1. /\ DOMAIN s = 1..Len(s) /\ Len(s) \in Nat /\ DOMAIN t = 1..(Len(s) + 1)
          /\ \A i \in 1..Len(s) : t[i] = s[i]
      BY <2>2, ListAppend
    <3>2. j \in 1..Len(s)
      BY <3>1
    <3> HIDE DEF s, t
    <3> QED BY <3>1, <3>2
  <2>4. stack'[k].children = s \/ stack'[k].children = t
    <3>1. CASE k < Len(stack')
      BY <1>1, <2>1, <3>1
    <3>2. CASE k = Len(stack')
      <4>1. stack'[k].children = IF b THEN t ELSE s
        BY <1>1, <2>1, <3>2
      <4> HIDE DEF s, t
      <4> QED BY <4>1
    <3> QED BY <1>1, <1>2, <2>1, <3>1, <3>2
  <2> HIDE DEF s, t
  <2>5. j \in DOMAIN stack'[k].children /\ stack'[k].children[j] = s[j]
    BY <1>4, <2>3, <2>4 DEF s
  <2>6. numbers'[stack'[k].children[j].id] = n
    BY <1>4, <2>5 DEF s
  <2>7. Awaited(n)'
    BY <2>1, <2>5, <2>6 DEF Awaited, FileOf
  <2> QED BY <2>7
<1> QED BY <1>5, <1>6

LEMMA ReturnAwaits ==
    ASSUME IInv, LinksInv, Len(stack) > 1, stack # << >>, Return(TRUE), UNCHANGED numbers,
           NEW n, n = numbers[Top.region.id]
    PROVE  Awaited(n)'
<1> DEFINE k == Len(stack) - 1
           s == stack[k].children
           t == Append(s, Top.region)
<1>1. Len(stack) \in Nat /\ Len(stack') = k /\ DOMAIN stack' = 1..k /\ DOMAIN stack = 1..Len(stack)
  BY ReturnShape, StackFacts
<1>2. k \in DOMAIN stack' /\ k \in DOMAIN stack
  BY <1>1
<1>3. stack'[k].children = t
  BY <1>1, <1>2, ReturnShape
<1>4. IsList(s)
  BY <1>2 DEF LinksInv, ChildrenWritten, Gathered
<1>5. Len(s) + 1 \in DOMAIN t /\ t[Len(s) + 1] = Top.region
  <2>1. Len(s) \in Nat /\ DOMAIN t = 1..(Len(s) + 1) /\ t[Len(s) + 1] = Top.region
    BY <1>4, ListAppend
  <2> HIDE DEF s, t
  <2> QED BY <2>1
<1> DEFINE j == Len(s) + 1
<1> HIDE DEF k, s, t, j
<1>6. j \in DOMAIN stack'[k].children /\ stack'[k].children[j] = Top.region
  BY <1>3, <1>5 DEF j
<1> QED BY <1>2, <1>6 DEF Awaited, FileOf

(* The calls go on, with the same Regions and children.                    *)
LEMMA SameCalls ==
    ASSUME IInv, LinksInv, UNCHANGED files, task'.name = task.name,
           task.refused \subseteq task'.refused,
           DOMAIN stack \subseteq DOMAIN stack',
           \A k \in DOMAIN stack :
              /\ stack'[k].children = stack[k].children
              /\ \A j \in DOMAIN stack[k].children : NumberRemains(stack[k].children[j])
    PROVE  /\ NoneForgotten'
           /\ \A k \in DOMAIN stack : \A j \in DOMAIN stack'[k].children :
                WrittenNext(stack'[k].children[j])
<1>1. FilesRemain /\ Names' = Names /\ files' = files
  BY DEF FilesRemain, Names
<1>2. ASSUME NEW n \in Names, Awaited(n) PROVE Awaited(n)'
  <2>1. PICK k \in DOMAIN stack : \E j \in DOMAIN stack[k].children :
           numbers[stack[k].children[j].id] = n
    BY <1>2 DEF Awaited, FileOf
  <2>2. PICK j \in DOMAIN stack[k].children : numbers[stack[k].children[j].id] = n
    BY <2>1
  <2>3. /\ k \in DOMAIN stack' /\ j \in DOMAIN stack'[k].children
        /\ numbers'[stack'[k].children[j].id] = n
    BY <2>2 DEF NumberRemains
  <2> QED BY <2>3 DEF Awaited, FileOf
<1>3. \A n \in Names : (Linked(n) => Linked(n)') /\ (Orphaned(n) => Orphaned(n)')
  BY <1>1 DEF Linked, Orphaned
<1>4. NoneForgotten'
  BY <1>1, <1>2, <1>3 DEF LinksInv, NoneForgotten
<1>5. ASSUME NEW k \in DOMAIN stack
      PROVE  \A j \in DOMAIN stack'[k].children : WrittenNext(stack'[k].children[j])
  <2>1. Gathered(stack[k])
    BY DEF LinksInv, ChildrenWritten
  <2>2. \A i \in DOMAIN stack[k].children : WrittenNext(stack[k].children[i])
    BY <1>1, <2>1, GatheredStays
  <2> QED BY <2>2
<1> QED BY <1>4, <1>5

(* The children of a call are of the quarters of its Region.               *)
LEMMA ChildFacts ==
    ASSUME IInv, LinksInv, stack # << >>, NEW j \in DOMAIN Top.children
    PROVE  /\ Top.next # 0 /\ Written(Top.children[j]) /\ ~ IsRoot(Top.children[j])
           /\ Front(Top.children[j].id) = Top.region.id
<1>1. Len(stack) \in DOMAIN stack /\ Top = stack[Len(stack)]
  BY StackFacts
<1>2. Gathered(Top) /\ Top.region.id \in Seq(Quadrants) /\ Top.next \in 0..Done
  BY <1>1, StackFacts DEF LinksInv, ChildrenWritten
<1>3. PICK q \in Quadrants : q < Top.next /\ Top.children[j] = Child(Top.region, q)
  BY <1>2 DEF Gathered, AskedBy
<1>4. Top.next # 0
  BY <1>2, <1>3 DEF Quadrants, Done
<1> QED BY <1>2, <1>3, <1>4, ChildIsDeeper DEF Gathered

(* The Region with data gets the next number, the root the first.          *)
LEMMA NumberLinks ==
    ASSUME IInv, LinksInv, stack # << >>, Top.next = 0,
           count' = count + 1,
           numbers' = [i \in DOMAIN numbers \cup {Top.region.id} |->
                         IF i = Top.region.id THEN count' ELSE numbers[i]],
           stack' = [stack EXCEPT ![Len(stack)].next = 1],
           UNCHANGED <<files, task>>
    PROVE  LinksInv'
<1> DEFINE n == Len(stack)
<1> PICK Bs, Kids : stack \in Seq(Calls(Bs, Kids))
  BY DEF IInv, Shape
<1>1. /\ DOMAIN stack = 1..n /\ n \in Nat /\ n >= 1 /\ Top = stack[n] /\ n \in DOMAIN stack
      /\ stack[n] \in Calls(Bs, Kids)
  BY StackFacts
<1>2. /\ DOMAIN stack' = DOMAIN stack
      /\ \A k \in DOMAIN stack : k # n => stack'[k] = stack[k]
      /\ stack'[n] = [stack[n] EXCEPT !.next = 1]
  BY <1>1
<1>3. /\ stack'[n].region = stack[n].region /\ stack'[n].children = stack[n].children
      /\ stack'[n].next = 1
  BY <1>1, <1>2 DEF Calls
<1>4. \A k \in DOMAIN stack : /\ stack'[k].region = stack[k].region
                              /\ stack'[k].children = stack[k].children
                              /\ k # n => stack'[k] = stack[k]
  BY <1>2, <1>3
<1>5. \A k \in DOMAIN stack : k # n => k < n /\ stack[k].next \in Quadrants
  <2>1. \A k \in DOMAIN stack : k < n => stack[k].next \in Quadrants
    BY StackFacts
  <2> HIDE DEF n
  <2> QED BY <1>1, <2>1
<1>6. ASSUME NEW i \in DOMAIN numbers, i # Top.region.id
      PROVE  i \in DOMAIN numbers' /\ numbers'[i] = numbers[i]
  BY <1>6
<1>7. \A k \in DOMAIN stack : \A j \in DOMAIN stack[k].children :
         NumberRemains(stack[k].children[j])
  <2> TAKE k \in DOMAIN stack
  <2> TAKE j \in DOMAIN stack[k].children
  <2>1. stack[k].children[j].id # Top.region.id
    BY ChildrenAreOthers
  <2>2. stack[k].children[j].id \in DOMAIN numbers
    BY DEF LinksInv, ChildrenWritten, Gathered, Written
  <2> QED BY <1>6, <2>1, <2>2 DEF NumberRemains
<1>8. /\ NoneForgotten'
      /\ \A k \in DOMAIN stack : \A j \in DOMAIN stack'[k].children :
           WrittenNext(stack'[k].children[j])
  BY <1>2, <1>4, <1>7, SameCalls
<1> HIDE DEF n
<1>9. Descent'
  <2> SUFFICES ASSUME NEW k \in DOMAIN stack, k > 1
               PROVE  stack'[k].region = Child(stack'[k - 1].region, stack'[k - 1].next)
    BY <1>2 DEF Descent
  <2>1. k - 1 \in DOMAIN stack /\ k - 1 # n
    BY <1>1
  <2>2. stack[k].region = Child(stack[k - 1].region, stack[k - 1].next)
    BY DEF LinksInv, Descent
  <2> QED BY <1>4, <2>1, <2>2
<1>10. ChildrenWritten'
  <2>1. ASSUME NEW k \in DOMAIN stack
        PROVE  /\ IsList(stack'[k].children)
               /\ \A j \in DOMAIN stack'[k].children : AskedBy(stack'[k], stack'[k].children[j])
    <3>1. Gathered(stack[k])
      BY DEF LinksInv, ChildrenWritten
    <3>2. CASE k # n
      BY <1>4, <3>1, <3>2 DEF Gathered
    <3>3. CASE k = n
      <4>1. DOMAIN stack[n].children = {}
        BY <1>1, ChildFacts
      <4> QED BY <1>3, <3>1, <3>3, <4>1 DEF Gathered
    <3> QED BY <3>2, <3>3
  <2>2. ASSUME NEW k \in DOMAIN stack'
        PROVE  /\ IsList(stack'[k].children)
               /\ \A j \in DOMAIN stack'[k].children :
                    AskedBy(stack'[k], stack'[k].children[j]) /\ WrittenNext(stack'[k].children[j])
    <3>1. k \in DOMAIN stack
      BY <1>2
    <3> QED BY <1>8, <2>1, <3>1
  <2> QED BY <2>2 DEF ChildrenWritten, Gathered, Written, FileOf, WrittenNext
<1> USE DEF RefusedKnown
<1>11. CASE n = 1
  <2>1. 1 \in DOMAIN stack /\ stack[1].next = 0 /\ stack[1].region = Top.region
    BY <1>1, <1>11
  <2>2. count = 0
    BY <2>1 DEF LinksInv, RootIsFirst
  <2>3. numbers'[stack'[1].region.id] = 1
    BY <1>4, <2>1, <2>2
  <2>4. stack'[1].next = 1
    BY <1>3, <1>11
  <2> QED BY <1>8, <1>9, <1>10, <2>3, <2>4, FilesStayFit DEF LinksInv, RootIsFirst, NumberOf
<1>12. CASE n # 1
  <2>1. 1 \in DOMAIN stack /\ stack'[1] = stack[1] /\ stack[1].next \in Quadrants
    BY <1>1, <1>4, <1>5, <1>12
  <2>2. 1 \in Numbered /\ stack'[1].next # 0
    BY <2>1 DEF Numbered, Quadrants
  <2>3. stack[1].region.id \in DOMAIN numbers /\ numbers[stack[1].region.id] = 1
    BY <2>2 DEF LinksInv, RootIsFirst, IInv, NumbersWait, NumberOf
  <2>4. Len(stack[1].region.id) = 0 /\ Len(Top.region.id) = n - 1
    BY <1>1, <2>1, StackFacts
  <2>5. stack[1].region.id # Top.region.id
    BY <1>1, <1>12, <2>4
  <2>6. numbers'[stack'[1].region.id] = 1
    BY <1>6, <2>1, <2>3, <2>5
  <2> QED BY <1>8, <1>9, <1>10, <2>2, <2>6, FilesStayFit DEF LinksInv, RootIsFirst, NumberOf
<1> QED BY <1>11, <1>12

LEMMA RecurseLinks == ASSUME IInv, LinksInv, Recurse PROVE LinksInv'
<1> DEFINE n == Len(stack)
           c == Call(Child(Top.region, Top.next))
<1>1. /\ stack # << >> /\ Top.next \in Quadrants /\ stack' = Append(stack, c)
      /\ UNCHANGED <<numbers, count, files, task>>
  BY DEF Recurse
<1>2. DOMAIN stack = 1..n /\ n \in Nat /\ n >= 1 /\ Top = stack[n]
  BY <1>1, StackFacts
<1>3. IsList(stack)
  BY DEF IsList, IInv, Shape
<1>4. c.region = Child(Top.region, Top.next) /\ c.next = 0 /\ c.children = << >>
  BY DEF Call
<1> HIDE DEF c
<1>5. /\ DOMAIN stack' = 1..(n + 1) /\ stack'[n + 1] = c
      /\ \A k \in 1..n : stack'[k] = stack[k]
  BY <1>1, <1>3, ListAppend
<1> HIDE DEF n
<1>6. \A k \in DOMAIN stack : \A j \in DOMAIN stack[k].children :
         NumberRemains(stack[k].children[j])
  BY <1>1 DEF NumberRemains, LinksInv, ChildrenWritten, Gathered, Written
<1>7. DOMAIN stack \subseteq DOMAIN stack'
  BY <1>2, <1>5
<1>8. /\ NoneForgotten'
      /\ \A k \in DOMAIN stack : \A j \in DOMAIN stack'[k].children :
           WrittenNext(stack'[k].children[j])
  BY <1>1, <1>2, <1>5, <1>6, <1>7, SameCalls
<1>9. Descent'
  <2> SUFFICES ASSUME NEW k \in DOMAIN stack', k > 1
               PROVE  stack'[k].region = Child(stack'[k - 1].region, stack'[k - 1].next)
    BY DEF Descent
  <2>1. CASE k = n + 1
    <3>1. k - 1 = n /\ n \in 1..n
      BY <1>2, <2>1
    <3>2. stack'[k] = c /\ stack'[k - 1] = Top
      BY <1>2, <1>5, <2>1, <3>1
    <3> QED BY <1>4, <3>2
  <2>2. CASE k # n + 1
    <3>1. k \in 1..n /\ k - 1 \in 1..n
      BY <1>2, <1>5, <2>2
    <3>2. stack[k].region = Child(stack[k - 1].region, stack[k - 1].next)
      BY <1>2, <3>1 DEF LinksInv, Descent
    <3> QED BY <1>5, <3>1, <3>2
  <2> QED BY <2>1, <2>2
<1>10. ChildrenWritten'
  <2>1. ASSUME NEW k \in DOMAIN stack'
        PROVE  /\ IsList(stack'[k].children)
               /\ \A j \in DOMAIN stack'[k].children :
                    AskedBy(stack'[k], stack'[k].children[j]) /\ WrittenNext(stack'[k].children[j])
    <3>1. CASE k \in DOMAIN stack
      <4>1. stack'[k] = stack[k] /\ Gathered(stack[k])
        BY <1>2, <1>5, <3>1 DEF LinksInv, ChildrenWritten
      <4> QED BY <1>8, <3>1, <4>1 DEF Gathered
    <3>2. CASE k \notin DOMAIN stack
      <4>1. stack'[k].children = << >>
        <5>1. k = n + 1
          BY <1>2, <1>5, <3>2
        <5> QED BY <1>4, <1>5, <5>1
      <4>2. IsList(<< >>) /\ DOMAIN << >> = {}
        <5>1. << >> \in Seq({})
          OBVIOUS
        <5> QED BY <5>1 DEF IsList
      <4> QED BY <4>1, <4>2
    <3> QED BY <3>1, <3>2
  <2> QED BY <2>1 DEF ChildrenWritten, Gathered, Written, FileOf, WrittenNext
<1>11. 1 \in DOMAIN stack /\ stack'[1] = stack[1]
  BY <1>2, <1>5
<1>12. stack[1].next # 0
  <2>1. n = 1 => stack[1].next \in Quadrants
    BY <1>1, <1>2
  <2>2. n # 1 => stack[1].next \in Quadrants
    BY <1>1, <1>2, <1>11, StackFacts DEF n
  <2> QED BY <2>1, <2>2 DEF Quadrants
<1>13. NumberOf(1)' = NumberOf(1) /\ 1 \in Numbered
  BY <1>1, <1>11, <1>12 DEF NumberOf, Numbered
<1>14. /\ LinksFit'
       /\ \A m \in Names' :
            files'[m].root = RootFile' /\ (IsRoot(files'[m].region) => m = RootFile')
  BY <1>1, FilesStayFit
<1>15. RootIsFirst'
  BY <1>11, <1>12, <1>13, <1>14 DEF RootIsFirst, LinksInv
<1> QED BY <1>1, <1>8, <1>9, <1>10, <1>14, <1>15 DEF LinksInv, RefusedKnown

(* A call that returns without a file takes its children's with it, if it  *)
(* had any, and is then one of those that were refused.                    *)
LEMMA LeaveLinks ==
    ASSUME IInv, LinksInv, stack # << >>, NEW b, ~ b, Return(b),
           UNCHANGED <<numbers, count, files>>, task'.name = task.name,
           RefusedKnown', task.refused \subseteq task'.refused,
           DOMAIN Top.children = {} \/ Top.region \in task'.refused
    PROVE  LinksInv'
<1>1. FilesRemain /\ Names' = Names /\ files' = files
  BY DEF FilesRemain, Names
<1>2. /\ Descent' /\ ChildrenWritten'
      /\ 1 \in DOMAIN stack' /\ stack'[1].next = 0 => count' = 0
      /\ 1 \in Numbered' => NumberOf(1)' = 1
  BY <1>1, ReturnLinks
<1>3. /\ LinksFit'
      /\ \A n \in Names' :
           files'[n].root = RootFile' /\ (IsRoot(files'[n].region) => n = RootFile')
  BY FilesStayFit
<1>4. \A n \in Names : (Linked(n) => Linked(n)') /\ (Orphaned(n) => Orphaned(n)')
  BY <1>1 DEF Linked, Orphaned
<1>5. ASSUME NEW n \in Names, Awaited(n) PROVE Awaited(n)' \/ Orphaned(n)'
  <2>1. CASE \E j \in DOMAIN Top.children : FileOf(Top.children[j]) = n
    <3>1. PICK j \in DOMAIN Top.children : FileOf(Top.children[j]) = n
      BY <2>1
    <3>2. Written(Top.children[j]) /\ Front(Top.children[j].id) = Top.region.id
      BY ChildFacts
    <3>3. files'[n].region = Top.children[j] /\ Top.region \in task'.refused
      BY <1>1, <3>1, <3>2 DEF Written
    <3> QED BY <3>2, <3>3 DEF Orphaned
  <2>2. CASE Awaited(n)'
    BY <2>2
  <2> QED BY <1>5, <2>1, <2>2, ReturnAwaited
<1>6. NoneForgotten'
  BY <1>1, <1>4, <1>5 DEF LinksInv, NoneForgotten
<1> QED BY <1>2, <1>3, <1>6 DEF LinksInv, RootIsFirst

LEMMA HasDataLinks == ASSUME IInv, LinksInv, HasData PROVE LinksInv'
<1>1. stack # << >> /\ Top.next = 0 /\ UNCHANGED files
  BY DEF HasData
<1>2. DOMAIN Top.children = {}
  BY <1>1, ChildFacts
<1>3. RefusedKnown'
  BY DEF HasData, LinksInv, RefusedKnown
<1>4. CASE /\ Return(FALSE) /\ UNCHANGED <<numbers, count>>
           /\ task'.name = task.name /\ task.refused \subseteq task'.refused
  <2> DEFINE b == FALSE
  <2>1. ~ b /\ Return(b)
    BY <1>4
  <2> HIDE DEF b
  <2> QED BY <1>1, <1>2, <1>3, <1>4, <2>1, LeaveLinks
<1>5. CASE /\ count' = count + 1
           /\ numbers' = [i \in DOMAIN numbers \cup {Top.region.id} |->
                            IF i = Top.region.id THEN count' ELSE numbers[i]]
           /\ stack' = [stack EXCEPT ![Len(stack)].next = 1]
           /\ UNCHANGED task
  BY <1>1, <1>5, NumberLinks
<1>6. task' = task => task'.name = task.name /\ task.refused \subseteq task'.refused
  OBVIOUS
<1>7. CASE /\ Return(FALSE) /\ UNCHANGED <<numbers, count>>
           /\ task' = [task EXCEPT !.refused = @ \cup {Top.region}]
  <2>1. task'.name = task.name
    BY <1>7
  <2>2. task.refused \subseteq task'.refused
    BY <1>7 DEF LinksInv, RefusedKnown
  <2> QED BY <1>4, <1>7, <2>1, <2>2
<1> QED BY <1>4, <1>5, <1>6, <1>7 DEF HasData

(* A Region's file is written, with links to those of its children.        *)
LEMMA WriteLinks ==
    ASSUME IInv, LinksInv, stack # << >>, Top.next = Done,
           NEW name, name = RegionFilename(Top.region),
           files' = [n \in DOMAIN files \cup {name} |->
                       IF n = name THEN Document(Top.region) ELSE files[n]],
           Return(TRUE), UNCHANGED <<numbers, count, task>>
    PROVE  LinksInv'
<1> DEFINE r == Top.region
           doc == Document(r)
<1>1. /\ name \notin Names /\ Names' = Names \cup {name} /\ files'[name] = doc
      /\ \A n \in Names : files'[n] = files[n]
  BY NameIsNew DEF Names
<1>2. FilesRemain /\ RootFile' = RootFile
  BY <1>1 DEF FilesRemain, RootFile
<1>3. /\ doc.region = r /\ doc.root = RootFile
      /\ DOMAIN doc.links = DOMAIN Top.children
      /\ \A k \in DOMAIN Top.children :
           /\ doc.links[k].region = Top.children[k]
           /\ doc.links[k].href = RegionFilename(Top.children[k])
  BY DEF Document, RootFile
<1> HIDE DEF doc
<1>4. /\ Len(stack) \in DOMAIN stack /\ Top = stack[Len(stack)] /\ Len(stack) \in Nat
      /\ Len(stack) >= 1 /\ r.id \in Seq(Quadrants) /\ Len(r.id) = Len(stack) - 1
  <2>1. Len(stack) \in DOMAIN stack /\ Top = stack[Len(stack)] /\ Len(stack) >= 1
        /\ Len(stack) \in Nat
    BY StackFacts
  <2>2. /\ stack[Len(stack)].region.id \in Seq(Quadrants)
        /\ Len(stack[Len(stack)].region.id) = Len(stack) - 1
    BY <2>1, StackFacts
  <2> QED BY <2>1, <2>2
<1>5. Len(stack) \in Numbered /\ r.id \in DOMAIN numbers
  <2>1. Len(stack) \in Numbered
    BY <1>4 DEF Numbered, Done
  <2> QED BY <1>4, <2>1 DEF IInv, NumbersWait
<1>6. IsRoot(r) <=> Len(stack) = 1
  <2> HIDE DEF r
  <2>1. IsRoot(r) <=> Len(r.id) = 0
    <3> DEFINE s == r.id
    <3>1. s \in Seq(Quadrants)
      BY <1>4
    <3> HIDE DEF s
    <3>2. s = << >> <=> Len(s) = 0
      BY <3>1, EmptySeq
    <3> QED BY <3>2 DEF IsRoot, s
  <2> QED BY <1>4, <2>1
<1>7. ~ IsRoot(r) => name = numbers[r.id]
  BY DEF RegionFilename
<1>8. Len(stack) = 1 \/ WrittenNext(r)
  BY <1>1, <1>3, <1>5, <1>6, <1>7 DEF WrittenNext
<1>9. /\ Descent' /\ ChildrenWritten'
      /\ 1 \in DOMAIN stack' /\ stack'[1].next = 0 => count' = 0
      /\ 1 \in Numbered' => NumberOf(1)' = 1
  BY <1>2, <1>8, ReturnLinks
<1>10. ASSUME NEW k \in DOMAIN doc.links
       PROVE  /\ doc.links[k].href \in Names
              /\ files[doc.links[k].href].region = doc.links[k].region
              /\ Front(doc.links[k].region.id) = r.id
              /\ doc.links[k].href = FileOf(Top.children[k])
  <2>1. k \in DOMAIN Top.children
    BY <1>3
  <2>2. /\ Written(Top.children[k]) /\ ~ IsRoot(Top.children[k])
        /\ Front(Top.children[k].id) = r.id
    BY <2>1, ChildFacts
  <2>3. doc.links[k].href = FileOf(Top.children[k]) /\ doc.links[k].region = Top.children[k]
    BY <1>3, <2>1, <2>2 DEF RegionFilename, FileOf
  <2> QED BY <2>2, <2>3 DEF Written
<1>11. LinksFit'
  <2> SUFFICES ASSUME NEW n \in Names', NEW k \in DOMAIN files'[n].links
               PROVE  /\ files'[n].links[k].href \in Names'
                      /\ files'[files'[n].links[k].href].region = files'[n].links[k].region
                      /\ Front(files'[n].links[k].region.id) = files'[n].region.id
    BY DEF LinksFit
  <2>1. CASE n \in Names
    <3>1. files'[n] = files[n]
      BY <1>1, <2>1
    <3>2. /\ files[n].links[k].href \in Names
          /\ files[files[n].links[k].href].region = files[n].links[k].region
          /\ Front(files[n].links[k].region.id) = files[n].region.id
      BY <2>1, <3>1 DEF LinksInv, LinksFit
    <3> DEFINE link == files[n].links[k]
    <3>3. link.href \in Names' /\ files'[link.href] = files[link.href]
      BY <1>1, <3>2
    <3> QED BY <3>1, <3>2, <3>3
  <2>2. CASE n = name
    <3> DEFINE link == doc.links[k]
    <3>1. files'[n] = doc /\ k \in DOMAIN doc.links
      BY <1>1, <2>2
    <3>2. /\ link.href \in Names /\ files[link.href].region = link.region
          /\ Front(link.region.id) = r.id
      BY <1>10, <3>1
    <3>3. link.href \in Names' /\ files'[link.href] = files[link.href]
      BY <1>1, <3>2
    <3> QED BY <1>3, <3>1, <3>2, <3>3
  <2> QED BY <1>1, <2>1, <2>2
<1>12. IsRoot(r) => name = RootFile
  <2>1. CASE task.name # NoRootName
    BY <2>1 DEF RegionFilename, RootFile
  <2>2. CASE task.name = NoRootName
    <3>1. name = numbers[r.id]
      BY <2>2 DEF RegionFilename
    <3>2. Len(stack) = 1 => numbers[r.id] = 1
      BY <1>4, <1>5 DEF LinksInv, RootIsFirst, NumberOf
    <3> QED BY <1>6, <2>2, <3>1, <3>2 DEF RootFile
  <2> QED BY <2>1, <2>2
<1>13. \A n \in Names' :
         files'[n].root = RootFile' /\ (IsRoot(files'[n].region) => n = RootFile')
  BY <1>1, <1>2, <1>3, <1>12, ZenonT(40) DEF LinksInv, RootIsFirst
<1>14. ASSUME NEW n \in Names PROVE /\ Linked(n) => Linked(n)'
                                    /\ Orphaned(n) => Orphaned(n)'
                                    /\ Awaited(n) => Awaited(n)' \/ Linked(n)'
  <2>1. Linked(n) => Linked(n)'
    BY <1>1, ZenonT(40) DEF Linked
  <2>2. Orphaned(n) => Orphaned(n)'
    BY <1>1 DEF Orphaned
  <2>3. ASSUME NEW j \in DOMAIN Top.children, FileOf(Top.children[j]) = n
        PROVE  Linked(n)'
    <3>1. j \in DOMAIN files'[name].links /\ files'[name].links[j].href = n /\ name \in Names'
      BY <1>1, <1>3, <1>10, <2>3
    <3> QED BY <3>1 DEF Linked
  <2>4. Awaited(n) => Awaited(n)' \/ Linked(n)'
    <3> DEFINE b == TRUE
    <3>1. Return(b)
      OBVIOUS
    <3> HIDE DEF b
    <3> QED BY <2>3, <3>1, ReturnAwaited
  <2> QED BY <2>1, <2>2, <2>4
<1>15. IsRoot(files'[name].region) \/ Awaited(name)'
  <2>1. CASE Len(stack) = 1
    BY <1>1, <1>3, <1>6, <2>1
  <2>2. CASE Len(stack) > 1
    <3>1. name = numbers[r.id]
      <4>1. Len(stack) # 1
        BY <1>4, <2>2
      <4> QED BY ONLY <1>6, <1>7, <4>1
    <3>2. Awaited(name)'
      <4> HIDE DEF doc
      <4>1. UNCHANGED numbers
        OBVIOUS
      <4> QED BY ONLY IInv, LinksInv, stack # << >>, Return(TRUE), <2>2, <3>1, <4>1, ReturnAwaits
    <3> QED BY <3>2
  <2>3. Len(stack) = 1 \/ Len(stack) > 1
    <3> DEFINE n == Len(stack)
    <3>1. n \in Nat /\ n >= 1
      BY <1>4
    <3> HIDE DEF n
    <3>2. n = 1 \/ n > 1
      BY ONLY <3>1
    <3> QED BY <3>2 DEF n
  <2> QED BY <2>1, <2>2, <2>3
<1>16. NoneForgotten'
  <2> SUFFICES ASSUME NEW n \in Names'
               PROVE  IsRoot(files'[n].region) \/ Linked(n)' \/ Awaited(n)' \/ Orphaned(n)'
    BY DEF NoneForgotten
  <2>1. CASE n \in Names
    <3>1. files'[n] = files[n]
      BY <1>1, <2>1
    <3> QED BY <1>14, <2>1, <3>1 DEF LinksInv, NoneForgotten
  <2>2. CASE n = name
    BY <1>15, <2>2
  <2> QED BY <1>1, <2>1, <2>2
<1>17. RefusedKnown'
  BY DEF LinksInv, RefusedKnown
<1> QED BY <1>9, <1>11, <1>13, <1>16, <1>17 DEF LinksInv, RootIsFirst

LEMMA SaveKmlLinks == ASSUME IInv, LinksInv, SaveKml PROVE LinksInv'
<1>1. /\ stack # << >> /\ Top.next = Done
      /\ UNCHANGED <<numbers, count>>
  BY DEF SaveKml
<1>2. CASE /\ files' = [n \in DOMAIN files \cup {RegionFilename(Top.region)} |->
                          IF n = RegionFilename(Top.region) THEN Document(Top.region)
                                                            ELSE files[n]]
           /\ Return(TRUE) /\ UNCHANGED task
  BY <1>1, <1>2, WriteLinks
<1>3. CASE /\ Return(FALSE) /\ UNCHANGED files
           /\ task' = [task EXCEPT !.refused = @ \cup {Top.region}]
  <2>1. task'.name = task.name /\ RefusedKnown'
    BY <1>3 DEF LinksInv, RefusedKnown
  <2>2. task'.refused = task.refused \cup {Top.region}
    BY <1>3 DEF LinksInv, RefusedKnown
  <2> DEFINE b == FALSE
  <2>3. ~ b /\ Return(b)
    BY <1>3
  <2> HIDE DEF b
  <2> QED BY <1>1, <1>3, <2>1, <2>2, <2>3, LeaveLinks
<1> QED BY <1>2, <1>3 DEF SaveKml

LEMMA NextLinks == IInv /\ LinksInv /\ [Next]_vars => LinksInv'
<1> SUFFICES ASSUME IInv, LinksInv, [Next]_vars PROVE LinksInv'
  OBVIOUS
<1>1. ASSUME UNCHANGED <<stack, numbers, count, files, task>> PROVE LinksInv'
  BY <1>1 DEF LinksInv, Descent, ChildrenWritten, Gathered, AskedBy, Written, FileOf,
              RootIsFirst, RootFile, Numbered, NumberOf, LinksFit, NoneForgotten, Linked,
              Awaited, Orphaned, RefusedKnown, Names
<1>2. ASSUME NEW max \in MaxPers, RegionateAligned(max) PROVE LinksInv'
  <2>1. CASE UNCHANGED <<left, folders, stack, numbers, count, files, task>>
    BY <1>1, <2>1
  <2>2. CASE \E box : Start(list', box, TRUE, max, NoRootName)
    <3> DEFINE sorted == TRUE
               l == list'
    <3>1. PICK box : Start(l, box, sorted, max, NoRootName)
      BY <2>2
    <3> HIDE DEF sorted, l
    <3> QED BY <3>1, StartLinks
  <2> QED BY <1>2, <2>1, <2>2 DEF RegionateAligned
<1>3. ASSUME NEW max \in MaxPers, NEW box \in Regions, NEW name \in RootNames,
             Regionate(box, max, name)
      PROVE LinksInv'
  BY <1>3, StartLinks DEF Regionate
<1>4. CASE Walk
  BY <1>4, HasDataLinks, RecurseLinks, SaveKmlLinks DEF Walk
<1>5. CASE UNCHANGED vars
  BY <1>1, <1>5 DEF vars
<1> QED BY <1>2, <1>3, <1>4, <1>5 DEF Next

LEMMA LinksFollow == LinksInv => LinksMatchFiles
<1> SUFFICES ASSUME LinksInv PROVE LinksMatchFiles
  OBVIOUS
<1>1. Ended => \A n \in Names : ~ Awaited(n)
  BY DEF Ended, Awaited
<1> QED BY <1>1 DEF LinksInv, LinksFit, RootIsFirst, NoneForgotten, Linked, Orphaned, LinksMatchFiles

(* Whatever features there are and wherever, and whichever Regions are     *)
(* refused: every link that is written is to the file of its Region, which *)
(* is there already, and at the end every file is linked to by its         *)
(* parent's, or that one was refused, and links back to the root's.  The   *)
(* root's file has any name but one that the walk gives to another         *)
(* (RootNameAssumption): SetRootFilename does not check that.              *)
THEOREM LinksAreRight == Spec => []LinksMatchFiles
<1>1. Init => IInv /\ LinksInv
  BY InitIInv, InitLinks
<1>2. IInv /\ LinksInv /\ [Next]_vars => (IInv /\ LinksInv)'
  BY NextIInv, NextLinks
<1>3. IInv /\ LinksInv => LinksMatchFiles
  BY LinksFollow
<1> QED BY <1>1, <1>2, <1>3, PTL DEF Spec

-----------------------------------------------------------------------------
(* The lists.  A nonempty set of natural numbers has a smallest element.   *)
LEMMA SmallestNat ==
    ASSUME NEW T \in SUBSET Nat, T # {}
    PROVE  \E m \in T : \A n \in T : m <= n
<1> DEFINE R == OpToRel(<, Nat)
<1>1. \E m \in T : \A n \in T : ~ (<<n, m>> \in R)
  BY NatLessThanWellFounded, WFMin
<1>2. \A m, n \in T : ~ (<<n, m>> \in R) => m <= n
  BY DEF OpToRel
<1> QED BY <1>1, <1>2

(* Kept goes through the list once.                                        *)
KeptUpTo(l, S, n, g) ==
  g = [k \in 0..n |-> IF k = 0 THEN << >>
                     ELSE IF l[k] \in S THEN Append(g[k - 1], l[k]) ELSE g[k - 1]]

LEMMA KeptExists == ASSUME NEW l, NEW S, NEW n \in Nat PROVE \E g : KeptUpTo(l, S, n, g)
<1> DEFINE Is(g, m) == KeptUpTo(l, S, m, g)
           T == {m \in Nat : ~ \E g : Is(g, m)}
<1> SUFFICES T = {}
  OBVIOUS
<1> SUFFICES ASSUME T # {} PROVE FALSE
  OBVIOUS
<1>1. PICK m \in T : \A i \in T : m <= i
  BY SmallestNat
<1>2. CASE m = 0
  <2> DEFINE g == [k \in 0..0 |-> << >>]
  <2>1. Is(g, 0)
    BY DEF KeptUpTo
  <2> QED BY <1>1, <1>2, <2>1
<1>3. CASE m # 0
  <2>0. m \in Nat
    OBVIOUS
  <2>1. m - 1 \in Nat /\ m - 1 \notin T
    <3> HIDE DEF T
    <3> QED BY <1>1, <1>3, <2>0
  <2>2. PICK g : Is(g, m - 1)
    BY <2>1
  <2> DEFINE last == IF l[m] \in S THEN Append(g[m - 1], l[m]) ELSE g[m - 1]
             h == [k \in 0..m |-> IF k = m THEN last ELSE g[k]]
  <2>3. ASSUME NEW k \in 0..m
        PROVE  h[k] = IF k = 0 THEN << >>
                      ELSE IF l[k] \in S THEN Append(h[k - 1], l[k]) ELSE h[k - 1]
    <3>1. CASE k = m
      <4>1. h[k] = last /\ h[k - 1] = g[m - 1]
        BY <1>1, <1>3, <3>1
      <4> QED BY <1>3, <3>1, <4>1
    <3>2. CASE k # m
      <4>1. k \in 0..(m - 1) /\ h[k] = g[k]
        BY <1>1, <3>2
      <4>2. k # 0 => k - 1 \in 0..m /\ k - 1 # m
        BY <1>1
      <4>3. k # 0 => h[k - 1] = g[k - 1]
        BY <4>2
      <4>4. g[k] = IF k = 0 THEN << >>
                   ELSE IF l[k] \in S THEN Append(g[k - 1], l[k]) ELSE g[k - 1]
        BY <2>2, <4>1 DEF KeptUpTo
      <4> HIDE DEF h
      <4> QED BY <4>1, <4>3, <4>4
    <3> QED BY <3>1, <3>2
  <2>4. h = [k \in 0..m |-> h[k]]
    OBVIOUS
  <2> HIDE DEF h
  <2>5. Is(h, m)
    BY <2>3, <2>4 DEF KeptUpTo
  <2> QED BY <1>1, <2>5
<1> QED BY <1>2, <1>3

(* What is kept, and in which order: as it is in the list.                 *)
KeptOf(l, S, n, s) ==
  /\ Len(s) <= n
  /\ \A x \in Range(s) : x \in S /\ \E a \in 1..n : l[a] = x
  /\ \A a \in 1..n : l[a] \in S => l[a] \in Range(s)
  /\ \A i, j \in 1..Len(s) : i < j => \E a, b \in 1..n : a < b /\ l[a] = s[i] /\ l[b] = s[j]

LEMMA AppendRange ==
    ASSUME NEW T, NEW s \in Seq(T), NEW x \in T
    PROVE  /\ Append(s, x) \in Seq(T) /\ Len(Append(s, x)) = Len(s) + 1 /\ Len(s) \in Nat
           /\ Range(Append(s, x)) = Range(s) \cup {x}
           /\ \A i \in 1..Len(s) : Append(s, x)[i] = s[i] /\ s[i] \in Range(s)
           /\ Append(s, x)[Len(s) + 1] = x
<1>1. /\ Append(s, x) \in Seq(T) /\ Len(Append(s, x)) = Len(s) + 1 /\ Len(s) \in Nat
      /\ \A i \in 1..Len(s) : Append(s, x)[i] = s[i]
      /\ Append(s, x)[Len(s) + 1] = x
      /\ DOMAIN s = 1..Len(s) /\ DOMAIN Append(s, x) = 1..(Len(s) + 1)
  BY AppendProperties
<1> DEFINE t == Append(s, x)
           n == Len(s)
<1> HIDE DEF t, n
<1>2. /\ n \in Nat /\ DOMAIN s = 1..n /\ DOMAIN t = 1..(n + 1)
      /\ \A i \in 1..n : t[i] = s[i]
      /\ t[n + 1] = x
  BY <1>1 DEF t, n
<1>3. \A i \in 1..(n + 1) : i \in 1..n \/ i = n + 1
  BY <1>2
<1>4. n + 1 \in 1..(n + 1) /\ \A i \in 1..n : i \in 1..(n + 1)
  BY <1>2
<1>5. Range(t) = Range(s) \cup {x}
  BY <1>2, <1>3, <1>4 DEF Range
<1>6. \A i \in 1..n : s[i] \in Range(s)
  BY <1>2 DEF Range
<1> QED BY <1>1, <1>5, <1>6 DEF t, n

LEMMA KeptFacts ==
    ASSUME NEW T, NEW l \in Seq(T), NEW S
    PROVE  /\ Kept(l, S) \in Seq(T) /\ Len(Kept(l, S)) <= Len(l)
           /\ Range(Kept(l, S)) = Range(l) \cap S
           /\ \A i, j \in 1..Len(Kept(l, S)) : i < j =>
                \E a, b \in 1..Len(l) : a < b /\ l[a] = Kept(l, S)[i] /\ l[b] = Kept(l, S)[j]
<1> DEFINE N == Len(l)
           kept == CHOOSE g : KeptUpTo(l, S, N, g)
<1>1. N \in Nat /\ DOMAIN l = 1..N /\ \A k \in 1..N : l[k] \in T
  OBVIOUS
<1> HIDE DEF N
<1>2. \E g : KeptUpTo(l, S, N, g)
  BY <1>1, KeptExists
<1>3. KeptUpTo(l, S, N, kept)
  BY <1>2
<1>4. Kept(l, S) = kept[N]
  BY DEF Kept, KeptUpTo, N
<1> HIDE DEF kept
<1>5. /\ kept[0] = << >>
      /\ \A k \in 1..N :
           kept[k] = IF l[k] \in S THEN Append(kept[k - 1], l[k]) ELSE kept[k - 1]
  <2>1. \A k \in 0..N :
          kept[k] = IF k = 0 THEN << >>
                    ELSE IF l[k] \in S THEN Append(kept[k - 1], l[k]) ELSE kept[k - 1]
    BY <1>3 DEF KeptUpTo
  <2>2. 0 \in 0..N /\ \A k \in 1..N : k \in 0..N /\ k # 0
    BY <1>1
  <2> QED BY <2>1, <2>2
<1> DEFINE P(k) == kept[k] \in Seq(T) /\ KeptOf(l, S, k, kept[k])
           Bad == {k \in 0..N : ~ P(k)}
<1>6. P(0)
  <2>1. << >> \in Seq(T) /\ Len(<< >>) = 0 /\ Range(<< >>) = {}
    BY DEF Range
  <2> QED BY <1>5, <2>1 DEF KeptOf
<1>7. ASSUME NEW k \in 1..N, P(k - 1) PROVE P(k)
  <2> DEFINE s == kept[k - 1]
             t == kept[k]
             x == l[k]
  <2>0. k \in Nat /\ k >= 1 /\ k - 1 \in Nat /\ x \in T
    BY <1>1
  <2>1. s \in Seq(T) /\ KeptOf(l, S, k - 1, s) /\ t = IF x \in S THEN Append(s, x) ELSE s
    BY <1>5, <1>7
  <2>2. \A a \in 1..k : a \in 1..(k - 1) \/ a = k
    BY <2>0
  <2>3. k \in 1..k /\ \A a \in 1..(k - 1) : a \in 1..k /\ a < k
    BY <2>0
  <2> HIDE DEF s, t
  <2>4. CASE x \notin S
    <3>1. t = s
      BY <2>1, <2>4
    <3>2. Len(s) \in Nat
      BY <2>1
    <3>3. Len(s) <= k
      BY <2>0, <2>1, <3>2 DEF KeptOf
    <3>4. KeptOf(l, S, k, s)
      BY <2>1, <2>2, <2>3, <2>4, <3>3 DEF KeptOf
    <3> QED BY <2>1, <3>1, <3>4 DEF t
  <2>5. CASE x \in S
    <3>1. /\ t \in Seq(T) /\ Len(t) = Len(s) + 1 /\ Len(s) \in Nat
          /\ Range(t) = Range(s) \cup {x}
          /\ \A i \in 1..Len(s) : t[i] = s[i] /\ s[i] \in Range(s)
          /\ t[Len(s) + 1] = x
      BY <2>0, <2>1, <2>5, AppendRange
    <3>2. Len(t) <= k
      BY <2>0, <2>1, <3>1 DEF KeptOf
    <3>3. \A y \in Range(t) : y \in S /\ \E a \in 1..k : l[a] = y
      BY <2>1, <2>3, <2>5, <3>1 DEF KeptOf
    <3>4. \A a \in 1..k : l[a] \in S => l[a] \in Range(t)
      BY <2>1, <2>2, <3>1 DEF KeptOf
    <3>5. ASSUME NEW i \in 1..Len(t), NEW j \in 1..Len(t), i < j
          PROVE  \E a, b \in 1..k : a < b /\ l[a] = t[i] /\ l[b] = t[j]
      <4>1. i \in 1..Len(s) /\ (j \in 1..Len(s) \/ j = Len(s) + 1)
        BY <3>1, <3>5
      <4>2. CASE j \in 1..Len(s)
        <5>1. PICK a \in 1..(k - 1), b \in 1..(k - 1) : a < b /\ l[a] = s[i] /\ l[b] = s[j]
          BY <2>1, <3>5, <4>1, <4>2 DEF KeptOf
        <5> QED BY <2>3, <3>1, <4>1, <4>2, <5>1
      <4>3. CASE j = Len(s) + 1
        <5>1. PICK a \in 1..(k - 1) : l[a] = s[i]
          BY <2>1, <3>1, <4>1 DEF KeptOf
        <5>2. a < k /\ a \in 1..k /\ k \in 1..k /\ l[a] = t[i] /\ l[k] = t[j]
          BY <2>3, <3>1, <4>1, <4>3, <5>1
        <5> QED BY <5>2
      <4> QED BY <4>1, <4>2, <4>3
    <3>6. KeptOf(l, S, k, t)
      BY <3>2, <3>3, <3>4, <3>5 DEF KeptOf
    <3> QED BY <3>1, <3>6 DEF t
  <2> QED BY <2>4, <2>5
<1> HIDE DEF P
<1>8. Bad = {}
  <2> SUFFICES ASSUME Bad # {} PROVE FALSE
    OBVIOUS
  <2>1. Bad \in SUBSET Nat
    BY <1>1
  <2>2. PICK m \in Bad : \A i \in Bad : m <= i
    BY <2>1, SmallestNat
  <2>3. m \in 0..N /\ ~ P(m)
    OBVIOUS
  <2>4. m # 0
    BY <1>6, <2>3
  <2>5. m \in 1..N /\ m - 1 \in 0..N
    BY <1>1, <2>3, <2>4
  <2>6. m - 1 \notin Bad
    <3> HIDE DEF Bad
    <3> QED BY <2>2, <2>5
  <2>7. P(m - 1)
    BY <2>5, <2>6
  <2> QED BY <1>7, <2>3, <2>5, <2>7
<1>9. P(N)
  BY <1>1, <1>8
<1> DEFINE s == Kept(l, S)
<1>10. s \in Seq(T) /\ KeptOf(l, S, N, s)
  BY <1>4, <1>9 DEF P
<1> HIDE DEF s
<1>11. Range(l) = {l[a] : a \in 1..N}
  BY <1>1 DEF Range
<1>12. Range(s) = Range(l) \cap S
  BY <1>10, <1>11 DEF KeptOf
<1>13. Len(s) <= N /\ \A i, j \in 1..Len(s) : i < j => \E a, b \in 1..N : a < b /\ l[a] = s[i] /\ l[b] = s[j]
  BY <1>10 DEF KeptOf
<1> QED BY <1>10, <1>12, <1>13 DEF s, N

(* The highest score first.                                                *)
Falling(s) == \A i, j \in 1..Len(s) : i < j => Score[s[i]] >= Score[s[j]]

LEMMA ScoreType == \A f \in Features : Score[f] \in Int
BY RegionatorAssumption

LEMMA ListFacts ==
    ASSUME NEW T, NEW s \in Seq(T)
    PROVE  /\ Range(s) = {s[i] : i \in 1..Len(s)} /\ Range(s) \subseteq T
           /\ Len(s) \in Nat /\ DOMAIN s = 1..Len(s)
           /\ \A i \in 1..Len(s) : s[i] \in Range(s) /\ s[i] \in T
<1>1. Len(s) \in Nat /\ DOMAIN s = 1..Len(s) /\ \A i \in 1..Len(s) : s[i] \in T
  OBVIOUS
<1>2. Range(s) = {s[i] : i \in 1..Len(s)}
  BY <1>1 DEF Range
<1> DEFINE r == Range(s)
           n == Len(s)
<1> HIDE DEF r, n
<1>3. r = {s[i] : i \in 1..n} /\ \A i \in 1..n : s[i] \in T
  BY ONLY <1>1, <1>2 DEF r, n
<1>4. r \subseteq T /\ \A i \in 1..n : s[i] \in r /\ s[i] \in T
  BY ONLY <1>3
<1> QED BY <1>1, <1>2, <1>4 DEF r, n

LEMMA KeptFalls ==
    ASSUME NEW l \in Seq(Features), NEW S, Falling(l) PROVE Falling(Kept(l, S))
<1> DEFINE s == Kept(l, S)
<1> SUFFICES ASSUME NEW i \in 1..Len(s), NEW j \in 1..Len(s), i < j
             PROVE  Score[s[i]] >= Score[s[j]]
  BY DEF Falling
<1>1. PICK a \in 1..Len(l), b \in 1..Len(l) : a < b /\ l[a] = s[i] /\ l[b] = s[j]
  BY KeptFacts
<1>2. Score[l[a]] >= Score[l[b]]
  BY <1>1 DEF Falling
<1> QED BY <1>1, <1>2

LEMMA ConcatFalls ==
    ASSUME NEW s \in Seq(Features), NEW t \in Seq(Features), Falling(s), Falling(t),
           \A f \in Range(s), g \in Range(t) : Score[f] >= Score[g]
    PROVE  Falling(s \o t)
<1> DEFINE m == Len(s)
           n == Len(t)
           u == s \o t
<1>1. /\ m \in Nat /\ n \in Nat /\ Len(u) = m + n
      /\ \A i \in 1..(m + n) : u[i] = IF i <= m THEN s[i] ELSE t[i - m]
  BY ConcatProperties
<1>2. /\ \A i \in 1..m : s[i] \in Range(s)
      /\ \A i \in 1..n : t[i] \in Range(t)
  <2>1. \A i \in 1..Len(s) : s[i] \in Range(s)
    BY ListFacts
  <2>2. \A i \in 1..Len(t) : t[i] \in Range(t)
    BY ListFacts
  <2> QED BY <2>1, <2>2
<1>3. /\ \A i, j \in 1..m : i < j => Score[s[i]] >= Score[s[j]]
      /\ \A i, j \in 1..n : i < j => Score[t[i]] >= Score[t[j]]
  BY DEF Falling
<1> HIDE DEF m, n, u
<1>4. ASSUME NEW i \in 1..(m + n), NEW j \in 1..(m + n), i < j
      PROVE  Score[u[i]] >= Score[u[j]]
  <2>1. CASE j <= m
    <3>1. i \in 1..m /\ j \in 1..m /\ i <= m
      BY <1>1, <1>4, <2>1
    <3> QED BY <1>1, <1>3, <1>4, <2>1, <3>1
  <2>2. CASE i > m
    <3>1. i - m \in 1..n /\ j - m \in 1..n /\ i - m < j - m /\ ~ (i <= m) /\ ~ (j <= m)
      BY <1>1, <1>4, <2>2
    <3>2. u[i] = t[i - m] /\ u[j] = t[j - m]
      BY <1>1, <3>1
    <3> QED BY <1>3, <3>1, <3>2
  <2>3. CASE i <= m /\ ~ (j <= m)
    <3>1. i \in 1..m /\ j - m \in 1..n
      BY <1>1, <1>4, <2>3
    <3>2. u[i] = s[i] /\ u[j] = t[j - m]
      BY <1>1, <2>3
    <3> QED BY <1>2, <3>1, <3>2
  <2>4. j <= m \/ i > m \/ (i <= m /\ ~ (j <= m))
    BY <1>1
  <2> QED BY <2>1, <2>2, <2>3, <2>4
<1>5. Len(u) = m + n
  BY <1>1
<1>6. Falling(u)
  BY <1>4, <1>5 DEF Falling
<1> QED BY <1>6 DEF u

LEMMA InsertedFacts ==
    ASSUME NEW s \in Seq(Features), NEW f \in Features, Falling(s)
    PROVE  /\ Inserted(s, f) \in Seq(Features) /\ Falling(Inserted(s, f))
           /\ Range(Inserted(s, f)) = Range(s) \cup {f}
<1> DEFINE before == {g \in Features : Score[g] >= Score[f]}
           u == Kept(s, before)
           w == Append(u, f)
           v == Kept(s, Features \ before)
<1>1. /\ u \in Seq(Features) /\ Range(u) = Range(s) \cap before /\ Falling(u)
      /\ v \in Seq(Features) /\ Range(v) = Range(s) \cap (Features \ before) /\ Falling(v)
  BY KeptFacts, KeptFalls
<1>2. Range(s) \subseteq Features
  BY ListFacts
<1>3. /\ \A g \in before : Score[g] >= Score[f] /\ Score[g] \in Int
      /\ \A g \in Features \ before : Score[f] >= Score[g] /\ Score[g] \in Int
      /\ before \subseteq Features /\ Score[f] \in Int
  BY ScoreType
<1>4. Inserted(s, f) = w \o v
  BY DEF Inserted
<1> HIDE DEF u, v, before
<1>5. /\ w \in Seq(Features) /\ Range(w) = Range(u) \cup {f}
  BY <1>1, AppendRange
<1>6. Falling(w)
  <2>1. <<f>> \in Seq(Features) /\ Range(<<f>>) = {f} /\ Len(<<f>>) = 1
    <3>1. <<f>> \in Seq(Features) /\ Len(<<f>>) = 1 /\ <<f>>[1] = f
      OBVIOUS
    <3>2. Range(<<f>>) = {<<f>>[i] : i \in 1..1}
      BY <3>1, ListFacts
    <3>3. 1..1 = {1}
      OBVIOUS
    <3>4. {<<f>>[i] : i \in {1}} = {<<f>>[1]}
      OBVIOUS
    <3> QED BY ONLY <3>1, <3>2, <3>3, <3>4
  <2>2. Falling(<<f>>)
    BY <2>1 DEF Falling
  <2>3. \A g \in Range(u), h \in Range(<<f>>) : Score[g] >= Score[h]
    BY <1>1, <1>3, <2>1
  <2>4. w = u \o <<f>>
    BY <1>1, AppendIsConcat
  <2> QED BY <1>1, <2>1, <2>2, <2>3, <2>4, ConcatFalls
<1>7. \A g \in Range(w), h \in Range(v) : Score[g] >= Score[h]
  <2>1. ASSUME NEW g \in Range(w), NEW h \in Range(v) PROVE Score[g] >= Score[h]
    <3>1. Score[g] >= Score[f] /\ Score[g] \in Int
      BY <1>1, <1>3, <1>5
    <3>2. Score[f] >= Score[h] /\ Score[h] \in Int
      BY <1>1, <1>3
    <3> QED BY <1>3, <3>1, <3>2
  <2> QED BY <2>1
<1> HIDE DEF w
<1>8. w \o v \in Seq(Features) /\ Range(w \o v) = Range(w) \cup Range(v)
  BY <1>1, <1>5, ConcatProperties, RangeConcatenation
<1>9. Falling(w \o v)
  BY <1>1, <1>5, <1>6, <1>7, ConcatFalls
<1>10. Range(w) \cup Range(v) = Range(s) \cup {f}
  BY <1>1, <1>2, <1>5
<1> QED BY <1>4, <1>8, <1>9, <1>10

SortedUpTo(l, n, g) ==
  g = [k \in 0..n |-> IF k = 0 THEN << >> ELSE Inserted(g[k - 1], l[k])]

LEMMA SortedExists == ASSUME NEW l, NEW n \in Nat PROVE \E g : SortedUpTo(l, n, g)
<1> DEFINE Is(g, m) == SortedUpTo(l, m, g)
           T == {m \in Nat : ~ \E g : Is(g, m)}
<1> SUFFICES T = {}
  OBVIOUS
<1> SUFFICES ASSUME T # {} PROVE FALSE
  OBVIOUS
<1>1. PICK m \in T : \A i \in T : m <= i
  BY SmallestNat
<1>2. CASE m = 0
  <2> DEFINE g == [k \in 0..0 |-> << >>]
  <2>1. Is(g, 0)
    BY DEF SortedUpTo
  <2> QED BY <1>1, <1>2, <2>1
<1>3. CASE m # 0
  <2>0. m \in Nat
    OBVIOUS
  <2>1. m - 1 \in Nat /\ m - 1 \notin T
    <3> HIDE DEF T
    <3> QED BY <1>1, <1>3, <2>0
  <2>2. PICK g : Is(g, m - 1)
    BY <2>1
  <2> DEFINE h == [k \in 0..m |-> IF k = m THEN Inserted(g[m - 1], l[m]) ELSE g[k]]
  <2>3. ASSUME NEW k \in 0..m
        PROVE  h[k] = IF k = 0 THEN << >> ELSE Inserted(h[k - 1], l[k])
    <3>1. CASE k = m
      <4>1. h[k] = Inserted(g[m - 1], l[m]) /\ h[k - 1] = g[m - 1]
        BY <1>1, <1>3, <3>1
      <4> QED BY <1>3, <3>1, <4>1
    <3>2. CASE k # m
      <4>1. k \in 0..(m - 1) /\ h[k] = g[k]
        BY <1>1, <3>2
      <4>2. k # 0 => k - 1 \in 0..m /\ k - 1 # m
        BY <1>1
      <4>3. k # 0 => h[k - 1] = g[k - 1]
        BY <4>2
      <4>4. g[k] = IF k = 0 THEN << >> ELSE Inserted(g[k - 1], l[k])
        BY <2>2, <4>1 DEF SortedUpTo
      <4> HIDE DEF h
      <4> QED BY <4>1, <4>3, <4>4
    <3> QED BY <3>1, <3>2
  <2>4. h = [k \in 0..m |-> h[k]]
    OBVIOUS
  <2> HIDE DEF h
  <2>5. Is(h, m)
    BY <2>3, <2>4 DEF SortedUpTo
  <2> QED BY <1>1, <2>5
<1> QED BY <1>2, <1>3

LEMMA SortFacts ==
    ASSUME NEW l \in Seq(Features)
    PROVE  /\ Sort(l) \in Seq(Features) /\ Falling(Sort(l))
           /\ Range(Sort(l)) = Range(l)
<1> DEFINE N == Len(l)
           sorted == CHOOSE g : SortedUpTo(l, N, g)
<1>1. N \in Nat /\ DOMAIN l = 1..N /\ \A k \in 1..N : l[k] \in Features
  OBVIOUS
<1> HIDE DEF N
<1>2. \E g : SortedUpTo(l, N, g)
  BY <1>1, SortedExists
<1>3. SortedUpTo(l, N, sorted)
  BY <1>2
<1>4. Sort(l) = sorted[N]
  BY DEF Sort, SortedUpTo, N
<1> HIDE DEF sorted
<1>5. /\ sorted[0] = << >>
      /\ \A k \in 1..N : sorted[k] = Inserted(sorted[k - 1], l[k])
  <2>1. \A k \in 0..N :
          sorted[k] = IF k = 0 THEN << >> ELSE Inserted(sorted[k - 1], l[k])
    BY <1>3 DEF SortedUpTo
  <2>2. 0 \in 0..N /\ \A k \in 1..N : k \in 0..N /\ k # 0
    BY <1>1
  <2> QED BY <2>1, <2>2
<1> DEFINE P(k) == /\ sorted[k] \in Seq(Features) /\ Falling(sorted[k])
                   /\ Range(sorted[k]) = {l[a] : a \in 1..k}
           Bad == {k \in 0..N : ~ P(k)}
<1>6. P(0)
  <2>1. << >> \in Seq(Features) /\ Len(<< >>) = 0 /\ Range(<< >>) = {}
    BY DEF Range
  <2> QED BY <1>5, <2>1 DEF Falling
<1>7. ASSUME NEW k \in 1..N, P(k - 1) PROVE P(k)
  <2>1. /\ sorted[k - 1] \in Seq(Features) /\ Falling(sorted[k - 1])
        /\ Range(sorted[k - 1]) = {l[a] : a \in 1..(k - 1)}
        /\ sorted[k] = Inserted(sorted[k - 1], l[k]) /\ l[k] \in Features
    BY <1>1, <1>5, <1>7
  <2>2. /\ sorted[k] \in Seq(Features) /\ Falling(sorted[k])
        /\ Range(sorted[k]) = {l[a] : a \in 1..(k - 1)} \cup {l[k]}
    <3>1. PICK s \in Seq(Features), f \in Features : s = sorted[k - 1] /\ f = l[k]
      BY <2>1
    <3>2. Falling(s)
      BY ONLY <2>1, <3>1
    <3>3. /\ Inserted(s, f) \in Seq(Features) /\ Falling(Inserted(s, f))
          /\ Range(Inserted(s, f)) = Range(s) \cup {f}
      BY ONLY <3>1, <3>2, InsertedFacts
    <3>4. sorted[k] = Inserted(s, f) /\ Range(s) = {l[a] : a \in 1..(k - 1)}
      BY ONLY <2>1, <3>1
    <3> QED BY ONLY <3>1, <3>3, <3>4
  <2>3. 1..k = 1..(k - 1) \cup {k}
    BY <1>1
  <2>4. {l[a] : a \in 1..(k - 1)} \cup {l[k]} = {l[a] : a \in 1..k}
    BY ONLY <2>3
  <2> QED BY <2>2, <2>4
<1> HIDE DEF P
<1>8. Bad = {}
  <2> SUFFICES ASSUME Bad # {} PROVE FALSE
    OBVIOUS
  <2>1. Bad \in SUBSET Nat
    BY <1>1
  <2>2. PICK m \in Bad : \A i \in Bad : m <= i
    BY <2>1, SmallestNat
  <2>3. m \in 0..N /\ ~ P(m)
    OBVIOUS
  <2>4. m # 0
    BY <1>6, <2>3
  <2>5. m \in 1..N /\ m - 1 \in 0..N
    BY <1>1, <2>3, <2>4
  <2>6. m - 1 \notin Bad
    <3> HIDE DEF Bad
    <3> QED BY <2>2, <2>5
  <2>7. P(m - 1)
    BY <2>5, <2>6
  <2> QED BY <1>7, <2>3, <2>5, <2>7
<1>9. P(N)
  BY <1>1, <1>8
<1>10. Range(l) = {l[a] : a \in 1..N}
  BY <1>1 DEF Range
<1> QED BY <1>4, <1>9, <1>10 DEF P

(* RegionSplit takes the features of the box, the first max of them.       *)
LEMMA SplitFacts ==
    ASSUME NEW l \in Seq(Features), NEW box, NEW max \in Nat, NEW s, s = Split(l, box, max)
    PROVE  /\ s \in Seq(Features) /\ Range(s) \subseteq Range(l) \cap Inside(box)
           /\ max # 0 => Len(s) <= max
           /\ s = << >> => Range(l) \cap Inside(box) = {}
           /\ Falling(l) =>
                \A f \in Range(s) : \A g \in Inside(box) \cap (Range(l) \ Range(s)) :
                  Score[f] >= Score[g]
<1> DEFINE in == Kept(l, Inside(box))
           n == Len(in)
<1>1. in \in Seq(Features) /\ Range(in) = Range(l) \cap Inside(box)
  BY KeptFacts
<1>2. Falling(l) => Falling(in)
  BY KeptFalls
<1>3. s = IF max = 0 \/ n <= max THEN in ELSE SubSeq(in, 1, max)
  BY DEF Split
<1> HIDE DEF in
<1>4. n \in Nat /\ Range(in) = {in[i] : i \in 1..n} /\ \A i \in 1..n : in[i] \in Features
  <2>1. in \in Seq(Features)
    BY <1>1
  <2>2. /\ Len(in) \in Nat /\ Range(in) = {in[i] : i \in 1..Len(in)}
        /\ \A i \in 1..Len(in) : in[i] \in Features
    BY <2>1, ListFacts
  <2> QED BY <2>2
<1>5. CASE max = 0 \/ n <= max
  <2>1. s = in
    BY <1>3, <1>5
  <2>2. in = << >> => Range(in) = {}
    BY DEF Range
  <2> QED BY <1>1, <1>4, <1>5, <2>1, <2>2
<1>6. CASE max # 0 /\ n > max
  <2>1. s = SubSeq(in, 1, max)
    BY <1>3, <1>4, <1>6
  <2> HIDE DEF n
  <2>2. max \in Nat /\ max >= 1 /\ max < n /\ \A i \in 1..max : i \in 1..n
    BY <1>4, <1>6
  <2>3. s \in Seq(Features) /\ Len(s) = max /\ \A i \in 1..max : s[i] = in[i]
    <3>1. \A i \in 1..max : in[i] \in Features
      BY <1>4, <2>2
    <3>2. s \in Seq(Features) /\ Len(s) = IF 1 <= max THEN max - 1 + 1 ELSE 0
      BY <2>1, <2>2, <3>1, SubSeqProperties
    <3>3. \A i \in 1..(max - 1 + 1) : s[i] = in[1 + i - 1]
      BY <2>1, <2>2, <3>1, SubSeqProperties
    <3> QED BY <2>2, <3>2, <3>3
  <2>4. Range(s) = {s[i] : i \in 1..max}
    <3>1. Range(s) = {s[i] : i \in 1..Len(s)}
      BY <2>3, ListFacts
    <3> QED BY <2>3, <3>1
  <2>5. Range(s) \subseteq Range(in)
    BY <1>4, <2>2, <2>3, <2>4
  <2>6. s # << >>
    BY <2>2, <2>3
  <2>7. ASSUME Falling(l), NEW f \in Range(s), NEW g \in Inside(box) \cap (Range(l) \ Range(s))
        PROVE  Score[f] >= Score[g]
    <3>1. PICK i \in 1..max : f = in[i]
      BY <2>3, <2>4
    <3>2. PICK j \in 1..n : g = in[j]
      BY <1>1, <1>4
    <3>3. ~ (j \in 1..max)
      BY <2>3, <2>4, <3>2
    <3>4. i \in 1..n /\ i < j
      BY <1>4, <2>2, <3>3
    <3>5. Falling(in) /\ n = Len(in)
      BY <1>2, <2>7 DEF n
    <3> QED BY <3>1, <3>2, <3>4, <3>5 DEF Falling
  <2> QED BY <1>1, <2>2, <2>3, <2>5, <2>6, <2>7
<1> QED BY <1>4, <1>5, <1>6

-----------------------------------------------------------------------------
(* The places.  A nonempty finite set of integers has bounds.              *)
BoundsOf(S, m, n) == m \in S /\ n \in S /\ \A x \in S : m <= x /\ x <= n

LEMMA FiniteBounds ==
    ASSUME NEW S \in SUBSET Int, IsFiniteSet(S), S # {}
    PROVE  \E m, n : BoundsOf(S, m, n)
<1> DEFINE Is(c, R) == R \in SUBSET Int /\ IsFiniteSet(R) /\ R # {} /\ Cardinality(R) = c
           Bad == {c \in Nat : \E R : Is(c, R) /\ ~ \E m, n : BoundsOf(R, m, n)}
<1>1. Cardinality(S) \in Nat /\ Is(Cardinality(S), S)
  BY FS_CardinalityType
<1> SUFFICES ASSUME Bad # {} PROVE FALSE
  BY <1>1
<1>2. PICK c \in Bad : \A i \in Bad : c <= i
  BY SmallestNat
<1>3. PICK R : Is(c, R) /\ ~ \E m, n : BoundsOf(R, m, n)
  OBVIOUS
<1>4. PICK x : x \in R
  BY <1>3
<1>5. c \in Nat /\ x \in Int
  BY <1>3, <1>4
<1> DEFINE T == R \ {x}
<1>6. IsFiniteSet(T) /\ Cardinality(T) = c - 1 /\ T \in SUBSET Int
  BY <1>3, <1>4, FS_RemoveElement
<1>7. Cardinality(T) \in Nat
  BY <1>6, FS_CardinalityType
<1>8. T # {}
  <2> SUFFICES ASSUME T = {} PROVE FALSE
    OBVIOUS
  <2>1. R = {x}
    BY <1>4
  <2>2. BoundsOf(R, x, x)
    BY <1>5, <2>1 DEF BoundsOf
  <2> QED BY <1>3, <2>2
<1>9. c - 1 \in Nat /\ c - 1 \notin Bad
  <2>1. c - 1 \in Nat
    BY <1>6, <1>7
  <2> HIDE DEF Bad
  <2> QED BY <1>2, <1>5, <2>1
<1>10. Is(c - 1, T)
  BY <1>6, <1>8
<1>11. PICK m, n : BoundsOf(T, m, n)
  BY <1>9, <1>10
<1>12. \A y : y \in R <=> y = x \/ y \in T
  BY <1>4
<1>13. m \in T /\ n \in T /\ m \in Int /\ n \in Int /\ \A y \in T : m <= y /\ y <= n /\ y \in Int
  BY <1>6, <1>11 DEF BoundsOf
<1> HIDE DEF T, Bad
<1> DEFINE low  == IF x < m THEN x ELSE m
           high == IF x > n THEN x ELSE n
<1>14. low \in R /\ high \in R /\ low <= m /\ low <= x /\ n <= high /\ x <= high /\ low \in Int /\ high \in Int
  BY <1>5, <1>12, <1>13
<1> HIDE DEF low, high
<1>15. \A y \in R : low <= y /\ y <= high
  BY <1>5, <1>12, <1>13, <1>14
<1>16. BoundsOf(R, low, high)
  BY <1>14, <1>15 DEF BoundsOf
<1> QED BY <1>3, <1>16

LEMMA MaxMin ==
    ASSUME NEW S \in SUBSET Int, IsFiniteSet(S), NEW a \in Int
    PROVE  /\ Max({a} \cup S) \in Int /\ \A x \in S : x <= Max({a} \cup S)
           /\ Min({a} \cup S) \in Int /\ \A x \in S : Min({a} \cup S) <= x
<1> DEFINE T == {a} \cup S
<1>1. T \in SUBSET Int /\ T # {} /\ S \subseteq T
  OBVIOUS
<1>2. IsFiniteSet(T)
  <2>1. IsFiniteSet(S \cup {a})
    BY FS_AddElement
  <2>2. S \cup {a} = T
    OBVIOUS
  <2> QED BY ONLY <2>1, <2>2
<1> HIDE DEF T
<1>3. PICK m, n : BoundsOf(T, m, n)
  BY <1>1, <1>2, FiniteBounds
<1>4. n \in T /\ \A y \in T : n >= y
  BY <1>1, <1>3 DEF BoundsOf
<1>5. Max(T) \in T /\ \A y \in T : Max(T) >= y
  BY <1>4 DEF Max
<1>6. m \in T /\ \A y \in T : m =< y
  BY <1>3 DEF BoundsOf
<1>7. Min(T) \in T /\ \A y \in T : Min(T) =< y
  BY <1>6 DEF Min
<1>8. /\ Max(T) \in Int /\ \A x \in S : x <= Max(T)
      /\ Min(T) \in Int /\ \A x \in S : Min(T) <= x
  BY <1>1, <1>5, <1>7
<1> QED BY <1>8 DEF T

LEMMA FiniteImage ==
    ASSUME NEW S, IsFiniteSet(S), NEW F
    PROVE  IsFiniteSet({F[x] : x \in S})
<1> DEFINE T == {F[x] : x \in S}
           g == [x \in S |-> F[x]]
<1>1. g \in Surjection(S, T)
  BY DEF Surjection
<1> HIDE DEF T, g
<1>2. IsFiniteSet(T)
  BY <1>1, FS_Surjection
<1> QED BY <1>2 DEF T

LEMMA BoundsType ==
    ASSUME NEW points \in SUBSET [lat : Int, lon : Int], IsFiniteSet(points)
    PROVE  /\ Bounds(points) \in [north : Int, south : Int, east : Int, west : Int]
           /\ \A p \in points : /\ Bounds(points).south <= p.lat /\ p.lat <= Bounds(points).north
                                /\ Bounds(points).west <= p.lon /\ p.lon <= Bounds(points).east
<1> DEFINE Lat == [p \in points |-> p.lat]
           Lon == [p \in points |-> p.lon]
           lats == {p.lat : p \in points}
           lons == {p.lon : p \in points}
<1>1. Half \in Int /\ -Half \in Int
  BY RegionatorAssumption
<1>2. lats \in SUBSET Int /\ lons \in SUBSET Int
  OBVIOUS
<1>3. IsFiniteSet(lats) /\ IsFiniteSet(lons)
  <2>1. IsFiniteSet({Lat[p] : p \in points}) /\ IsFiniteSet({Lon[p] : p \in points})
    BY FiniteImage
  <2>2. {Lat[p] : p \in points} = lats /\ {Lon[p] : p \in points} = lons
    OBVIOUS
  <2> QED BY ONLY <2>1, <2>2
<1>4. \A p \in points : p.lat \in lats /\ p.lon \in lons
  OBVIOUS
<1> DEFINE n == Max({-Half} \cup lats)
           s == Min({Half} \cup lats)
           e == Max({-Half} \cup lons)
           w == Min({Half} \cup lons)
<1>5. Bounds(points) = [north |-> n, south |-> s, east |-> e, west |-> w]
  BY DEF Bounds
<1> HIDE DEF lats, lons, Lat, Lon
<1>8. n \in Int /\ \A x \in lats : x <= n
  BY <1>1, <1>2, <1>3, MaxMin
<1>9. e \in Int /\ \A x \in lons : x <= e
  BY <1>1, <1>2, <1>3, MaxMin
<1>10. s \in Int /\ \A x \in lats : s <= x
  BY <1>1, <1>2, <1>3, MaxMin
<1>11. w \in Int /\ \A x \in lons : w <= x
  BY <1>1, <1>2, <1>3, MaxMin
<1> HIDE DEF n, s, e, w
<1> QED BY <1>4, <1>5, <1>8, <1>9, <1>10, <1>11

LEMMA PlaceType ==
    ASSUME NEW f \in Features, Located(f)
    PROVE  Place[f].lat \in Int /\ Place[f].lon \in Int
<1>1. IsFiniteSet(Drawn[f]) /\ \A d \in Drawn[f] : IsFiniteSet(d.points) /\ d.points \subseteq [lat : Int, lon : Int]
  BY RegionatorAssumption
<1> DEFINE D == {e \in Drawn[f] : Counts(e)}
           F == [d \in Drawn[f] |-> d.points]
           P == {F[d] : d \in D}
<1>2. IsFiniteSet(D)
  BY <1>1, FS_Subset
<1>3. IsFiniteSet(P)
  BY <1>2, FiniteImage
<1>4. \A p \in P : IsFiniteSet(p) /\ p \subseteq [lat : Int, lon : Int]
  BY <1>1
<1>5. IsFiniteSet(UNION P) /\ UNION P \subseteq [lat : Int, lon : Int]
  BY <1>3, <1>4, FS_UNION
<1>6. Points(f) = UNION P
  BY DEF Points
<1> DEFINE b == Bounds(Points(f))
<1>7. b \in [north : Int, south : Int, east : Int, west : Int]
  BY <1>5, <1>6, BoundsType
<1>8. Place[f] = Center(b)
  BY DEF Place
<1> HIDE DEF b
<1> QED BY <1>7, <1>8 DEF Center

(* The quarters of a box lie in it, and no place in it is in none of them. *)
LEMMA CenterFacts ==
    ASSUME NEW box \in Boxes
    PROVE  /\ Center(box).lat \in Int /\ box.south <= Center(box).lat /\ Center(box).lat <= box.north
           /\ Center(box).lon \in Int /\ box.west <= Center(box).lon /\ Center(box).lon <= box.east
           /\ box.north \in Int /\ box.south \in Int /\ box.east \in Int /\ box.west \in Int
<1>1. /\ box.north \in Int /\ box.south \in Int /\ box.north >= box.south
      /\ box.east \in Int /\ box.west \in Int /\ box.east >= box.west
  BY DEF Boxes
<1>2. \A a, b \in Int : b >= a => (b + a) \div 2 \in Int /\ a <= (b + a) \div 2 /\ (b + a) \div 2 <= b
  OBVIOUS
<1> QED BY <1>1, <1>2 DEF Center

LEMMA QuarterIsBox ==
    ASSUME NEW box \in Boxes, NEW q \in Quadrants
    PROVE  Quarter(box, q) \in Boxes
<1>1. Quarter(box, q) \in [north : Int, south : Int, east : Int, west : Int]
  BY CenterFacts DEF Quarter
<1>2. Quarter(box, q).north >= Quarter(box, q).south /\ Quarter(box, q).east >= Quarter(box, q).west
  BY CenterFacts DEF Quarter, Quadrants
<1> QED BY <1>1, <1>2 DEF Boxes

LEMMA QuarterInside ==
    ASSUME NEW box \in Boxes, NEW q \in Quadrants
    PROVE  Inside(Quarter(box, q)) \subseteq Inside(box)
<1> SUFFICES ASSUME NEW f \in Inside(Quarter(box, q)) PROVE f \in Inside(box)
  OBVIOUS
<1>1. f \in Features /\ Located(f) /\ ContainsLatLon(Quarter(box, q), f)
  BY DEF Inside
<1>2. Place[f].lat \in Int /\ Place[f].lon \in Int
  BY <1>1, PlaceType
<1>3. ContainsLatLon(box, f)
  BY <1>1, <1>2, CenterFacts DEF ContainsLatLon, Quarter
<1> QED BY <1>1, <1>3 DEF Inside

LEMMA QuartersCover ==
    ASSUME NEW box \in Boxes, NEW f \in Inside(box)
    PROVE  \E q \in Quadrants : f \in Inside(Quarter(box, q))
<1>1. f \in Features /\ Located(f) /\ ContainsLatLon(box, f)
  BY DEF Inside
<1>2. Place[f].lat \in Int /\ Place[f].lon \in Int
  BY <1>1, PlaceType
<1> DEFINE lat == Center(box).lat
           lon == Center(box).lon
           q == IF Place[f].lat >= lat THEN IF Place[f].lon >= lon THEN 2 ELSE 1
                ELSE IF Place[f].lon >= lon THEN 4 ELSE 3
<1>3. q \in Quadrants
  BY DEF Quadrants
<1>4. ContainsLatLon(Quarter(box, q), f)
  BY <1>1, <1>2, CenterFacts DEF ContainsLatLon, Quarter
<1> QED BY <1>1, <1>3, <1>4 DEF Inside

(* AlignBbox ends at a quarter of a quarter ... of the world.              *)
AlignedUpTo(r, n, g) ==
  g = [d \in 0..n |-> IF d = 0 THEN World ELSE Narrowed(g[d - 1], r)]

LEMMA AlignedExists == ASSUME NEW r, NEW n \in Nat PROVE \E g : AlignedUpTo(r, n, g)
<1> DEFINE T == {m \in Nat : ~ \E g : AlignedUpTo(r, m, g)}
<1> SUFFICES T = {}
  OBVIOUS
<1> SUFFICES ASSUME T # {} PROVE FALSE
  OBVIOUS
<1>1. PICK m \in T : \A i \in T : m <= i
  BY SmallestNat
<1>2. CASE m = 0
  <2> DEFINE g == [d \in 0..0 |-> World]
  <2>1. AlignedUpTo(r, 0, g)
    BY DEF AlignedUpTo
  <2> QED BY <1>1, <1>2, <2>1
<1>3. CASE m # 0
  <2>0. m \in Nat
    OBVIOUS
  <2>1. m - 1 \in Nat /\ m - 1 \notin T
    <3> HIDE DEF T
    <3> QED BY <1>1, <1>3, <2>0
  <2>2. PICK g : AlignedUpTo(r, m - 1, g)
    BY <2>1
  <2> DEFINE h == [d \in 0..m |-> IF d = m THEN Narrowed(g[m - 1], r) ELSE g[d]]
  <2>3. ASSUME NEW d \in 0..m
        PROVE  h[d] = IF d = 0 THEN World ELSE Narrowed(h[d - 1], r)
    <3>1. CASE d = m
      <4>1. h[d] = Narrowed(g[m - 1], r) /\ h[d - 1] = g[m - 1]
        BY <1>1, <1>3, <3>1
      <4> QED BY <1>3, <3>1, <4>1
    <3>2. CASE d # m
      <4>1. d \in 0..(m - 1) /\ h[d] = g[d]
        BY <1>1, <3>2
      <4>2. d # 0 => d - 1 \in 0..m /\ d - 1 # m
        BY <1>1
      <4>3. d # 0 => h[d - 1] = g[d - 1]
        BY <4>2
      <4>4. g[d] = IF d = 0 THEN World ELSE Narrowed(g[d - 1], r)
        BY <2>2, <4>1 DEF AlignedUpTo
      <4> HIDE DEF h
      <4> QED BY <4>1, <4>3, <4>4
    <3> QED BY <3>1, <3>2
  <2>4. h = [d \in 0..m |-> h[d]]
    OBVIOUS
  <2> HIDE DEF h
  <2>5. AlignedUpTo(r, m, h)
    BY <2>3, <2>4 DEF AlignedUpTo
  <2> QED BY <1>1, <2>5
<1> QED BY <1>2, <1>3

LEMMA AlignedIsBox == ASSUME NEW r PROVE Aligned(r) \in Boxes
<1> DEFINE N == MaxDepth + 1
           down == CHOOSE g : AlignedUpTo(r, N, g)
<1>1. N \in Nat
  BY RegionatorAssumption
<1>2. \E g : AlignedUpTo(r, N, g)
  BY <1>1, AlignedExists
<1>3. AlignedUpTo(r, N, down)
  BY <1>2
<1>4. Aligned(r) = down[N]
  BY DEF Aligned, AlignedUpTo
<1> HIDE DEF down, N
<1>5. World \in Boxes
  BY RegionatorAssumption DEF World, Boxes
<1>6. ASSUME NEW box \in Boxes PROVE Narrowed(box, r) \in Boxes
  BY QuarterIsBox DEF Narrowed, Quadrants
<1>7. \A d \in 0..N : down[d] = IF d = 0 THEN World ELSE Narrowed(down[d - 1], r)
  BY <1>3 DEF AlignedUpTo
<1> DEFINE Bad == {d \in 0..N : down[d] \notin Boxes}
<1>8. Bad = {}
  <2> SUFFICES ASSUME Bad # {} PROVE FALSE
    OBVIOUS
  <2>1. Bad \in SUBSET Nat
    BY <1>1
  <2>2. PICK d \in Bad : \A i \in Bad : d <= i
    BY <2>1, SmallestNat
  <2>3. d \in 0..N /\ down[d] \notin Boxes
    OBVIOUS
  <2>4. d # 0 /\ d - 1 \in 0..N
    BY <1>1, <1>5, <1>7, <2>3
  <2>5. d - 1 \notin Bad
    <3> HIDE DEF Bad
    <3> QED BY <2>2, <2>3, <2>4, <1>1
  <2>6. down[d - 1] \in Boxes
    BY <2>4, <2>5
  <2> QED BY <1>6, <1>7, <2>3, <2>4, <2>6
<1> QED BY <1>1, <1>4, <1>8

-----------------------------------------------------------------------------
(* The walk: the ids of the calls are the quadrants their callers are at,  *)
(* and their Regions lie in each other.                                    *)
FeaturesTyped ==
  /\ left \in Seq(Features) /\ task.max \in Nat /\ task.given \subseteq Features
  /\ DOMAIN folders \subseteq Seq(Quadrants)
  /\ \A id \in DOMAIN folders : folders[id] \in Seq(Features)

Spine ==
  \A k \in DOMAIN stack : \A i \in 1..(k - 1) : stack[k].region.id[i] = stack[i].next

Nested ==
  /\ \A k \in DOMAIN stack : stack[k].region.box \in Boxes
  /\ \A k, l \in DOMAIN stack :
       k < l => Inside(stack[l].region.box) \subseteq Inside(stack[k].region.box)

(* A Region that was given features is on the way from the root to here,   *)
(* or the walk has passed it: it has a file, or was refused.               *)
OnWay(id)  == \E k \in Numbered : stack[k].region.id = id
Passed(id) ==
  \E k \in DOMAIN stack :
    k <= Len(id) /\ id[k] < stack[k].next /\ \A i \in 1..(k - 1) : id[i] = stack[i].next
Lost(id)   == \E r \in task.refused : r.id = id
Filed(id)  == \E n \in Names : files[n].region.id = id

Visited ==
  /\ \A k \in Numbered : stack[k].region.id \in DOMAIN folders
  /\ \A n \in Names : /\ files[n].region.id \in DOMAIN folders
                      /\ files[n].shows = folders[files[n].region.id]
  /\ \A r \in task.refused : r.id \in DOMAIN folders
  /\ \A id \in DOMAIN folders :
       /\ OnWay(id) \/ Lost(id) \/ Filed(id)
       /\ ~ (Lost(id) /\ Filed(id))
       /\ stack # << >> /\ (Lost(id) \/ Filed(id)) => Passed(id)
  /\ \A n, m \in Names : files[n].region.id = files[m].region.id => n = m

(* A feature is left, or shown for one Region.                             *)
OnePlace ==
  /\ \A id \in DOMAIN folders : Range(folders[id]) \cap Range(left) = {}
  /\ \A i, j \in DOMAIN folders : Range(folders[i]) \cap Range(folders[j]) # {} => i = j
  /\ \A f \in task.given : \/ f \in Range(left) \ parents
                           \/ \E id \in DOMAIN folders : f \in Range(folders[id])

(* What is shown for a Region lies in it, and is not too much.             *)
InBoxes ==
  /\ \A k \in Numbered : Range(folders[stack[k].region.id]) \subseteq Inside(stack[k].region.box)
  /\ \A n \in Names : Range(files[n].shows) \subseteq Inside(files[n].region.box)
  /\ task.max # 0 => \A id \in DOMAIN folders : Len(folders[id]) <= task.max

(* Of a quarter that was asked nothing is left, but for what a refusal     *)
(* covers.                                                                 *)
Covered(f) == \E r \in task.refused : ContainsLatLon(r.box, f)

AskedFor ==
  /\ \A k \in DOMAIN stack : \A q \in Quadrants :
       q < stack[k].next =>
         \A f \in Range(left) \cap Inside(Quarter(stack[k].region.box, q)) : Covered(f)
  /\ stack = << >> => \A f \in task.given \cap Range(left) : Covered(f)
  /\ stack # << >> => task.given \subseteq Inside(stack[1].region.box)

(* What is left scores less than what is shown on the way, and what is     *)
(* shown below a Region less than what is shown for it.                    *)
Below(i, j) == Len(i) < Len(j) /\ \A k \in 1..Len(i) : i[k] = j[k]

NoneHigher(s, S) == \A f \in Range(s), g \in S : Score[f] >= Score[g]

HigherLeft ==
  task.sorted =>
    /\ Falling(left)
    /\ \A k \in Numbered :
         NoneHigher(folders[stack[k].region.id], Range(left) \cap Inside(stack[k].region.box))
    /\ \A i, j \in DOMAIN folders : Below(i, j) => NoneHigher(folders[i], Range(folders[j]))

FeaturesInv ==
  /\ FeaturesTyped /\ Spine /\ Nested /\ Visited
  /\ OnePlace /\ InBoxes /\ AskedFor /\ HigherLeft

LEMMA PrefixIsBelow ==
    ASSUME NEW i \in Seq(Quadrants), NEW j \in Seq(Quadrants), IsStrictPrefix(i, j)
    PROVE  Below(i, j)
<1> DEFINE m == Len(i)
           n == Len(j)
<1>1. m \in Nat /\ n \in Nat /\ m <= n /\ SubSeq(i, 1, m) = SubSeq(j, 1, m) /\ i # j
  BY DEF IsStrictPrefix, IsPrefix
<1>2. /\ \A k \in 1..m : i[k] \in Quadrants
      /\ \A k \in 1..n : j[k] \in Quadrants
  OBVIOUS
<1> HIDE DEF m, n
<1>3. \A k \in 1..m : k \in 1..n
  BY <1>1
<1>4. \A k \in 1..m : SubSeq(i, 1, m)[k] = i[k]
  <2>1. \A k \in 1..(m - 1 + 1) : SubSeq(i, 1, m)[k] = i[1 + k - 1]
    BY <1>1, <1>2, SubSeqProperties
  <2> QED BY <1>1, <2>1
<1>5. \A k \in 1..m : SubSeq(j, 1, m)[k] = j[k]
  <2>1. \A k \in 1..m : j[k] \in Quadrants
    BY <1>2, <1>3
  <2>2. \A k \in 1..(m - 1 + 1) : SubSeq(j, 1, m)[k] = j[1 + k - 1]
    BY <1>1, <2>1, SubSeqProperties
  <2> QED BY <1>1, <2>2
<1>6. \A k \in 1..m : i[k] = j[k]
  BY <1>1, <1>4, <1>5
<1>7. m # n
  <2>1. m = n => i = j
    BY <1>6, SeqEqual DEF m, n
  <2> QED BY <1>1, <2>1
<1> QED BY <1>1, <1>6, <1>7 DEF Below, m, n

(* The Region a call asks is not one that the walk has passed, and before  *)
(* it has its number it was not given features.                            *)
LEMMA TopIsNew ==
    ASSUME IInv, FeaturesInv, stack # << >>
    PROVE  /\ ~ Passed(Top.region.id) /\ ~ Lost(Top.region.id) /\ ~ Filed(Top.region.id)
           /\ Top.next = 0 => Top.region.id \notin DOMAIN folders
<1> DEFINE n == Len(stack)
           id == Top.region.id
<1>1. /\ DOMAIN stack = 1..n /\ n \in Nat /\ n >= 1 /\ Top = stack[n]
      /\ \A k \in 1..n : /\ Len(stack[k].region.id) = k - 1
                         /\ k < n => stack[k].next \in Quadrants
  BY StackFacts
<1> HIDE DEF n
<1>2. n \in DOMAIN stack /\ Len(id) = n - 1
  BY <1>1
<1>3. \A i \in 1..(n - 1) : id[i] = stack[i].next /\ stack[i].next \in Quadrants
  <2>1. \A i \in 1..(n - 1) : stack[n].region.id[i] = stack[i].next
    BY <1>2 DEF FeaturesInv, Spine
  <2>2. \A i \in 1..(n - 1) : i \in 1..n /\ i < n
    BY <1>1
  <2> QED BY <1>1, <2>1, <2>2
<1>4. ~ Passed(id)
  <2> SUFFICES ASSUME NEW k \in DOMAIN stack, k <= Len(id), id[k] < stack[k].next PROVE FALSE
    BY DEF Passed
  <2>1. k \in 1..(n - 1)
    BY <1>1, <1>2
  <2> QED BY <1>3, <2>1 DEF Quadrants
<1>5. ~ Lost(id) /\ ~ Filed(id)
  BY <1>4 DEF FeaturesInv, Visited, Lost, Filed
<1>6. ASSUME Top.next = 0 PROVE ~ OnWay(id)
  <2> SUFFICES ASSUME NEW k \in Numbered, stack[k].region.id = id PROVE FALSE
    BY DEF OnWay
  <2>1. k \in 1..n /\ stack[k].next # 0
    BY <1>1 DEF Numbered
  <2>2. Len(stack[k].region.id) = k - 1
    BY <1>1, <2>1
  <2>3. k = n
    BY <1>1, <1>2, <2>1, <2>2
  <2> QED BY <1>1, <1>6, <2>1, <2>3
<1>7. Top.next = 0 => id \notin DOMAIN folders
  BY <1>5, <1>6 DEF FeaturesInv, Visited
<1> QED BY <1>4, <1>5, <1>7

LEMMA ReturnFacts ==
    ASSUME IInv, stack # << >>, NEW b, Return(b), NEW n, n = Len(stack)
    PROVE  /\ n \in Nat /\ n >= 1 /\ DOMAIN stack = 1..n /\ Top = stack[n]
           /\ DOMAIN stack' = 1..(n - 1) /\ (stack' = << >> <=> n = 1)
           /\ \A k \in 1..(n - 1) :
                /\ k \in DOMAIN stack /\ k \in DOMAIN stack'
                /\ stack'[k].region = stack[k].region /\ stack[k].next \in Quadrants
                /\ k # n - 1 => stack'[k] = stack[k]
                /\ k = n - 1 => stack'[k].next = stack[k].next + 1
           /\ Numbered' = 1..(n - 1) /\ Numbered' \subseteq Numbered
<1>1. /\ DOMAIN stack = 1..n /\ n \in Nat /\ n >= 1 /\ Top = stack[n]
      /\ \A k \in 1..n : k < n => stack[k].next \in Quadrants
  BY StackFacts
<1>2. /\ \E Bs, Kids : stack' \in Seq(Calls(Bs, Kids))
      /\ Len(stack') = n - 1 /\ DOMAIN stack' = 1..(n - 1)
      /\ \A k \in DOMAIN stack' :
           /\ stack'[k].region = stack[k].region
           /\ stack[k].next # 0 /\ stack'[k].next # 0
           /\ k < Len(stack') => stack'[k] = stack[k]
           /\ k = Len(stack') => stack'[k].next = stack[k].next + 1
  BY ReturnShape
<1>3. stack' = << >> <=> n = 1
  <2>1. PICK Bs, Kids : stack' \in Seq(Calls(Bs, Kids))
    BY <1>2
  <2>2. stack' = << >> <=> Len(stack') = 0
    BY <2>1, EmptySeq
  <2> QED BY <1>1, <1>2, <2>2
<1>4. ASSUME NEW k \in 1..(n - 1)
      PROVE  /\ k \in DOMAIN stack /\ k \in DOMAIN stack'
             /\ stack'[k].region = stack[k].region /\ stack[k].next \in Quadrants
             /\ k # n - 1 => stack'[k] = stack[k]
             /\ k = n - 1 => stack'[k].next = stack[k].next + 1
             /\ stack'[k].next # 0 /\ stack[k].next # 0
  <2>1. k \in 1..n /\ k < n /\ (k # n - 1 => k < n - 1)
    BY <1>1
  <2> QED BY <1>1, <1>2, <2>1
<1>5. Numbered' = 1..(n - 1) /\ Numbered' \subseteq Numbered
  BY <1>2, <1>4 DEF Numbered
<1> QED BY <1>1, <1>2, <1>3, <1>4, <1>5

LEMMA ReturnSpine ==
    ASSUME IInv, FeaturesInv, stack # << >>, NEW b, Return(b)
    PROVE  Spine' /\ Nested'
<1> DEFINE m == Len(stack)
<1> PICK n : n = m
  OBVIOUS
<1> HIDE DEF m
<1>1. /\ n \in Nat /\ n >= 1 /\ DOMAIN stack = 1..n /\ DOMAIN stack' = 1..(n - 1)
      /\ \A k \in 1..(n - 1) :
           /\ k \in DOMAIN stack /\ stack'[k].region = stack[k].region
           /\ k # n - 1 => stack'[k] = stack[k]
  BY ReturnFacts DEF m
<1>2. Spine'
  <2> SUFFICES ASSUME NEW k \in 1..(n - 1), NEW i \in 1..(k - 1)
               PROVE  stack'[k].region.id[i] = stack'[i].next
    BY <1>1 DEF Spine
  <2>1. stack[k].region.id[i] = stack[i].next
    BY <1>1 DEF FeaturesInv, Spine
  <2>2. i \in 1..(n - 1) /\ i # n - 1
    BY <1>1
  <2> QED BY <1>1, <2>1, <2>2
<1>3. Nested'
  BY <1>1 DEF FeaturesInv, Nested
<1> QED BY <1>2, <1>3

(* The Region whose call returns is passed then.                           *)
LEMMA ReturnPasses ==
    ASSUME IInv, FeaturesInv, stack # << >>, NEW b, Return(b), stack' # << >>,
           NEW id \in Seq(Quadrants), Passed(id) \/ id = Top.region.id
    PROVE  Passed(id)'
<1> DEFINE m == Len(stack)
<1> PICK n : n = m
  OBVIOUS
<1> HIDE DEF m
<1>1. /\ n \in Nat /\ n > 1 /\ DOMAIN stack = 1..n /\ DOMAIN stack' = 1..(n - 1) /\ Top = stack[n]
      /\ \A k \in 1..(n - 1) :
           /\ stack[k].next \in Quadrants
           /\ k # n - 1 => stack'[k] = stack[k]
           /\ k = n - 1 => stack'[k].next = stack[k].next + 1
  BY ReturnFacts DEF m
<1>2. Len(id) \in Nat /\ \A k \in 1..Len(id) : id[k] \in Quadrants
  OBVIOUS
<1>3. n \in DOMAIN stack /\ n - 1 \in DOMAIN stack' /\ Len(Top.region.id) = n - 1
  <2>1. n \in DOMAIN stack /\ n - 1 \in DOMAIN stack'
    BY <1>1
  <2> QED BY <1>1, <2>1, StackFacts
<1>4. ASSUME n - 1 <= Len(id), \A i \in 1..(n - 1) : id[i] = stack[i].next
      PROVE  Passed(id)'
  <2>1. id[n - 1] = stack[n - 1].next /\ stack[n - 1].next \in Quadrants
        /\ stack'[n - 1].next = stack[n - 1].next + 1
    BY <1>1, <1>4
  <2>2. id[n - 1] < stack'[n - 1].next
    BY <2>1 DEF Quadrants
  <2>3. \A i \in 1..(n - 1 - 1) : id[i] = stack'[i].next
    BY <1>1, <1>4
  <2> QED BY <1>3, <1>4, <2>2, <2>3 DEF Passed
<1>5. CASE id = Top.region.id
  <2>1. \A i \in 1..(n - 1) : id[i] = stack[i].next
    BY <1>1, <1>3, <1>5 DEF FeaturesInv, Spine
  <2>2. n - 1 <= Len(id)
    BY <1>1, <1>3, <1>5
  <2> QED BY <1>4, <2>1, <2>2
<1>6. CASE Passed(id)
  <2>1. PICK k \in 1..n : /\ k <= Len(id) /\ id[k] < stack[k].next
                          /\ \A i \in 1..(k - 1) : id[i] = stack[i].next
    BY <1>1, <1>6 DEF Passed
  <2>2. CASE k = n
    <3>1. n - 1 <= Len(id) /\ \A i \in 1..(n - 1) : id[i] = stack[i].next
      BY <1>1, <1>2, <2>1, <2>2
    <3> QED BY <1>4, <3>1
  <2>3. CASE k # n
    <3>1. k \in 1..(n - 1) /\ id[k] \in Quadrants
      BY <1>1, <1>2, <2>1, <2>3
    <3>2. id[k] < stack'[k].next
      BY <1>1, <2>1, <3>1 DEF Quadrants
    <3>3. \A i \in 1..(k - 1) : i \in 1..(n - 1) /\ i # n - 1
      BY <1>1, <3>1
    <3>4. \A i \in 1..(k - 1) : id[i] = stack'[i].next
      BY <1>1, <2>1, <3>3
    <3> QED BY <1>1, <2>1, <3>1, <3>2, <3>4 DEF Passed
  <2> QED BY <2>2, <2>3
<1> QED BY <1>5, <1>6

-----------------------------------------------------------------------------
(* What a Region with data is given: some of the features that are left,   *)
(* which lie in it, and not fewer than it could be.                        *)
Shows(id, box) ==
  /\ DOMAIN folders' = DOMAIN folders \cup {id} /\ folders'[id] \in Seq(Features)
  /\ \A i \in DOMAIN folders : i # id => folders'[i] = folders[i]
  /\ left' \in Seq(Features) /\ Range(left') \subseteq Range(left)
  /\ Range(folders'[id]) \subseteq (Range(left) \ Range(left')) \cap Inside(box)
  /\ \A f \in Range(left) \ parents : f \in Range(left') \ parents' \/ f \in Range(folders'[id])
  /\ task.max # 0 => Len(folders'[id]) <= task.max
  /\ Falling(left) => Falling(left') /\ NoneHigher(folders'[id], Range(left') \cap Inside(box))

LEMMA SplitShows ==
    ASSUME FeaturesTyped, NEW id, NEW box, NEW s, s = Split(left, box, task.max),
           left' = Without(left, s), parents' = parents \cup Range(s),
           folders' = [i \in DOMAIN folders \cup {id} |-> IF i = id THEN Save(s) ELSE folders[i]]
    PROVE  Shows(id, box)
<1>1. /\ s \in Seq(Features) /\ Range(s) \subseteq Range(left) \cap Inside(box)
      /\ task.max # 0 => Len(s) <= task.max
      /\ Falling(left) =>
           \A f \in Range(s) : \A g \in Inside(box) \cap (Range(left) \ Range(s)) :
             Score[f] >= Score[g]
  BY SplitFacts DEF FeaturesTyped
<1>2. /\ left' \in Seq(Features) /\ Range(left') = Range(left) \cap (Features \ Range(s))
      /\ Falling(left) => Falling(left')
  BY KeptFacts, KeptFalls DEF FeaturesTyped, Without
<1>3. Range(left) \subseteq Features
  BY ListFacts DEF FeaturesTyped
<1> DEFINE t == Kept(s, Features \ parents)
<1>4. /\ t \in Seq(Features) /\ Range(t) = Range(s) \cap (Features \ parents)
      /\ Len(t) <= Len(s)
  BY <1>1, KeptFacts
<1>5. Len(s) \in Nat /\ Len(t) \in Nat /\ task.max \in Nat
  BY <1>1, <1>4 DEF FeaturesTyped
<1>6. /\ DOMAIN folders' = DOMAIN folders \cup {id} /\ folders'[id] = t
      /\ \A i \in DOMAIN folders : i # id => folders'[i] = folders[i]
  BY DEF Save
<1> HIDE DEF t
<1>7. task.max # 0 => Len(t) <= task.max
  BY <1>1, <1>4, <1>5
<1>8. Range(t) \subseteq (Range(left) \ Range(left')) \cap Inside(box)
  BY <1>1, <1>2, <1>4
<1>9. \A f \in Range(left) \ parents : f \in Range(left') \ parents' \/ f \in Range(t)
  BY <1>2, <1>3, <1>4
<1>10. Falling(left) => NoneHigher(t, Range(left') \cap Inside(box))
  BY <1>1, <1>2, <1>4 DEF NoneHigher
<1> QED BY <1>2, <1>4, <1>6, <1>7, <1>8, <1>9, <1>10 DEF Shows

LEMMA ShowsTyped ==
    ASSUME FeaturesTyped, NEW id \in Seq(Quadrants), NEW box, Shows(id, box),
           task'.max = task.max, task'.given = task.given
    PROVE  FeaturesTyped'
<1>1. \A i \in DOMAIN folders' : folders'[i] \in Seq(Features)
  BY DEF Shows, FeaturesTyped
<1> QED BY <1>1 DEF Shows, FeaturesTyped

LEMMA ShowsOnePlace ==
    ASSUME OnePlace, NEW id, NEW box, Shows(id, box), id \notin DOMAIN folders,
           task'.given = task.given
    PROVE  OnePlace'
<1> DEFINE R(i) == Range(folders[i])
           S(i) == Range(folders'[i])
           L == Range(left)
           M == Range(left')
<1>1. /\ \A i \in DOMAIN folders : R(i) \cap L = {}
      /\ \A i, j \in DOMAIN folders : R(i) \cap R(j) # {} => i = j
      /\ \A f \in task.given : f \in L \ parents \/ \E i \in DOMAIN folders : f \in R(i)
  BY DEF OnePlace
<1>2. /\ DOMAIN folders' = DOMAIN folders \cup {id}
      /\ \A i \in DOMAIN folders : S(i) = R(i)
      /\ M \subseteq L /\ S(id) \subseteq L \ M
      /\ \A f \in L \ parents : f \in M \ parents' \/ f \in S(id)
  BY DEF Shows
<1> HIDE DEF R, S, L, M
<1>3. \A i \in DOMAIN folders' : S(i) \cap M = {}
  BY <1>1, <1>2
<1>4. \A i, j \in DOMAIN folders' : S(i) \cap S(j) # {} => i = j
  <2> SUFFICES ASSUME NEW i \in DOMAIN folders', NEW j \in DOMAIN folders', i # j
               PROVE  S(i) \cap S(j) = {}
    OBVIOUS
  <2> QED BY <1>1, <1>2
<1>5. \A f \in task'.given : f \in M \ parents' \/ \E i \in DOMAIN folders' : f \in S(i)
  <2> SUFFICES ASSUME NEW f \in task.given
               PROVE  f \in M \ parents' \/ \E i \in DOMAIN folders' : f \in S(i)
    OBVIOUS
  <2> QED BY <1>1, <1>2
<1> QED BY <1>3, <1>4, <1>5 DEF OnePlace, S, M

(* The calls that go on are those that did, and the one that shows.        *)
LEMMA ShowsInBoxes ==
    ASSUME IInv, FeaturesInv, stack # << >>, Top.next = 0,
           Shows(Top.region.id, Top.region.box), UNCHANGED files, task'.max = task.max,
           \A k \in Numbered' : /\ stack'[k].region = stack[k].region
                                /\ k \in Numbered \/ k = Len(stack)
    PROVE  InBoxes'
<1> DEFINE id == Top.region.id
<1>1. id \notin DOMAIN folders /\ Top = stack[Len(stack)]
  BY TopIsNew, StackFacts
<1>2. ASSUME NEW k \in Numbered'
      PROVE  Range(folders'[stack'[k].region.id]) \subseteq Inside(stack'[k].region.box)
  <2>1. stack'[k].region = stack[k].region
    OBVIOUS
  <2>2. CASE k \in Numbered
    <3>1. stack[k].region.id \in DOMAIN folders /\ stack[k].region.id # id
      BY <1>1, <2>2 DEF FeaturesInv, Visited
    <3>2. folders'[stack[k].region.id] = folders[stack[k].region.id]
      BY <3>1 DEF Shows
    <3> QED BY <2>1, <2>2, <3>2 DEF FeaturesInv, InBoxes
  <2>3. CASE k = Len(stack)
    BY <1>1, <2>1, <2>3 DEF Shows
  <2> QED BY <2>2, <2>3
<1>3. \A n \in Names' : Range(files'[n].shows) \subseteq Inside(files'[n].region.box)
  BY DEF FeaturesInv, InBoxes, Names
<1>4. task'.max # 0 => \A i \in DOMAIN folders' : Len(folders'[i]) <= task'.max
  <2> SUFFICES ASSUME task.max # 0, NEW i \in DOMAIN folders' PROVE Len(folders'[i]) <= task.max
    OBVIOUS
  <2>1. CASE i = id
    BY <2>1 DEF Shows
  <2>2. CASE i # id
    BY <2>2 DEF Shows, FeaturesInv, InBoxes
  <2> QED BY <2>1, <2>2
<1> QED BY <1>2, <1>3, <1>4 DEF InBoxes

LEMMA ShowsHigher ==
    ASSUME IInv, FeaturesInv, stack # << >>, Top.next = 0,
           Shows(Top.region.id, Top.region.box), task'.sorted = task.sorted,
           \A k \in Numbered' : /\ stack'[k].region = stack[k].region
                                /\ k \in Numbered \/ k = Len(stack)
    PROVE  HigherLeft'
<1> SUFFICES ASSUME task.sorted
             PROVE  /\ Falling(left')
                    /\ \A k \in Numbered' :
                         NoneHigher(folders'[stack'[k].region.id],
                                    Range(left') \cap Inside(stack'[k].region.box))
                    /\ \A i, j \in DOMAIN folders' :
                         Below(i, j) => NoneHigher(folders'[i], Range(folders'[j]))
  BY DEF HigherLeft, NoneHigher, Falling
<1> DEFINE m == Len(stack)
           id == Top.region.id
           box == Top.region.box
<1> PICK n : n = m
  OBVIOUS
<1> HIDE DEF m
<1>1. /\ DOMAIN stack = 1..n /\ n \in Nat /\ n >= 1 /\ Top = stack[n] /\ n \in DOMAIN stack
      /\ \A k \in 1..n : /\ stack[k].region.id \in Seq(Quadrants)
                         /\ Len(stack[k].region.id) = k - 1
                         /\ k < n => stack[k].next \in Quadrants
  <2>1. /\ DOMAIN stack = 1..n /\ n \in Nat /\ n >= 1 /\ Top = stack[n]
        /\ \A k \in DOMAIN stack : /\ stack[k].region.id \in Seq(Quadrants)
                                   /\ Len(stack[k].region.id) = k - 1
                                   /\ k < n => stack[k].next \in Quadrants
    BY StackFacts DEF m
  <2> QED BY <2>1
<1>2. id \notin DOMAIN folders /\ Len(id) = n - 1 /\ id \in Seq(Quadrants)
  BY <1>1, TopIsNew
<1>3. Falling(left) /\ Falling(left') /\ NoneHigher(folders'[id], Range(left') \cap Inside(box))
  BY DEF FeaturesInv, HigherLeft, Shows
<1>4. /\ Range(left') \subseteq Range(left)
      /\ Range(folders'[id]) \subseteq Range(left) \cap Inside(box)
      /\ \A i \in DOMAIN folders : folders'[i] = folders[i]
      /\ DOMAIN folders' = DOMAIN folders \cup {id}
  BY <1>2 DEF Shows
<1>5. \A k \in Numbered :
        /\ NoneHigher(folders[stack[k].region.id], Range(left) \cap Inside(stack[k].region.box))
        /\ stack[k].region.id \in DOMAIN folders /\ k \in 1..n /\ k # n
  BY <1>1 DEF FeaturesInv, HigherLeft, Visited, Numbered
<1>6. ASSUME NEW k \in Numbered'
      PROVE  NoneHigher(folders'[stack'[k].region.id],
                        Range(left') \cap Inside(stack'[k].region.box))
  <2>1. stack'[k].region = stack[k].region
    OBVIOUS
  <2>2. CASE k \in Numbered
    <3>1. folders'[stack[k].region.id] = folders[stack[k].region.id]
      BY <1>4, <1>5, <2>2
    <3> QED BY <1>4, <1>5, <2>1, <2>2, <3>1 DEF NoneHigher
  <2>3. CASE k = n
    BY <1>1, <1>3, <2>1, <2>3
  <2> QED BY <2>2, <2>3 DEF m
<1>7. ASSUME NEW i \in DOMAIN folders', NEW j \in DOMAIN folders', Below(i, j)
      PROVE  NoneHigher(folders'[i], Range(folders'[j]))
  <2>1. CASE i \in DOMAIN folders /\ j \in DOMAIN folders
    BY <1>4, <1>7, <2>1 DEF FeaturesInv, HigherLeft
  <2>2. CASE i = id /\ j = id
    BY <1>2, <1>7, <2>2 DEF Below
  <2>3. CASE i \in DOMAIN folders /\ j = id
    <3>1. /\ i \in Seq(Quadrants) /\ Len(i) \in Nat /\ Len(i) < n - 1
          /\ \A k \in 1..Len(i) : i[k] = id[k]
      BY <1>2, <1>7, <2>3 DEF Below, FeaturesInv, FeaturesTyped
    <3>2. ~ Passed(i)
      <4> SUFFICES ASSUME NEW k \in 1..n, k <= Len(i), i[k] < stack[k].next PROVE FALSE
        BY <1>1 DEF Passed
      <4>1. k \in 1..Len(i) /\ k \in 1..(n - 1) /\ k < n
        BY <1>1, <3>1
      <4>2. id[k] = stack[k].next
        BY <1>1, <4>1 DEF FeaturesInv, Spine
      <4>3. stack[k].next \in Quadrants
        BY <1>1, <4>1
      <4> QED BY <3>1, <4>1, <4>2, <4>3 DEF Quadrants
    <3>3. OnWay(i)
      BY <2>3, <3>2 DEF FeaturesInv, Visited
    <3>4. PICK k \in Numbered : stack[k].region.id = i
      BY <3>3 DEF OnWay
    <3>5. k \in DOMAIN stack /\ k < n
      <4>1. k \in 1..n /\ k # n
        BY <1>5
      <4> QED BY ONLY <1>1, <4>1
    <3>6. Inside(box) \subseteq Inside(stack[k].region.box)
      BY <1>1, <3>5 DEF FeaturesInv, Nested
    <3>7. NoneHigher(folders[i], Range(left) \cap Inside(stack[k].region.box))
      BY <1>5, <3>4
    <3>8. folders'[i] = folders[i]
      BY <1>4, <2>3
    <3> QED BY <1>4, <2>3, <3>6, <3>7, <3>8 DEF NoneHigher
  <2>4. CASE i = id /\ j \in DOMAIN folders
    <3>1. /\ j \in Seq(Quadrants) /\ Len(j) \in Nat /\ n - 1 < Len(j)
          /\ \A k \in 1..(n - 1) : id[k] = j[k]
          /\ \A k \in 1..Len(j) : j[k] \in Quadrants
      BY <1>2, <1>7, <2>4 DEF Below, FeaturesInv, FeaturesTyped
    <3>2. ~ OnWay(j)
      <4> SUFFICES ASSUME NEW k \in Numbered, stack[k].region.id = j PROVE FALSE
        BY DEF OnWay
      <4>1. k \in 1..n /\ Len(j) = k - 1
        BY <1>1, <1>5
      <4> QED BY <1>1, <3>1, <4>1
    <3>3. Passed(j)
      BY <2>4, <3>2 DEF FeaturesInv, Visited
    <3>4. PICK k \in 1..n : k <= Len(j) /\ j[k] < stack[k].next
      BY <1>1, <3>3 DEF Passed
    <3>5. j[k] \in Quadrants
      BY <3>1, <3>4
    <3>6. CASE k = n
      BY <1>1, <3>4, <3>5, <3>6 DEF Quadrants
    <3>7. CASE k # n
      <4>1. k \in 1..(n - 1) /\ k < n
        BY <1>1, <3>7
      <4>2. id[k] = stack[k].next
        BY <1>1, <4>1 DEF FeaturesInv, Spine
      <4>3. j[k] = stack[k].next
        BY <3>1, <4>1, <4>2
      <4> QED BY <3>4, <3>5, <4>3 DEF Quadrants
    <3> QED BY <3>6, <3>7
  <2> QED BY <1>4, <2>1, <2>2, <2>3, <2>4
<1> QED BY <1>3, <1>6, <1>7

-----------------------------------------------------------------------------
(* When a call returns its Region is passed, and those on the way remain.  *)
Same(id) == (Lost(id) <=> Lost(id)') /\ (Filed(id) <=> Filed(id)')

Settled(id) == (Lost(id) \/ Filed(id)) /\ ~ (Lost(id) /\ Filed(id))

LEMMA ReturnVisited ==
    ASSUME IInv, FeaturesInv, stack # << >>, NEW b, Return(b),
           NEW top, top = Top.region.id,
           DOMAIN folders \subseteq DOMAIN folders',
           DOMAIN folders' \subseteq DOMAIN folders \cup {top},
           FeaturesTyped',
           \A id \in DOMAIN folders : id # top => Same(id),
           top \in DOMAIN folders' => Settled(top)'
    PROVE  /\ \A k \in Numbered' : stack'[k].region.id \in DOMAIN folders'
           /\ \A id \in DOMAIN folders' :
                /\ OnWay(id)' \/ Lost(id)' \/ Filed(id)'
                /\ ~ (Lost(id)' /\ Filed(id)')
                /\ stack' # << >> /\ (Lost(id)' \/ Filed(id)') => Passed(id)'
<1> DEFINE m == Len(stack)
<1> PICK n : n = m
  OBVIOUS
<1> HIDE DEF m
<1>1. /\ n \in Nat /\ n >= 1 /\ DOMAIN stack = 1..n /\ Top = stack[n]
      /\ \A k \in 1..(n - 1) : stack'[k].region = stack[k].region
      /\ Numbered' = 1..(n - 1) /\ Numbered' \subseteq Numbered
  BY ReturnFacts DEF m
<1>2. \A k \in Numbered' : stack'[k].region.id \in DOMAIN folders'
  BY <1>1 DEF FeaturesInv, Visited
<1>3. ASSUME NEW id \in DOMAIN folders'
      PROVE  /\ OnWay(id)' \/ Lost(id)' \/ Filed(id)'
             /\ ~ (Lost(id)' /\ Filed(id)')
             /\ stack' # << >> /\ (Lost(id)' \/ Filed(id)') => Passed(id)'
  <2>1. id \in Seq(Quadrants)
    BY DEF FeaturesTyped
  <2>2. CASE id = top
    <3>1. stack' # << >> => Passed(id)'
      BY <2>1, <2>2, ReturnPasses
    <3> QED BY <2>2, <3>1 DEF Settled
  <2>3. CASE id # top
    <3>1. id \in DOMAIN folders /\ Same(id)
      BY <2>3
    <3>2. /\ OnWay(id) \/ Lost(id) \/ Filed(id)
          /\ ~ (Lost(id) /\ Filed(id))
          /\ Lost(id) \/ Filed(id) => Passed(id)
      BY <3>1 DEF FeaturesInv, Visited
    <3>3. OnWay(id) => OnWay(id)'
      <4> SUFFICES ASSUME NEW k \in Numbered, stack[k].region.id = id PROVE OnWay(id)'
        BY DEF OnWay
      <4>1. k \in 1..n /\ k # n
        BY <1>1, <2>3 DEF Numbered
      <4>2. k \in 1..(n - 1)
        BY <1>1, <4>1
      <4> QED BY <1>1, <4>2 DEF OnWay
    <3>4. stack' # << >> /\ Passed(id) => Passed(id)'
      BY <2>1, ReturnPasses
    <3> QED BY ONLY <3>1, <3>2, <3>3, <3>4, Zenon DEF Same
  <2> QED BY <2>2, <2>3
<1> QED BY <1>2, <1>3

(* What was in the Region whose call returns is no longer left, or a       *)
(* refusal covers it.                                                      *)
CoveredNext(f) == \E r \in task'.refused : ContainsLatLon(r.box, f)

LEMMA ReturnAsked ==
    ASSUME IInv, LinksInv, FeaturesInv, stack # << >>, NEW b, Return(b),
           Range(left') \subseteq Range(left), task.refused \subseteq task'.refused,
           task'.given = task.given,
           \A f \in Range(left') \cap Inside(Top.region.box) : CoveredNext(f)
    PROVE  AskedFor'
<1> DEFINE m == Len(stack)
<1> PICK n : n = m
  OBVIOUS
<1> HIDE DEF m
<1>1. /\ n \in Nat /\ n >= 1 /\ DOMAIN stack = 1..n /\ Top = stack[n]
      /\ DOMAIN stack' = 1..(n - 1) /\ (stack' = << >> <=> n = 1)
      /\ \A k \in 1..(n - 1) :
           /\ k \in DOMAIN stack
           /\ stack'[k].region = stack[k].region /\ stack[k].next \in Quadrants
           /\ k # n - 1 => stack'[k] = stack[k]
           /\ k = n - 1 => stack'[k].next = stack[k].next + 1
  BY ReturnFacts DEF m
<1>2. \A f : Covered(f) => CoveredNext(f)
  BY DEF Covered, CoveredNext
<1>3. ASSUME NEW k \in 1..(n - 1), NEW q \in Quadrants, q < stack'[k].next,
             NEW f \in Range(left') \cap Inside(Quarter(stack[k].region.box, q))
      PROVE  CoveredNext(f)
  <2>1. CASE q < stack[k].next
    BY <1>1, <1>2, <2>1 DEF FeaturesInv, AskedFor
  <2>2. CASE ~ (q < stack[k].next)
    <3>1. k = n - 1 /\ q = stack[k].next
      BY <1>1, <1>3, <2>2 DEF Quadrants
    <3>2. n > 1 /\ n \in DOMAIN stack /\ n - 1 = k
      BY <1>1, <3>1
    <3>3. Top.region = Child(stack[k].region, q)
      BY <1>1, <3>1, <3>2 DEF LinksInv, Descent
    <3>4. Top.region.box = Quarter(stack[k].region.box, q)
      BY <3>3 DEF Child
    <3> QED BY <3>4
  <2> QED BY <2>1, <2>2
<1>4. \A k \in DOMAIN stack' : \A q \in Quadrants :
        q < stack'[k].next =>
          \A f \in Range(left') \cap Inside(Quarter(stack'[k].region.box, q)) : CoveredNext(f)
  BY <1>1, <1>3
<1>5. task.given \subseteq Inside(stack[1].region.box)
  BY DEF FeaturesInv, AskedFor
<1>6. stack' = << >> => \A f \in task'.given \cap Range(left') : CoveredNext(f)
  BY <1>1, <1>5
<1>7. stack' # << >> => task'.given \subseteq Inside(stack'[1].region.box)
  <2>1. n # 1 => 1 \in 1..(n - 1)
    BY <1>1
  <2> QED BY <1>1, <1>5, <2>1
<1> QED BY <1>4, <1>6, <1>7 DEF AskedFor, Covered, CoveredNext

(* A Region that is given features and a number goes on to its children.   *)
LEMMA NumberFeatures ==
    ASSUME IInv, FeaturesInv, stack # << >>, Top.next = 0,
           Shows(Top.region.id, Top.region.box),
           stack' = [stack EXCEPT ![Len(stack)].next = 1],
           UNCHANGED <<files, task>>
    PROVE  FeaturesInv'
<1> DEFINE m == Len(stack)
<1> PICK n, id : n = m /\ id = Top.region.id
  OBVIOUS
<1>1. /\ DOMAIN stack = 1..n /\ n \in Nat /\ n >= 1 /\ n \in DOMAIN stack /\ Top = stack[n]
      /\ id \in Seq(Quadrants) /\ id \notin DOMAIN folders /\ ~ Lost(id) /\ ~ Filed(id)
  BY StackFacts, TopIsNew
<1>2. /\ DOMAIN stack' = DOMAIN stack
      /\ \A k \in DOMAIN stack : k # n => stack'[k] = stack[k]
      /\ stack'[n] = [stack[n] EXCEPT !.next = 1]
  BY <1>1
<1>3. stack'[n].region = stack[n].region /\ stack'[n].next = 1
  <2> PICK Bs, Kids : stack \in Seq(Calls(Bs, Kids))
    BY DEF IInv, Shape
  <2>1. stack[n] \in Calls(Bs, Kids)
    BY <1>1
  <2> QED BY <1>2, <2>1 DEF Calls
<1> HIDE DEF m
<1>4. \A k \in DOMAIN stack : stack'[k].region = stack[k].region
  BY <1>2, <1>3
<1>5. Numbered' = Numbered \cup {n}
  BY <1>1, <1>2, <1>3 DEF Numbered
<1>6. \A k \in Numbered' : /\ stack'[k].region = stack[k].region
                           /\ k \in Numbered \/ k = Len(stack)
  <2>1. Numbered' \subseteq DOMAIN stack
    BY <1>2 DEF Numbered
  <2> QED BY <1>4, <1>5, <2>1 DEF m
<1>7. FeaturesTyped' /\ OnePlace'
  BY <1>1, ShowsTyped, ShowsOnePlace DEF FeaturesInv
<1>8. InBoxes' /\ HigherLeft'
  BY <1>6, ShowsInBoxes, ShowsHigher
<1>9. Spine'
  <2> SUFFICES ASSUME NEW k \in DOMAIN stack, NEW i \in 1..(k - 1)
               PROVE  stack'[k].region.id[i] = stack'[i].next
    BY <1>2 DEF Spine
  <2>1. stack[k].region.id[i] = stack[i].next
    BY DEF FeaturesInv, Spine
  <2>2. i \in DOMAIN stack /\ i # n
    BY <1>1
  <2> QED BY <1>2, <1>4, <2>1, <2>2
<1>10. Nested'
  <2>1. \A k \in DOMAIN stack : stack'[k].region.box \in Boxes
    BY <1>4 DEF FeaturesInv, Nested
  <2>2. ASSUME NEW k \in DOMAIN stack, NEW l \in DOMAIN stack, k < l
        PROVE  Inside(stack'[l].region.box) \subseteq Inside(stack'[k].region.box)
    BY <1>4, <2>2 DEF FeaturesInv, Nested
  <2> QED BY <1>2, <2>1, <2>2 DEF Nested
<1>11. Names' = Names /\ task' = task /\ \A jd : (Lost(jd) <=> Lost(jd)') /\ (Filed(jd) <=> Filed(jd)')
  BY DEF Names, Lost, Filed
<1>12. \A jd \in Seq(Quadrants) : Passed(jd) => Passed(jd)'
  <2> SUFFICES ASSUME NEW jd \in Seq(Quadrants), Passed(jd) PROVE Passed(jd)'
    OBVIOUS
  <2>1. PICK k \in DOMAIN stack : /\ k <= Len(jd) /\ jd[k] < stack[k].next
                                  /\ \A i \in 1..(k - 1) : jd[i] = stack[i].next
    BY DEF Passed
  <2>2. jd[k] < stack'[k].next
    <3>1. CASE k = n
      <4>1. jd[k] \in Quadrants
        <5>1. Len(jd) \in Nat /\ \A i \in 1..Len(jd) : jd[i] \in Quadrants
          OBVIOUS
        <5> QED BY <1>1, <2>1, <5>1
      <4>2. jd[k] < 0
        BY <1>1, <2>1, <3>1
      <4> QED BY <4>1, <4>2 DEF Quadrants
    <3>2. CASE k # n
      BY <1>2, <2>1, <3>2
    <3> QED BY <3>1, <3>2
  <2>3. \A i \in 1..(k - 1) : i \in DOMAIN stack /\ i # n
    BY <1>1
  <2>4. \A i \in 1..(k - 1) : jd[i] = stack'[i].next
    BY <1>2, <2>1, <2>3
  <2> QED BY <1>2, <2>1, <2>2, <2>4 DEF Passed
<1>13. \A jd : OnWay(jd) => OnWay(jd)'
  BY <1>4, <1>5 DEF OnWay, Numbered
<1>14. OnWay(id)'
  <2>1. n \in Numbered' /\ stack'[n].region.id = id
    BY <1>1, <1>3, <1>5
  <2> QED BY <2>1 DEF OnWay
<1>15. /\ DOMAIN folders' = DOMAIN folders \cup {id}
       /\ \A i \in DOMAIN folders : folders'[i] = folders[i]
  BY <1>1 DEF Shows
<1>16. Visited'
  <2>1. \A k \in Numbered' : stack'[k].region.id \in DOMAIN folders'
    BY <1>1, <1>3, <1>5, <1>6, <1>15 DEF FeaturesInv, Visited
  <2>2. \A k \in Names' : /\ files'[k].region.id \in DOMAIN folders'
                          /\ files'[k].shows = folders'[files'[k].region.id]
    BY <1>11, <1>15 DEF FeaturesInv, Visited
  <2>3. \A r \in task'.refused : r.id \in DOMAIN folders'
    BY <1>11, <1>15 DEF FeaturesInv, Visited
  <2>4. ASSUME NEW jd \in DOMAIN folders'
        PROVE  /\ OnWay(jd)' \/ Lost(jd)' \/ Filed(jd)'
               /\ ~ (Lost(jd)' /\ Filed(jd)')
               /\ stack' # << >> /\ (Lost(jd)' \/ Filed(jd)') => Passed(jd)'
    <3>1. CASE jd = id
      BY <1>1, <1>11, <1>14, <3>1
    <3>2. CASE jd \in DOMAIN folders
      <4>1. /\ OnWay(jd) \/ Lost(jd) \/ Filed(jd)
            /\ ~ (Lost(jd) /\ Filed(jd))
            /\ Lost(jd) \/ Filed(jd) => Passed(jd)
        BY <3>2 DEF FeaturesInv, Visited
      <4>2. jd \in Seq(Quadrants)
        BY <3>2 DEF FeaturesInv, FeaturesTyped
      <4> QED BY ONLY <1>11, <1>12, <1>13, <4>1, <4>2, Zenon
    <3> QED BY <1>15, <3>1, <3>2
  <2>5. \A k, l \in Names' : files'[k].region.id = files'[l].region.id => k = l
    BY <1>11 DEF FeaturesInv, Visited
  <2> QED BY <2>1, <2>2, <2>3, <2>4, <2>5 DEF Visited
<1>17. AskedFor'
  <2>1. Range(left') \subseteq Range(left)
    BY DEF Shows
  <2>2. ASSUME NEW k \in DOMAIN stack, NEW q \in Quadrants, q < stack'[k].next
        PROVE  q < stack[k].next
    <3>1. k # n
      BY <1>3, <2>2 DEF Quadrants
    <3> QED BY <1>2, <2>2, <3>1
  <2>3. stack' # << >>
    BY <1>1, <1>2
  <2>4. 1 \in DOMAIN stack
    BY <1>1
  <2> QED BY <1>2, <1>4, <2>1, <2>2, <2>3, <2>4 DEF FeaturesInv, AskedFor, Covered
<1> QED BY <1>7, <1>8, <1>9, <1>10, <1>16, <1>17 DEF FeaturesInv

-----------------------------------------------------------------------------
(* The ways a call returns.                                                *)
LEMMA ReturnCalls ==
    ASSUME IInv, stack # << >>, NEW b, Return(b)
    PROVE  /\ Numbered' \subseteq Numbered
           /\ \A k \in Numbered' : stack'[k].region = stack[k].region
<1> DEFINE m == Len(stack)
<1> PICK n : n = m
  OBVIOUS
<1> HIDE DEF m
<1>1. /\ \A k \in 1..(n - 1) : stack'[k].region = stack[k].region
      /\ Numbered' = 1..(n - 1) /\ Numbered' \subseteq Numbered
  BY ReturnFacts DEF m
<1> QED BY <1>1

SameAims == task'.max = task.max /\ task'.given = task.given /\ task'.sorted = task.sorted

LEMMA DataStays ==
    ASSUME FeaturesInv, UNCHANGED <<parents, left, folders>>, SameAims,
           Numbered' \subseteq Numbered,
           \A k \in Numbered' : stack'[k].region = stack[k].region
    PROVE  /\ FeaturesTyped' /\ OnePlace' /\ HigherLeft'
           /\ UNCHANGED files => InBoxes'
<1>1. FeaturesTyped'
  BY DEF FeaturesInv, FeaturesTyped, SameAims
<1>2. OnePlace'
  BY DEF FeaturesInv, OnePlace, SameAims
<1>3. HigherLeft'
  <2> SUFFICES ASSUME task.sorted
               PROVE  /\ Falling(left)
                      /\ \A k \in Numbered' :
                           NoneHigher(folders[stack'[k].region.id],
                                      Range(left) \cap Inside(stack'[k].region.box))
                      /\ \A i, j \in DOMAIN folders :
                           Below(i, j) => NoneHigher(folders[i], Range(folders[j]))
    BY DEF HigherLeft, SameAims, Falling, NoneHigher
  <2>1. \A k \in Numbered' : k \in Numbered /\ stack'[k].region = stack[k].region
    OBVIOUS
  <2> QED BY <2>1 DEF FeaturesInv, HigherLeft
<1>4. ASSUME UNCHANGED files PROVE InBoxes'
  <2>1. \A k \in Numbered' :
          Range(folders[stack'[k].region.id]) \subseteq Inside(stack'[k].region.box)
    BY DEF FeaturesInv, InBoxes
  <2> QED BY <1>4, <2>1 DEF FeaturesInv, InBoxes, SameAims, Names
<1> QED BY <1>1, <1>2, <1>3, <1>4

(* There is nothing left in the Region.                                    *)
LEMMA EmptyFeatures ==
    ASSUME IInv, LinksInv, FeaturesInv, stack # << >>, Top.next = 0, NEW b, Return(b),
           Range(left) \cap Inside(Top.region.box) = {},
           UNCHANGED <<parents, left, folders, files, task>>
    PROVE  FeaturesInv'
<1> PICK top : top = Top.region.id
  OBVIOUS
<1>1. /\ Numbered' \subseteq Numbered
      /\ \A k \in Numbered' : stack'[k].region = stack[k].region
  BY ReturnCalls
<1>2. FeaturesTyped' /\ OnePlace' /\ HigherLeft' /\ InBoxes'
  BY <1>1, DataStays DEF SameAims
<1>3. top \notin DOMAIN folders'
  BY TopIsNew
<1>4. /\ \A k \in Numbered' : stack'[k].region.id \in DOMAIN folders'
      /\ \A id \in DOMAIN folders' :
           /\ OnWay(id)' \/ Lost(id)' \/ Filed(id)'
           /\ ~ (Lost(id)' /\ Filed(id)')
           /\ stack' # << >> /\ (Lost(id)' \/ Filed(id)') => Passed(id)'
  <2>1. \A id \in DOMAIN folders : Same(id)
    BY DEF Same, Lost, Filed, Names
  <2> QED BY <1>2, <1>3, <2>1, ReturnVisited
<1>5. Visited'
  BY <1>4 DEF FeaturesInv, Visited, Names
<1>6. AskedFor'
  BY ReturnAsked
<1> QED BY <1>2, <1>5, <1>6, ReturnSpine DEF FeaturesInv

(* What the Region shows is refused, before its number or at the end.      *)
LEMMA RefusedFacts ==
    ASSUME LinksInv, FeaturesInv, NEW r, r = Top.region,
           task' = [task EXCEPT !.refused = @ \cup {r}]
    PROVE  /\ SameAims /\ task'.refused = task.refused \cup {r}
           /\ \A id : Lost(id)' <=> Lost(id) \/ id = r.id
           /\ \A f \in Inside(r.box) : CoveredNext(f)
<1>1. SameAims
  BY DEF SameAims
<1>2. task'.refused = task.refused \cup {r}
  BY DEF LinksInv, RefusedKnown
<1> QED BY <1>1, <1>2 DEF Lost, CoveredNext, Inside

LEMMA RefuseVisited ==
    ASSUME IInv, LinksInv, FeaturesInv, stack # << >>, NEW b, Return(b), FeaturesTyped',
           NEW r, r = Top.region, task' = [task EXCEPT !.refused = @ \cup {r}],
           DOMAIN folders' = DOMAIN folders \cup {r.id},
           \A id \in DOMAIN folders : id # r.id => folders'[id] = folders[id],
           UNCHANGED files
    PROVE  Visited'
<1> PICK top : top = r.id
  OBVIOUS
<1>1. /\ task'.refused = task.refused \cup {r}
      /\ \A id : Lost(id)' <=> Lost(id) \/ id = top
  BY RefusedFacts
<1>2. Names' = Names /\ \A id : Filed(id)' <=> Filed(id)
  BY DEF Names, Filed
<1>3. ~ Filed(top)
  BY TopIsNew
<1>4. Settled(top)'
  BY <1>1, <1>2, <1>3 DEF Settled
<1>5. \A id \in DOMAIN folders : id # top => Same(id)
  BY <1>1, <1>2 DEF Same
<1>6. /\ \A k \in Numbered' : stack'[k].region.id \in DOMAIN folders'
      /\ \A id \in DOMAIN folders' :
           /\ OnWay(id)' \/ Lost(id)' \/ Filed(id)'
           /\ ~ (Lost(id)' /\ Filed(id)')
           /\ stack' # << >> /\ (Lost(id)' \/ Filed(id)') => Passed(id)'
  BY <1>4, <1>5, ReturnVisited
<1>7. \A n \in Names' : /\ files'[n].region.id \in DOMAIN folders'
                        /\ files'[n].shows = folders'[files'[n].region.id]
  <2> SUFFICES ASSUME NEW n \in Names
               PROVE  /\ files[n].region.id \in DOMAIN folders'
                      /\ files[n].shows = folders'[files[n].region.id]
    BY <1>2
  <2>1. files[n].region.id # top
    BY <1>3 DEF Filed
  <2> QED BY <2>1 DEF FeaturesInv, Visited
<1>8. \A p \in task'.refused : p.id \in DOMAIN folders'
  BY <1>1 DEF FeaturesInv, Visited
<1>9. \A n, m \in Names' : files'[n].region.id = files'[m].region.id => n = m
  BY <1>2 DEF FeaturesInv, Visited
<1> QED BY <1>6, <1>7, <1>8, <1>9 DEF Visited

LEMMA RefuseFeatures ==
    ASSUME IInv, LinksInv, FeaturesInv, stack # << >>, Top.next = 0, NEW b, Return(b),
           Shows(Top.region.id, Top.region.box), UNCHANGED files,
           task' = [task EXCEPT !.refused = @ \cup {Top.region}]
    PROVE  FeaturesInv'
<1> PICK r : r = Top.region
  OBVIOUS
<1>1. /\ SameAims /\ task'.refused = task.refused \cup {r}
      /\ \A f \in Inside(r.box) : CoveredNext(f)
  BY RefusedFacts
<1>2. \A k \in Numbered' : stack'[k].region = stack[k].region /\ k \in Numbered
  BY ReturnCalls
<1>3. r.id \in Seq(Quadrants) /\ r.id \notin DOMAIN folders
  BY StackFacts, TopIsNew
<1>4. FeaturesTyped' /\ OnePlace'
  BY <1>1, <1>3, ShowsTyped, ShowsOnePlace DEF FeaturesInv, SameAims
<1>5. InBoxes' /\ HigherLeft'
  BY <1>1, <1>2, ShowsInBoxes, ShowsHigher DEF SameAims
<1>6. Visited'
  BY <1>4, RefuseVisited DEF Shows
<1>7. AskedFor'
  <2>1. Range(left') \subseteq Range(left)
    BY DEF Shows
  <2> QED BY <1>1, <2>1, ReturnAsked DEF SameAims
<1> QED BY <1>4, <1>5, <1>6, <1>7, ReturnSpine DEF FeaturesInv

(* A call that has asked all its children has left nothing.                *)
LEMMA AllAsked ==
    ASSUME IInv, FeaturesInv, stack # << >>, Top.next = Done,
           NEW f \in Range(left) \cap Inside(Top.region.box)
    PROVE  Covered(f)
<1>1. Len(stack) \in DOMAIN stack /\ Top = stack[Len(stack)]
  BY StackFacts
<1>2. Top.region.box \in Boxes
  BY <1>1 DEF FeaturesInv, Nested
<1>3. PICK q \in Quadrants : f \in Inside(Quarter(Top.region.box, q))
  BY <1>2, QuartersCover
<1>4. q < Top.next
  BY DEF Quadrants, Done
<1> QED BY <1>1, <1>3, <1>4 DEF FeaturesInv, AskedFor

LEMMA DropFeatures ==
    ASSUME IInv, LinksInv, FeaturesInv, stack # << >>, Top.next = Done, NEW b, Return(b),
           UNCHANGED <<parents, left, folders, files>>,
           task' = [task EXCEPT !.refused = @ \cup {Top.region}]
    PROVE  FeaturesInv'
<1> PICK r : r = Top.region
  OBVIOUS
<1>1. /\ SameAims /\ task'.refused = task.refused \cup {r}
      /\ \A f \in Inside(r.box) : CoveredNext(f)
  BY RefusedFacts
<1>2. /\ Numbered' \subseteq Numbered
      /\ \A k \in Numbered' : stack'[k].region = stack[k].region
  BY ReturnCalls
<1>3. FeaturesTyped' /\ OnePlace' /\ HigherLeft' /\ InBoxes'
  BY <1>1, <1>2, DataStays
<1>4. r.id \in DOMAIN folders
  <2>1. Len(stack) \in Numbered /\ Top = stack[Len(stack)]
    BY StackFacts DEF Numbered, Done
  <2> QED BY <2>1 DEF FeaturesInv, Visited
<1>5. Visited'
  BY <1>3, <1>4, RefuseVisited
<1>6. AskedFor'
  BY <1>1, ReturnAsked DEF SameAims
<1> QED BY <1>3, <1>5, <1>6, ReturnSpine DEF FeaturesInv

LEMMA WriteFeatures ==
    ASSUME IInv, LinksInv, FeaturesInv, stack # << >>, Top.next = Done, NEW b, Return(b),
           NEW name, name \notin Names,
           files' = [n \in DOMAIN files \cup {name} |->
                       IF n = name THEN Document(Top.region) ELSE files[n]],
           UNCHANGED <<parents, left, folders, task>>
    PROVE  FeaturesInv'
<1> PICK r, top : r = Top.region /\ top = r.id
  OBVIOUS
<1>1. /\ Names' = Names \cup {name}
      /\ files'[name].region = r /\ files'[name].shows = folders[top]
      /\ \A n \in Names : files'[n] = files[n]
  BY DEF Names, Document
<1>2. /\ Numbered' \subseteq Numbered
      /\ \A k \in Numbered' : stack'[k].region = stack[k].region
  BY ReturnCalls
<1>3. FeaturesTyped' /\ OnePlace' /\ HigherLeft' /\ SameAims
  BY <1>2, DataStays DEF SameAims
<1>4. Len(stack) \in Numbered /\ Top = stack[Len(stack)]
  BY StackFacts DEF Numbered, Done
<1>5. top \in DOMAIN folders /\ Range(folders[top]) \subseteq Inside(r.box)
  BY <1>4 DEF FeaturesInv, Visited, InBoxes
<1>6. ~ Lost(top) /\ ~ Filed(top)
  BY TopIsNew
<1>7. InBoxes'
  <2>1. \A k \in Numbered' :
          Range(folders[stack'[k].region.id]) \subseteq Inside(stack'[k].region.box)
    BY <1>2 DEF FeaturesInv, InBoxes
  <2>2. \A n \in Names' : Range(files'[n].shows) \subseteq Inside(files'[n].region.box)
    BY <1>1, <1>5 DEF FeaturesInv, InBoxes
  <2> QED BY <2>1, <2>2 DEF FeaturesInv, InBoxes
<1>8. \A id : /\ Lost(id)' <=> Lost(id)
              /\ Filed(id)' <=> Filed(id) \/ id = top
  BY <1>1 DEF Lost, Filed
<1>9. /\ \A k \in Numbered' : stack'[k].region.id \in DOMAIN folders'
      /\ \A id \in DOMAIN folders' :
           /\ OnWay(id)' \/ Lost(id)' \/ Filed(id)'
           /\ ~ (Lost(id)' /\ Filed(id)')
           /\ stack' # << >> /\ (Lost(id)' \/ Filed(id)') => Passed(id)'
  <2>1. Settled(top)'
    BY <1>6, <1>8 DEF Settled
  <2>2. \A id \in DOMAIN folders : id # top => Same(id)
    BY <1>8 DEF Same
  <2> QED BY <1>3, <1>5, <2>1, <2>2, ReturnVisited
<1>10. \A n \in Names' : /\ files'[n].region.id \in DOMAIN folders
                         /\ files'[n].shows = folders[files'[n].region.id]
  BY <1>1, <1>5, ZenonT(40) DEF FeaturesInv, Visited
<1>11. \A n, m \in Names' : files'[n].region.id = files'[m].region.id => n = m
  <2>1. \A n \in Names : files'[n].region.id # top
    BY <1>1, <1>6 DEF Filed
  <2>2. ASSUME NEW n \in Names, NEW m \in Names, files'[n].region.id = files'[m].region.id
        PROVE  n = m
    <3>1. files[n].region.id = files[m].region.id
      BY <1>1, <2>2
    <3> QED BY <3>1 DEF FeaturesInv, Visited
  <2>3. files'[name].region.id = top
    BY <1>1
  <2> SUFFICES ASSUME NEW n \in Names', NEW m \in Names',
                      files'[n].region.id = files'[m].region.id
               PROVE  n = m
    OBVIOUS
  <2>4. CASE n \in Names /\ m \in Names
    BY <2>2, <2>4
  <2>5. CASE n = name
    <3>1. m \notin Names
      BY <2>1, <2>3, <2>5
    <3> QED BY <1>1, <2>5, <3>1
  <2>6. CASE m = name
    <3>1. n \notin Names
      BY <2>1, <2>3, <2>6
    <3> QED BY <1>1, <2>6, <3>1
  <2> QED BY <1>1, <2>4, <2>5, <2>6
<1>12. Visited'
  BY <1>9, <1>10, <1>11 DEF FeaturesInv, Visited
<1>13. AskedFor'
  <2>1. \A f \in Range(left') \cap Inside(Top.region.box) : CoveredNext(f)
    BY AllAsked DEF Covered, CoveredNext
  <2> QED BY <1>3, <2>1, ReturnAsked DEF SameAims
<1> QED BY <1>3, <1>7, <1>12, <1>13, ReturnSpine DEF FeaturesInv

-----------------------------------------------------------------------------
(* A child is asked: its Region is a quarter of the caller's.              *)
LEMMA RecurseFeatures ==
    ASSUME IInv, LinksInv, FeaturesInv, Recurse
    PROVE  FeaturesInv'
<1> DEFINE m == Len(stack)
<1> PICK n, q, c : n = m /\ q = Top.next /\ c = Call(Child(Top.region, Top.next))
  OBVIOUS
<1>1. /\ stack # << >> /\ q \in Quadrants /\ stack' = Append(stack, c)
      /\ UNCHANGED <<parents, left, folders, files, task>>
  BY DEF Recurse
<1>2. /\ DOMAIN stack = 1..n /\ n \in Nat /\ n >= 1 /\ Top = stack[n] /\ n \in DOMAIN stack
      /\ Top.region.id \in Seq(Quadrants) /\ Len(Top.region.id) = n - 1
  <2>1. DOMAIN stack = 1..n /\ n \in Nat /\ n >= 1 /\ Top = stack[n]
    BY <1>1, StackFacts
  <2>2. n \in DOMAIN stack
    BY <2>1
  <2> QED BY <1>1, <2>1, <2>2, StackFacts
<1>3. IsList(stack)
  BY DEF IsList, IInv, Shape
<1>4. /\ c.region.id = Append(Top.region.id, q) /\ c.region.box = Quarter(Top.region.box, q)
      /\ c.next = 0
  BY DEF Call, Child
<1>5. /\ DOMAIN stack' = 1..(n + 1) /\ stack'[n + 1] = c
      /\ \A k \in 1..n : stack'[k] = stack[k]
  BY <1>1, <1>3, ListAppend
<1> HIDE DEF m
<1>6. DOMAIN stack' = DOMAIN stack \cup {n + 1} /\ n + 1 \notin DOMAIN stack
      /\ \A k \in DOMAIN stack : stack'[k] = stack[k]
  BY <1>2, <1>5
<1>7. Numbered' = Numbered
  BY <1>4, <1>5, <1>6 DEF Numbered
<1>8. \A k \in Numbered' : stack'[k].region = stack[k].region
  BY <1>6, <1>7 DEF Numbered
<1>9. FeaturesTyped' /\ OnePlace' /\ HigherLeft' /\ InBoxes'
  BY <1>1, <1>7, <1>8, DataStays DEF SameAims
<1>10. Spine'
  <2>1. ASSUME NEW k \in DOMAIN stack, NEW i \in 1..(k - 1)
        PROVE  stack'[k].region.id[i] = stack'[i].next
    <3>1. stack[k].region.id[i] = stack[i].next
      BY DEF FeaturesInv, Spine
    <3>2. i \in DOMAIN stack
      BY <1>2
    <3> QED BY <1>6, <3>1, <3>2
  <2>2. ASSUME NEW i \in 1..n PROVE stack'[n + 1].region.id[i] = stack'[i].next
    <3>1. /\ \A j \in 1..(n - 1) : Append(Top.region.id, q)[j] = Top.region.id[j]
          /\ Append(Top.region.id, q)[n] = q
      <4>1. /\ \A j \in 1..Len(Top.region.id) : Append(Top.region.id, q)[j] = Top.region.id[j]
            /\ Append(Top.region.id, q)[Len(Top.region.id) + 1] = q
        BY <1>1, <1>2, AppendProperties
      <4>2. n - 1 + 1 = n
        BY <1>2
      <4> QED BY <1>2, <4>1, <4>2
    <3>2. CASE i = n
      BY <1>2, <1>4, <1>5, <3>1, <3>2, SMTT(40)
    <3>3. CASE i # n
      <4>1. i \in 1..(n - 1)
        BY <1>2, <3>3
      <4>2. Top.region.id[i] = stack[i].next
        BY <1>2, <4>1 DEF FeaturesInv, Spine
      <4> QED BY <1>4, <1>5, <3>1, <4>1, <4>2, ZenonT(40)
    <3> QED BY <3>2, <3>3
  <2>3. n + 1 - 1 = n
    BY <1>2
  <2> SUFFICES ASSUME NEW k \in DOMAIN stack', NEW i \in 1..(k - 1)
               PROVE  stack'[k].region.id[i] = stack'[i].next
    BY DEF Spine
  <2>4. CASE k \in DOMAIN stack
    BY <2>1, <2>4
  <2>5. CASE k = n + 1
    <3>1. i \in 1..n
      BY <1>2, <2>5
    <3> QED BY <2>2, <2>5, <3>1
  <2> QED BY <1>6, <2>4, <2>5
<1>11. Nested'
  <2>1. Top.region.box \in Boxes
    BY <1>2 DEF FeaturesInv, Nested
  <2>2. c.region.box \in Boxes /\ Inside(c.region.box) \subseteq Inside(Top.region.box)
    BY <1>1, <1>4, <2>1, QuarterIsBox, QuarterInside
  <2>3. \A k \in DOMAIN stack' : stack'[k].region.box \in Boxes
    BY <1>5, <1>6, <2>2 DEF FeaturesInv, Nested
  <2>4. ASSUME NEW k \in DOMAIN stack', NEW l \in DOMAIN stack', k < l
        PROVE  Inside(stack'[l].region.box) \subseteq Inside(stack'[k].region.box)
    <3>1. k \in DOMAIN stack /\ stack'[k] = stack[k]
      BY <1>2, <1>5, <2>4
    <3>2. CASE l \in DOMAIN stack
      BY <1>6, <2>4, <3>1, <3>2 DEF FeaturesInv, Nested
    <3>3. CASE l = n + 1
      <4>1. k = n \/ k < n
        BY <1>2, <2>4, <3>1
      <4>2. Inside(Top.region.box) \subseteq Inside(stack[k].region.box)
        <5>1. CASE k = n
          BY <1>2, <5>1
        <5>2. CASE k < n
          BY <1>2, <3>1, <5>2 DEF FeaturesInv, Nested
        <5> QED BY <4>1, <5>1, <5>2
      <4> QED BY <1>5, <2>2, <3>1, <3>3, <4>2
    <3> QED BY <1>6, <3>2, <3>3
  <2> QED BY <2>3, <2>4 DEF Nested
<1>12. Names' = Names /\ task' = task /\ files' = files /\ folders' = folders
       /\ \A id : (Lost(id) <=> Lost(id)') /\ (Filed(id) <=> Filed(id)')
  BY <1>1 DEF Names, Lost, Filed
<1>13. \A id : /\ Passed(id) => Passed(id)'
               /\ OnWay(id) => OnWay(id)'
  <2>1. ASSUME NEW id, Passed(id) PROVE Passed(id)'
    <3>1. PICK k \in DOMAIN stack : /\ k <= Len(id) /\ id[k] < stack[k].next
                                    /\ \A i \in 1..(k - 1) : id[i] = stack[i].next
      BY <2>1 DEF Passed
    <3>2. \A i \in 1..(k - 1) : i \in DOMAIN stack
      BY <1>2
    <3>3. \A i \in 1..(k - 1) : id[i] = stack'[i].next
      BY <1>6, <3>1, <3>2
    <3> QED BY <1>6, <3>1, <3>3 DEF Passed
  <2>2. ASSUME NEW id, OnWay(id) PROVE OnWay(id)'
    BY <1>7, <1>8, <2>2 DEF OnWay
  <2> QED BY <2>1, <2>2
<1>14. Visited'
  <2>1. \A k \in Numbered' : stack'[k].region.id \in DOMAIN folders
    BY <1>7, <1>8 DEF FeaturesInv, Visited
  <2>2. ASSUME NEW id \in DOMAIN folders
        PROVE  /\ OnWay(id)' \/ Lost(id)' \/ Filed(id)'
               /\ ~ (Lost(id)' /\ Filed(id)')
               /\ stack' # << >> /\ (Lost(id)' \/ Filed(id)') => Passed(id)'
    <3>1. /\ OnWay(id) \/ Lost(id) \/ Filed(id)
          /\ ~ (Lost(id) /\ Filed(id))
          /\ Lost(id) \/ Filed(id) => Passed(id)
      BY <1>1 DEF FeaturesInv, Visited
    <3> QED BY ONLY <1>12, <1>13, <3>1, Zenon
  <2> QED BY <1>12, <2>1, <2>2 DEF FeaturesInv, Visited
<1>15. AskedFor'
  <2>1. ASSUME NEW k \in DOMAIN stack', NEW p \in Quadrants, p < stack'[k].next
        PROVE  k \in DOMAIN stack /\ stack'[k] = stack[k]
    <3>1. k # n + 1
      BY <1>4, <1>5, <2>1 DEF Quadrants
    <3> QED BY <1>6, <3>1
  <2>2. stack' # << >> /\ stack'[1] = stack[1]
    <3>1. 1 \in DOMAIN stack /\ 1 \in DOMAIN stack'
      BY <1>2, <1>6
    <3> QED BY <1>6, <3>1
  <2> QED BY <1>1, <2>1, <2>2 DEF FeaturesInv, AskedFor, Covered
<1> QED BY <1>9, <1>10, <1>11, <1>14, <1>15 DEF FeaturesInv

LEMMA StartFeatures ==
    ASSUME NEW l \in Seq(Features), NEW box \in Boxes, NEW sorted, sorted => Falling(l),
           NEW max \in Nat, NEW name, Start(l, box, sorted, max, name), UNCHANGED parents
    PROVE  FeaturesInv'
<1>1. /\ left' = l /\ folders' = << >> /\ stack' = <<Call(Root(box))>> /\ files' = << >>
      /\ task'.sorted = sorted /\ task'.max = max /\ task'.refused = {}
      /\ task'.given = (Range(l) \cap Inside(box)) \ parents
  BY DEF Start
<1>2. /\ DOMAIN stack' = {1} /\ stack'[1].next = 0 /\ stack'[1].region.box = box
      /\ stack' # << >>
  BY <1>1 DEF Call, Root
<1>3. DOMAIN folders' = {} /\ Names' = {} /\ Numbered' = {}
  BY <1>1, <1>2 DEF Names, Numbered
<1>4. Range(l) \subseteq Features
  BY ListFacts
<1>5. FeaturesTyped'
  BY <1>1, <1>3, <1>4 DEF FeaturesTyped
<1>6. Spine' /\ Nested'
  BY <1>2 DEF Spine, Nested
<1>7. Visited' /\ InBoxes'
  BY <1>1, <1>3 DEF Visited, InBoxes
<1>8. OnePlace'
  BY <1>1, <1>3 DEF OnePlace
<1>9. AskedFor'
  <2>1. ~ \E q \in Quadrants : q < 0
    BY DEF Quadrants
  <2> QED BY <1>1, <1>2, <2>1 DEF AskedFor
<1>10. HigherLeft'
  BY <1>1, <1>3 DEF HigherLeft, Falling
<1> QED BY <1>5, <1>6, <1>7, <1>8, <1>9, <1>10 DEF FeaturesInv

LEMMA InitFeatures == Init => FeaturesInv /\ list \in Seq(Features)
<1> SUFFICES ASSUME Init PROVE FeaturesInv /\ list \in Seq(Features)
  OBVIOUS
<1>1. /\ left = << >> /\ folders = << >> /\ stack = << >> /\ files = << >>
      /\ ~ task.sorted /\ task.max = 0 /\ task.refused = {} /\ task.given = {}
  BY DEF Init, NoTask
<1>2. DOMAIN folders = {} /\ Names = {} /\ Numbered = {} /\ DOMAIN stack = {}
  BY <1>1 DEF Names, Numbered
<1>3. FeaturesTyped
  BY <1>1, <1>2 DEF FeaturesTyped
<1>4. Spine /\ Nested
  BY <1>2 DEF Spine, Nested
<1>5. Visited /\ InBoxes /\ OnePlace
  BY <1>1, <1>2 DEF Visited, InBoxes, OnePlace
<1>6. AskedFor /\ HigherLeft
  BY <1>1, <1>2 DEF AskedFor, HigherLeft
<1>7. list \in Seq(Features)
  BY RegionatorAssumption DEF Init
<1> QED BY <1>3, <1>4, <1>5, <1>6, <1>7 DEF FeaturesInv

LEMMA HasDataFeatures == ASSUME IInv, LinksInv, FeaturesInv, HasData PROVE FeaturesInv'
<1> DEFINE r == Top.region
           s == Split(left, r.box, task.max)
           no == FALSE
<1>1. stack # << >> /\ Top.next = 0 /\ UNCHANGED files /\ ~ no
  BY DEF HasData
<1>2. CASE s = << >> /\ Return(no) /\ UNCHANGED <<parents, left, folders, task>>
  <2>1. Range(left) \cap Inside(r.box) = {}
    BY <1>2, SplitFacts DEF FeaturesInv, FeaturesTyped
  <2> HIDE DEF no
  <2> QED BY <1>1, <1>2, <2>1, EmptyFeatures
<1>3. CASE /\ left' = Without(left, s) /\ parents' = parents \cup Range(s)
           /\ folders' = [i \in DOMAIN folders \cup {r.id} |->
                            IF i = r.id THEN Save(s) ELSE folders[i]]
           /\ \/ /\ stack' = [stack EXCEPT ![Len(stack)].next = 1] /\ UNCHANGED task
              \/ /\ Return(no) /\ task' = [task EXCEPT !.refused = @ \cup {r}]
  <2>1. Shows(Top.region.id, Top.region.box)
    BY <1>3, SplitShows DEF FeaturesInv
  <2> HIDE DEF no, s
  <2>2. CASE stack' = [stack EXCEPT ![Len(stack)].next = 1] /\ UNCHANGED task
    BY <1>1, <2>1, <2>2, NumberFeatures
  <2>3. CASE Return(no) /\ task' = [task EXCEPT !.refused = @ \cup {r}]
    BY <1>1, <2>1, <2>3, RefuseFeatures
  <2> QED BY <1>3, <2>2, <2>3
<1> QED BY <1>2, <1>3 DEF HasData

LEMMA SaveKmlFeatures == ASSUME IInv, LinksInv, FeaturesInv, SaveKml PROVE FeaturesInv'
<1> DEFINE name == RegionFilename(Top.region)
           yes == TRUE
           no == FALSE
<1>1. stack # << >> /\ Top.next = Done /\ UNCHANGED <<parents, left, folders>>
  BY DEF SaveKml
<1>2. CASE /\ files' = [n \in DOMAIN files \cup {name} |->
                          IF n = name THEN Document(Top.region) ELSE files[n]]
           /\ Return(yes) /\ UNCHANGED task
  <2>1. name \notin Names
    BY <1>1, NameIsNew
  <2> HIDE DEF yes, name
  <2> QED BY <1>1, <1>2, <2>1, WriteFeatures
<1>3. CASE /\ Return(no) /\ UNCHANGED files
           /\ task' = [task EXCEPT !.refused = @ \cup {Top.region}]
  <2> HIDE DEF no
  <2> QED BY <1>1, <1>3, DropFeatures
<1> QED BY <1>2, <1>3 DEF SaveKml

LEMMA NextFeatures ==
    IInv /\ LinksInv /\ FeaturesInv /\ list \in Seq(Features) /\ [Next]_vars
      => (FeaturesInv /\ list \in Seq(Features))'
<1> SUFFICES ASSUME IInv, LinksInv, FeaturesInv, list \in Seq(Features), [Next]_vars
             PROVE  FeaturesInv' /\ list' \in Seq(Features)
  OBVIOUS
<1>1. ASSUME UNCHANGED <<parents, left, folders, stack, files, task>> PROVE FeaturesInv'
  <2>1. /\ FeaturesTyped' = FeaturesTyped /\ Spine' = Spine /\ Nested' = Nested
        /\ OnePlace' = OnePlace /\ Numbered' = Numbered /\ Names' = Names
    BY <1>1 DEF FeaturesTyped, Spine, Nested, OnePlace, Numbered, Names
  <2>2. \A id : /\ OnWay(id)' = OnWay(id) /\ Passed(id)' = Passed(id)
                /\ Lost(id)' = Lost(id) /\ Filed(id)' = Filed(id)
    BY <1>1, <2>1 DEF OnWay, Passed, Lost, Filed
  <2>3. Visited' = Visited
    BY <1>1, <2>1, <2>2 DEF Visited
  <2>4. InBoxes' = InBoxes /\ AskedFor' = AskedFor /\ HigherLeft' = HigherLeft
    BY <1>1, <2>1 DEF InBoxes, AskedFor, Covered, HigherLeft, Falling, NoneHigher
  <2> QED BY <2>1, <2>3, <2>4 DEF FeaturesInv
<1>2. ASSUME NEW max \in MaxPers, RegionateAligned(max)
      PROVE  FeaturesInv' /\ list' \in Seq(Features)
  <2>1. list' \in Seq(Features) /\ Falling(list') /\ UNCHANGED parents
    BY <1>2, SortFacts DEF RegionateAligned
  <2>2. CASE UNCHANGED <<left, folders, stack, numbers, count, files, task>>
    BY <1>1, <2>1, <2>2
  <2>3. CASE Start(list', Aligned(BoundingBox(list)), TRUE, max, NoRootName)
    <3> DEFINE sorted == TRUE
    <3> PICK l, box : l = list' /\ box = Aligned(BoundingBox(list))
      OBVIOUS
    <3>1. Start(l, box, sorted, max, NoRootName)
      BY <2>3
    <3>2. max \in Nat /\ box \in Boxes
      BY RegionatorAssumption, AlignedIsBox
    <3> HIDE DEF sorted
    <3>3. FeaturesInv'
      BY <2>1, <3>1, <3>2, StartFeatures
    <3> QED BY <2>1, <3>3
  <2> QED BY <1>2, <2>2, <2>3 DEF RegionateAligned
<1>3. ASSUME NEW max \in MaxPers, NEW box \in Regions, NEW name \in RootNames,
             Regionate(box, max, name)
      PROVE  FeaturesInv' /\ list' \in Seq(Features)
  <2> DEFINE sorted == FALSE
  <2>1. Start(list, box, sorted, max, name) /\ UNCHANGED <<list, parents>> /\ ~ sorted
    BY <1>3 DEF Regionate
  <2>2. max \in Nat /\ box \in Boxes
    BY RegionatorAssumption
  <2> HIDE DEF sorted
  <2> QED BY <2>1, <2>2, StartFeatures
<1>4. CASE Walk
  <2>1. UNCHANGED list
    BY <1>4 DEF Walk, HasData, Recurse, SaveKml
  <2>2. FeaturesInv'
    BY <1>4, HasDataFeatures, RecurseFeatures, SaveKmlFeatures DEF Walk
  <2> QED BY <2>1, <2>2
<1>5. CASE UNCHANGED vars
  BY <1>1, <1>5 DEF vars
<1> QED BY <1>2, <1>3, <1>4, <1>5 DEF Next

LEMMA FeaturesHold == Spec => [](IInv /\ LinksInv /\ FeaturesInv)
<1> DEFINE All == IInv /\ LinksInv /\ FeaturesInv /\ list \in Seq(Features)
<1>1. Init => All
  BY InitIInv, InitLinks, InitFeatures
<1>2. All /\ [Next]_vars => All'
  BY NextIInv, NextLinks, NextFeatures
<1>3. All => IInv /\ LinksInv /\ FeaturesInv
  OBVIOUS
<1> QED BY <1>1, <1>2, <1>3, PTL DEF Spec

-----------------------------------------------------------------------------
LEMMA OnceFollows == ASSUME FeaturesInv PROVE EachOnce
<1>1. ASSUME Ended, NEW f \in task.given, NEW shown,
             shown = {n \in Names : f \in Range(files[n].shows)}
      PROVE  /\ Cardinality(shown) = IF Refused(f) THEN 0 ELSE 1
             /\ \A n \in shown : ContainsLatLon(files[n].region.box, f)
  <2>1. stack = << >>
    BY <1>1 DEF Ended
  <2>2. \A n \in shown : /\ n \in Names /\ files[n].region.id \in DOMAIN folders
                         /\ f \in Range(folders[files[n].region.id])
                         /\ ContainsLatLon(files[n].region.box, f)
    BY <1>1 DEF FeaturesInv, Visited, InBoxes, Inside
  <2>3. f \in Range(left) \/ \E id \in DOMAIN folders : f \in Range(folders[id])
    BY DEF FeaturesInv, OnePlace
  <2>4. CASE f \in Range(left)
    <3>1. shown = {}
      BY <2>2, <2>4 DEF FeaturesInv, OnePlace
    <3>2. Refused(f)
      BY <2>1, <2>4 DEF FeaturesInv, AskedFor, Covered, Refused
    <3> QED BY <3>1, <3>2, FS_EmptySet
  <2>5. ASSUME NEW id \in DOMAIN folders, f \in Range(folders[id])
        PROVE  /\ Cardinality(shown) = IF Refused(f) THEN 0 ELSE 1
               /\ \A n \in shown : ContainsLatLon(files[n].region.box, f)
    <3>1. f \notin Range(left)
      BY <2>5 DEF FeaturesInv, OnePlace
    <3>2. \A jd \in DOMAIN folders : f \in Range(folders[jd]) => jd = id
      BY <2>5 DEF FeaturesInv, OnePlace
    <3>3. \A r \in task.refused : r.id \in DOMAIN folders
      BY DEF FeaturesInv, Visited
    <3>4. Refused(f) <=> Lost(id)
      BY <2>5, <3>1, <3>2, <3>3 DEF Refused, Lost
    <3>5. \A n \in shown : files[n].region.id = id
      BY <2>2, <3>2
    <3>6. ~ OnWay(id)
      BY <2>1 DEF OnWay, Numbered
    <3>7. CASE Lost(id)
      <4>1. ~ Filed(id)
        BY <3>7 DEF FeaturesInv, Visited
      <4>2. shown = {}
        BY <2>2, <3>5, <4>1 DEF Filed
      <4> QED BY <3>4, <3>7, <4>2, FS_EmptySet
    <3>8. CASE ~ Lost(id)
      <4>1. Filed(id)
        BY <3>6, <3>8 DEF FeaturesInv, Visited
      <4>2. PICK n \in Names : files[n].region.id = id
        BY <4>1 DEF Filed
      <4>3. n \in shown
        BY <1>1, <2>5, <4>2 DEF FeaturesInv, Visited
      <4>4. \A m \in shown : m = n
        BY <2>2, <3>5, <4>2 DEF FeaturesInv, Visited
      <4>5. shown = {n}
        BY <4>3, <4>4
      <4> QED BY <2>2, <3>4, <3>8, <4>5, FS_Singleton
    <3> QED BY <3>7, <3>8
  <2> QED BY <2>3, <2>4, <2>5
<1>2. task.max # 0 => \A n \in Names : Len(files[n].shows) <= task.max
  BY DEF FeaturesInv, Visited, InBoxes
<1> QED BY <1>1, <1>2 DEF EachOnce

LEMMA HigherFollows == ASSUME FeaturesInv PROVE HigherFirst
<1> SUFFICES ASSUME task.sorted, NEW n \in Names, NEW m \in Names,
                    IsStrictPrefix(files[n].region.id, files[m].region.id),
                    NEW f \in Range(files[n].shows), NEW g \in Range(files[m].shows)
             PROVE  Score[f] >= Score[g]
  BY DEF HigherFirst
<1> DEFINE i == files[n].region.id
           j == files[m].region.id
<1>1. /\ i \in DOMAIN folders /\ files[n].shows = folders[i]
      /\ j \in DOMAIN folders /\ files[m].shows = folders[j]
  BY DEF FeaturesInv, Visited
<1>2. i \in Seq(Quadrants) /\ j \in Seq(Quadrants)
  BY <1>1 DEF FeaturesInv, FeaturesTyped
<1>3. Below(i, j)
  BY <1>2, PrefixIsBelow
<1>4. NoneHigher(folders[i], Range(folders[j]))
  BY <1>1, <1>3 DEF FeaturesInv, HigherLeft
<1> QED BY <1>1, <1>4 DEF NoneHigher

(* For any features, with any geometries, and any Regions: when the walk   *)
(* is over every feature in the root's Region is in one file, in whose     *)
(* Region it is, also one on the border of quadrants and however deep the  *)
(* walk had to go to find room for it, unless a refusal took it; and no    *)
(* file has more features than were asked for.  The root's file has none   *)
(* of the names that the walk gives (RootNameAssumption).                  *)
THEOREM EveryFeatureOnce == Spec => []EachOnce
<1>1. IInv /\ LinksInv /\ FeaturesInv => EachOnce
  BY OnceFollows
<1> QED BY <1>1, FeaturesHold, PTL

(* Of a list that was sorted no feature is shown below one that scores     *)
(* less: what RegionSplit takes is the front of what is in the Region, and *)
(* what it leaves is all the quarters get.                                 *)
THEOREM HigherScoresFirst == Spec => []HigherFirst
<1>1. IInv /\ LinksInv /\ FeaturesInv => HigherFirst
  BY HigherFollows
<1> QED BY <1>1, FeaturesHold, PTL

=============================================================================
