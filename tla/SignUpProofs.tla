---------------------------- MODULE SignUpProofs ----------------------------
(* The invariants of SignUp, for any devices, names, numbers and codes and *)
(* any number of presses.  What makes them inductive: a press that is      *)
(* registered never changes again, a queued or stored document is the one  *)
(* of a registered press, and Auth keeps the account of each of them.      *)
EXTENDS SignUp, SequenceTheorems, TLAPS

Queued(d, u, p) == \E i \in 1..Len(queue[d]) : queue[d][i] = Fields(u, p)

WritersAreRegistered ==
    \A u \in UserName, p \in Press :
        <<u, p>> \in written \/ (\E d \in Devices : Queued(d, u, p))
        => step[p] = "registered" /\ user[p] = {u}

AccountsAreKept ==
    \A p \in Press : \A u \in user[p] :
        step[p] = "registered" /\ ~u.again => u \in accounts

NamesAreOwn ==
    \A p, q \in Press : \A u \in user[p] \cap user[q] :
        step[p] = "registered" /\ step[q] = "registered" /\ ~u.again => p = q

FreshPresses ==
    \A p \in Press : p.number > presses[p.device] => step[p] = "none"

OneName == \A p \in Press : \A u, v \in user[p] : u = v

DeletesFollowFields ==
    \A d \in Devices, c \in Codes : \A i \in 1..Len(queue[d]) :
        queue[d][i] = Delete(c) =>
            \E p \in Press : \E u \in user[p] :
                /\ step[p] = "registered"
                /\ c \in deletes[p]
                /\ \/ <<u, p>> \in written
                   \/ \E j \in 1..(i - 1) : queue[d][j] = Fields(u, p)

CodesAreRedeemed ==
    \A c \in Codes \ codes : \E p \in Press : \E u \in user[p] :
        /\ step[p] = "registered"
        /\ c \in deletes[p]
        /\ <<u, p>> \in written

IInv ==
    /\ TypeOK
    /\ WritersAreRegistered
    /\ AccountsAreKept
    /\ NamesAreOwn
    /\ FreshPresses
    /\ OneName
    /\ DeletesFollowFields
    /\ CodesAreRedeemed
----------------------------------------------------------------------------
LEMMA PressParts ==
    /\ \A p \in Press : p.device \in Devices /\ p.number \in 1..MaxPresses[p.device]
    /\ \A d \in Devices, n \in Nat :
           1 <= n /\ n <= MaxPresses[d] => [device |-> d, number |-> n] \in Press
  BY DEF Press

LEMMA WriteKinds ==
    /\ \A u, v \in UserName, p, q \in Press :
           Fields(u, p) = Fields(v, q) => u = v /\ p = q
    /\ \A u, p, c : Fields(u, p) # Delete(c)
    /\ \A c, e : Delete(c) = Delete(e) => c = e
    /\ \A u \in UserName, p \in Press : Fields(u, p) \in Writes
    /\ \A c \in Codes \cup UnknownCodes : Delete(c) \in Writes
<1>1. \A u, p : /\ Fields(u, p).kind = "fields"
                /\ Fields(u, p).user = {u}
                /\ Fields(u, p).press = {p}
  BY DEF Fields
<1>2. \A c : Delete(c).kind = "delete" /\ Delete(c).code = {c}
  BY DEF Delete
<1>3. \A u, v \in UserName, p, q \in Press : Fields(u, p) = Fields(v, q) => u = v /\ p = q
  <2> SUFFICES ASSUME NEW u \in UserName, NEW v \in UserName,
                      NEW p \in Press, NEW q \in Press,
                      Fields(u, p) = Fields(v, q)
               PROVE  u = v /\ p = q
    OBVIOUS
  <2>1. /\ Fields(u, p).user = {u} /\ Fields(v, q).user = {v}
        /\ Fields(u, p).press = {p} /\ Fields(v, q).press = {q}
    BY <1>1
  <2>2. {u} = {v} /\ {p} = {q}
    BY <2>1
  <2> QED BY <2>2
<1>4. \A u, p, c : Fields(u, p) # Delete(c)
  <2> TAKE u, p, c
  <2>1. Fields(u, p).kind # Delete(c).kind
    BY <1>1, <1>2
  <2> QED BY <2>1
<1>5. \A c, e : Delete(c) = Delete(e) => c = e
  <2> TAKE c, e
  <2> HAVE Delete(c) = Delete(e)
  <2>1. {c} = {e}
    BY <1>2
  <2> QED BY <2>1
<1>6. /\ \A u \in UserName, p \in Press : Fields(u, p) \in Writes
      /\ \A c \in Codes \cup UnknownCodes : Delete(c) \in Writes
  BY DEF Writes
<1> QED BY <1>3, <1>4, <1>5, <1>6

LEMMA PlainNames ==
    ASSUME SignUpAssumption
    PROVE  /\ \A d \in Devices : Plain(RoleOf[d], BaseOf[d]) \in UserName
           /\ \A c \in Codes : NameOnCode[c] # NoName =>
                  Plain("student", NameOnCode[c]) \in UserName
  BY DEF SignUpAssumption, Plain, UserName, Roles

LEMMA NumberedNames ==
    ASSUME SignUpAssumption, NEW d, NEW u \in UserName, NEW v \in GeneratedNames(d, u)
    PROVE  v \in UserName /\ [v EXCEPT !.again = TRUE] \in UserName
<1>1. CASE v = u
  BY <1>1 DEF UserName
<1>2. CASE v # u
  <2>1. PICK n \in Numbers : v = [u EXCEPT !.number = n]
    BY <1>2 DEF GeneratedNames
  <2> QED BY <2>1 DEF UserName
<1> QED BY <1>1, <1>2
----------------------------------------------------------------------------
\* A press that is registered stays as it is, and no other gets registered
\* but in the two actions that end a chain.
Kept ==
    \A p \in Press : step[p] = "registered" =>
        step'[p] = "registered" /\ user'[p] = user[p] /\ deletes'[p] = deletes[p]

NoneAdded == \A p \in Press : step'[p] = "registered" => step[p] = "registered"

LEMMA TypeStep ==
    ASSUME SignUpAssumption, TypeOK, [Next]_vars
    PROVE  TypeOK'
<1> USE DEF TypeOK, service, attempt, form, view
<1> USE SignUpAssumption
<1>0. ASSUME NEW d \in Devices, NEW first \in Steps, NEW names \in SUBSET UserName,
             Start(d, first, names)
      PROVE  /\ presses' \in [Devices -> Nat]
             /\ \A e \in Devices : presses'[e] <= MaxPresses[e]
             /\ step' \in [Press -> Steps]
             /\ user' \in [Press -> SUBSET UserName]
  <2>1. /\ presses[d] < MaxPresses[d]
        /\ presses' = [presses EXCEPT ![d] = presses[d] + 1]
    BY <1>0 DEF Start
  <2>2. MaxPresses \in [Devices -> Nat] /\ presses \in [Devices -> Nat]
    BY DEF SignUpAssumption
  <2>3. /\ presses' \in [Devices -> Nat]
        /\ \A e \in Devices : presses'[e] <= MaxPresses[e]
    BY <2>1, <2>2
  <2>4. step' \in [Press -> Steps] /\ user' \in [Press -> SUBSET UserName]
    BY <1>0 DEF Start
  <2> QED BY <2>3, <2>4
<1>1. ASSUME NEW d \in Devices, NEW f \in Form, SignUpPressed(d, f)
      PROVE  TypeOK'
  <2>1. Plain(RoleOf[d], BaseOf[d]) \in UserName
    BY PlainNames
  <2> QED BY <1>1, <1>0, <2>1 DEF SignUpPressed, Steps, Alerts
<1>2. ASSUME NEW d \in Devices, NEW f \in Form, FormRefused(d, f)
      PROVE  TypeOK'
  BY <1>2 DEF FormRefused, Alerts, Form
<1>3. ASSUME NEW d \in Devices, NEW c \in Codes \cup UnknownCodes, TypeCode(d, c)
      PROVE  TypeOK'
  BY <1>3 DEF TypeCode
<1>4. ASSUME NEW d \in Devices, RedeemPressed(d)
      PROVE  TypeOK'
  BY <1>4, <1>0 DEF RedeemPressed, Steps
<1>5. ASSUME NEW d \in Devices, Commit(d)
      PROVE  TypeOK'
  <2>1. Head(queue[d]) \in Writes /\ Tail(queue[d]) \in Seq(Writes)
    BY <1>5, HeadTailProperties DEF Commit
  <2>2. Head(queue[d]).user \X Head(queue[d]).press \subseteq UserName \X Press
    BY <2>1 DEF Writes, Fields, Delete
  <2> QED BY <1>5, <2>1, <2>2 DEF Commit
<1>6. ASSUME NEW d \in Devices, Relaunch(d)
      PROVE  TypeOK'
  BY <1>6 DEF Relaunch, Forgotten, Steps, Alerts
<1>7. ASSUME NEW p \in Press, NameChecked(p)
      PROVE  TypeOK'
  <2>1. PICK u \in user[p] : \E v \in GeneratedNames(p.device, u) :
            user' = [user EXCEPT ![p] = {v}]
    BY <1>7 DEF NameChecked
  <2>2. PICK v \in GeneratedNames(p.device, u) : user' = [user EXCEPT ![p] = {v}]
    BY <2>1
  <2>3. u \in UserName
    BY <2>1
  <2>4. v \in UserName
    BY <2>2, <2>3, NumberedNames
  <2> QED BY <1>7, <2>2, <2>4 DEF NameChecked, Steps
<1>8. ASSUME NEW p \in Press, AccountCreated(p)
      PROVE  TypeOK'
  <2>1. PICK u \in user[p] : accounts' = accounts \cup {u} /\ Register(p, <<Fields(u, p)>>)
    BY <1>8 DEF AccountCreated
  <2>2. u \in UserName /\ p.device \in Devices
    BY PressParts
  <2>3. <<Fields(u, p)>> \in Seq(Writes)
    BY <2>2, WriteKinds
  <2>4. queue[p.device] \o <<Fields(u, p)>> \in Seq(Writes)
    BY <2>2, <2>3, ConcatProperties
  <2> QED BY <1>8, <2>1, <2>2, <2>4 DEF AccountCreated, Register, Steps
<1>9. ASSUME NEW p \in Press, AccountRefused(p)
      PROVE  TypeOK'
  BY <1>9 DEF AccountRefused, Steps, Alerts
<1>10. ASSUME NEW p \in Press, CodeFound(p)
       PROVE  TypeOK'
  <2>1. PICK c \in Found(p) : NameOnCode[c] # NoName
            /\ user' = [user EXCEPT ![p] = {Plain("student", NameOnCode[c])}]
    BY <1>10 DEF CodeFound
  <2>2. Plain("student", NameOnCode[c]) \in UserName
    BY <2>1, PlainNames DEF Found
  <2> QED BY <1>10, <2>1, <2>2 DEF CodeFound, Steps
<1>11. ASSUME NEW p \in Press, CodeNameless(p)
       PROVE  TypeOK'
  BY <1>11 DEF CodeNameless, Steps, Alerts
<1>12. ASSUME NEW p \in Press, CodeMissing(p)
       PROVE  TypeOK'
  BY <1>12 DEF CodeMissing, Steps
<1>13. ASSUME NEW p \in Press, CodeRedeemed(p)
       PROVE  TypeOK'
  <2>0. PICK u \in user[p] : \E v \in GeneratedNames(p.device, u) :
            /\ user' = [user EXCEPT ![p] = {[v EXCEPT !.again = TRUE]}]
            /\ Register(p, Redemption([v EXCEPT !.again = TRUE], p, typed[p.device]))
    BY <1>13 DEF CodeRedeemed
  <2>1. PICK v \in GeneratedNames(p.device, u) :
            /\ user' = [user EXCEPT ![p] = {[v EXCEPT !.again = TRUE]}]
            /\ Register(p, Redemption([v EXCEPT !.again = TRUE], p, typed[p.device]))
    BY <2>0
  <2> DEFINE w == [v EXCEPT !.again = TRUE]
  <2>2. u \in UserName /\ p.device \in Devices
    BY <2>1, PressParts
  <2>3. w \in UserName
    BY <2>1, <2>2, NumberedNames
  <2>4. /\ user' = [user EXCEPT ![p] = {w}]
        /\ Register(p, Redemption(w, p, typed[p.device]))
    BY <2>1
  <2> HIDE DEF w
  <2>5. Redemption(w, p, typed[p.device]) \in Seq(Writes)
    BY <2>2, <2>3, WriteKinds DEF Redemption
  <2>6. queue[p.device] \o Redemption(w, p, typed[p.device]) \in Seq(Writes)
    BY <2>2, <2>5, ConcatProperties
  <2>7. {typed[p.device]} \in SUBSET (Codes \cup UnknownCodes)
    BY <2>2
  <2>8. deletes' = [deletes EXCEPT ![p] = {typed[p.device]}]
    BY <1>13 DEF CodeRedeemed
  <2>9. deletes' \in [Press -> SUBSET (Codes \cup UnknownCodes)]
    BY <2>7, <2>8
  <2>10. /\ queue' \in [Devices -> Seq(Writes)]
         /\ screen' \in [Devices -> {"form", "home"}]
         /\ step' \in [Press -> Steps]
         /\ user' \in [Press -> SUBSET UserName]
    BY <2>2, <2>3, <2>4, <2>6 DEF Register, Steps
  <2> QED BY <1>13, <2>9, <2>10 DEF CodeRedeemed
<1>14. ASSUME UNCHANGED vars
       PROVE  TypeOK'
  BY <1>14 DEF vars
<1> QED
  BY <1>1, <1>2, <1>3, <1>4, <1>5, <1>6, <1>7, <1>8, <1>9, <1>10, <1>11, <1>12, <1>13, <1>14
  DEF Next, Device, Callback
----------------------------------------------------------------------------
\* A step that registers nobody and writes nothing keeps the invariant.
LEMMA QuietStep ==
    ASSUME IInv, TypeOK', FreshPresses', OneName', Kept, NoneAdded,
           queue' = queue, written' = written, codes' = codes,
           accounts \subseteq accounts'
    PROVE  IInv'
<1> USE DEF IInv, Kept, NoneAdded
<1>1. WritersAreRegistered'
  BY DEF WritersAreRegistered, Queued
<1>2. AccountsAreKept'
  BY DEF AccountsAreKept
<1>3. NamesAreOwn'
  BY DEF NamesAreOwn
<1>4. DeletesFollowFields'
  <2> SUFFICES ASSUME NEW d \in Devices, NEW c \in Codes, NEW i \in 1..Len(queue'[d]),
                      queue'[d][i] = Delete(c)
               PROVE  \E p \in Press : \E u \in user'[p] :
                          /\ step'[p] = "registered"
                          /\ c \in deletes'[p]
                          /\ \/ <<u, p>> \in written'
                             \/ \E j \in 1..(i - 1) : queue'[d][j] = Fields(u, p)
    BY DEF DeletesFollowFields
  <2>1. PICK p \in Press : \E u \in user[p] :
            /\ step[p] = "registered"
            /\ c \in deletes[p]
            /\ \/ <<u, p>> \in written
               \/ \E j \in 1..(i - 1) : queue[d][j] = Fields(u, p)
    BY DEF DeletesFollowFields
  <2>2. step'[p] = "registered" /\ user'[p] = user[p] /\ deletes'[p] = deletes[p]
    BY <2>1
  <2> QED BY <2>1, <2>2
<1>5. CodesAreRedeemed'
  BY DEF CodesAreRedeemed
<1> QED BY <1>1, <1>2, <1>3, <1>4, <1>5

LEMMA OneWrite ==
    ASSUME NEW a
    PROVE  Len(<<a>>) = 1 /\ <<a>>[1] = a
  OBVIOUS

LEMMA TwoWrites ==
    ASSUME NEW a, NEW b
    PROVE  Len(<<a, b>>) = 2 /\ <<a, b>>[1] = a /\ <<a, b>>[2] = b
  OBVIOUS

LEMMA OneOrTwo ==
    ASSUME NEW m \in {1, 2}, NEW n \in 1..m
    PROVE  n = 1 \/ (n = 2 /\ m = 2)
<1>1. CASE m = 1
  BY <1>1
<1>2. CASE m = 2
  BY <1>2
<1> QED BY <1>1, <1>2

LEMMA WritesOfOne ==
    ASSUME NEW a, NEW b, NEW ws, ws = <<a>> \/ ws = <<a, b>>
    PROVE  /\ Len(ws) \in {1, 2} /\ ws[1] = a
           /\ Len(ws) = 2 => ws[2] = b /\ ws = <<a, b>>
<1>1. CASE ws = <<a>>
  <2>1. Len(ws) = 1 /\ ws[1] = a
    BY <1>1, OneWrite
  <2> QED BY <2>1
<1>2. CASE ws = <<a, b>>
  BY <1>2, TwoWrites
<1> QED BY <1>1, <1>2

\* The end of a chain keeps it: ws is what the press writes.
LEMMA RegisterStep ==
    ASSUME SignUpAssumption, IInv, TypeOK', FreshPresses', OneName', Kept,
           NEW p \in Press, NEW u \in UserName, NEW c, NEW ws,
           step[p] # "registered",
           step'[p] = "registered",
           user'[p] = {u},
           \A q \in Press : step'[q] = "registered" => q = p \/ step[q] = "registered",
           written' = written, codes' = codes, accounts \subseteq accounts',
           u.again \/ (u \notin accounts /\ u \in accounts'),
           queue' = [queue EXCEPT ![p.device] = queue[p.device] \o ws],
           ws = <<Fields(u, p)>> \/ ws = <<Fields(u, p), Delete(c)>>,
           ws = <<Fields(u, p), Delete(c)>> => c \in deletes'[p]
    PROVE  IInv'
<1> USE DEF IInv
<1> DEFINE d == p.device
<1>1. /\ d \in Devices
      /\ queue \in [Devices -> Seq(Writes)]
      /\ queue[d] \in Seq(Writes)
      /\ Len(queue[d]) \in Nat
      /\ deletes'[p] \subseteq Codes \cup UnknownCodes
  BY PressParts DEF TypeOK
<1>2. ws \in Seq(Writes)
  <2>1. Fields(u, p) \in Writes
    BY WriteKinds
  <2>2. CASE ws = <<Fields(u, p)>>
    BY <2>1, <2>2
  <2>3. CASE ws = <<Fields(u, p), Delete(c)>>
    <3>1. Delete(c) \in Writes
      BY <2>3, <1>1, WriteKinds
    <3> QED BY <2>1, <2>3, <3>1
  <2> QED BY <2>2, <2>3
<1>3. Len(ws) = 2 => ws[2] = Delete(c) /\ c \in deletes'[p]
  BY WritesOfOne
<1>4. Len(ws) \in {1, 2} /\ ws[1] = Fields(u, p)
  BY WritesOfOne
<1> HIDE DEF d
<1>5. /\ queue'[d] = queue[d] \o ws
      /\ \A e \in Devices : e # d => queue'[e] = queue[e]
  BY <1>1 DEF d
<1>6. /\ Len(queue'[d]) = Len(queue[d]) + Len(ws)
      /\ \A i \in 1..Len(queue[d]) + Len(ws) :
             queue'[d][i] = IF i <= Len(queue[d]) THEN queue[d][i] ELSE ws[i - Len(queue[d])]
  <2>1. queue[d] \o ws = queue'[d]
    BY <1>5
  <2> HIDE <1>5
  <2>2. /\ Len(queue[d] \o ws) = Len(queue[d]) + Len(ws)
        /\ \A i \in 1..Len(queue[d]) + Len(ws) :
               (queue[d] \o ws)[i] = IF i <= Len(queue[d]) THEN queue[d][i]
                                     ELSE ws[i - Len(queue[d])]
    BY <1>1, <1>2, ConcatProperties
  <2> QED BY <2>1, <2>2
<1>7. \A i \in 1..Len(queue[d]) : queue'[d][i] = queue[d][i]
  BY <1>1, <1>4, <1>6
<1>8. queue'[d][Len(queue[d]) + 1] = Fields(u, p)
  <2> DEFINE k == Len(queue[d]) + 1
  <2>0. Len(queue[d]) \in Nat /\ Len(ws) \in {1, 2}
    BY <1>1, <1>4
  <2>1. /\ k \in 1..Len(queue[d]) + Len(ws)
        /\ ~(k <= Len(queue[d]))
        /\ k - Len(queue[d]) = 1
    <3>1. \A n \in Nat, m \in {1, 2} :
              n + 1 \in 1..n + m /\ ~(n + 1 <= n) /\ (n + 1) - n = 1
      OBVIOUS
    <3> QED BY <2>0, <3>1
  <2> HIDE DEF k
  <2>2. queue'[d][k] = ws[k - Len(queue[d])]
    BY <2>1, <1>6
  <2>3. queue'[d][k] = Fields(u, p)
    BY <2>1, <2>2, <1>4
  <2> QED BY <2>3 DEF k
<1>9. \A i \in 1..Len(queue'[d]) :
          \/ i \in 1..Len(queue[d])
          \/ i = Len(queue[d]) + 1 /\ queue'[d][i] = Fields(u, p)
          \/ i = Len(queue[d]) + 2 /\ queue'[d][i] = Delete(c) /\ c \in deletes'[p]
  <2> TAKE i \in 1..Len(queue'[d])
  <2>1. CASE i <= Len(queue[d])
    BY <2>1, <1>1, <1>4, <1>6
  <2>2. CASE i > Len(queue[d])
    <3> DEFINE k == i - Len(queue[d])
    <3>1. k \in 1..Len(ws) /\ queue'[d][i] = ws[k]
      BY <2>2, <1>1, <1>4, <1>6
    <3>2. \/ k = 1 /\ ws[k] = Fields(u, p)
          \/ k = 2 /\ ws[k] = Delete(c) /\ c \in deletes'[p]
      <4> HIDE DEF k
      <4>1. k = 1 \/ (k = 2 /\ Len(ws) = 2)
        BY <3>1, <1>4, OneOrTwo
      <4> QED BY <4>1, <1>3, <1>4
    <3>3. i \in Nat
      BY <1>1, <1>4, <1>6
    <3> QED BY <3>1, <3>2, <3>3, <1>1
  <2> QED BY <2>1, <2>2, <1>1, <1>4, <1>6
<1> USE DEF IInv
<1>10. WritersAreRegistered'
  <2> SUFFICES ASSUME NEW v \in UserName, NEW q \in Press,
                      <<v, q>> \in written \/ (\E e \in Devices : Queued(e, v, q)')
               PROVE  step'[q] = "registered" /\ user'[q] = {v}
    BY DEF WritersAreRegistered
  <2>1. CASE <<v, q>> \in written
    BY <2>1 DEF WritersAreRegistered, Kept
  <2>2. CASE \E e \in Devices : Queued(e, v, q)'
    <3>1. PICK e \in Devices : Queued(e, v, q)'
      BY <2>2
    <3>2. PICK i \in 1..Len(queue'[e]) : queue'[e][i] = Fields(v, q)
      BY <3>1 DEF Queued
    <3>3. CASE Queued(e, v, q)
      BY <3>3 DEF WritersAreRegistered, Kept
    <3>4. CASE e = d
      <4>1. CASE i \in 1..Len(queue[d])
        BY <4>1, <3>2, <3>3, <3>4, <1>7 DEF Queued
      <4>2. CASE i \notin 1..Len(queue[d])
        <5>1. queue'[d][i] = Fields(u, p) \/ queue'[d][i] = Delete(c)
          BY <4>2, <3>2, <3>4, <1>9
        <5>2. v = u /\ q = p
          BY <5>1, <3>2, <3>4, WriteKinds
        <5> QED BY <5>2
      <4> QED BY <4>1, <4>2
    <3>5. CASE e # d
      BY <3>2, <3>3, <3>5, <1>5 DEF Queued
    <3> QED BY <3>4, <3>5
  <2> QED BY <2>1, <2>2
<1>11. AccountsAreKept'
  BY DEF AccountsAreKept, Kept
<1>12. NamesAreOwn'
  <2> SUFFICES ASSUME NEW q \in Press, NEW r \in Press, NEW v \in user'[q] \cap user'[r],
                      step'[q] = "registered", step'[r] = "registered", ~v.again
               PROVE  q = r
    BY DEF NamesAreOwn
  <2>1. \A t \in Press : t # p /\ step'[t] = "registered" /\ v \in user'[t] => v \in accounts
    BY DEF AccountsAreKept, Kept
  <2>2. CASE q = p \/ r = p
    BY <2>1, <2>2
  <2>3. CASE q # p /\ r # p
    BY <2>3 DEF NamesAreOwn, Kept
  <2> QED BY <2>2, <2>3
<1>13. DeletesFollowFields'
  <2> SUFFICES ASSUME NEW e \in Devices, NEW b \in Codes, NEW i \in 1..Len(queue'[e]),
                      queue'[e][i] = Delete(b)
               PROVE  \E q \in Press : \E v \in user'[q] :
                          /\ step'[q] = "registered"
                          /\ b \in deletes'[q]
                          /\ \/ <<v, q>> \in written'
                             \/ \E j \in 1..(i - 1) : queue'[e][j] = Fields(v, q)
    BY DEF DeletesFollowFields
  <2>1. CASE i \in 1..Len(queue[e]) /\ queue[e][i] = Delete(b)
    <3>0. PICK q \in Press : \E v \in user[q] :
              /\ step[q] = "registered"
              /\ b \in deletes[q]
              /\ \/ <<v, q>> \in written
                 \/ \E j \in 1..(i - 1) : queue[e][j] = Fields(v, q)
      BY <2>1 DEF DeletesFollowFields
    <3>1. PICK v \in user[q] :
              /\ step[q] = "registered"
              /\ b \in deletes[q]
              /\ \/ <<v, q>> \in written
                 \/ \E j \in 1..(i - 1) : queue[e][j] = Fields(v, q)
      BY <3>0
    <3>2. \A j \in 1..(i - 1) : queue'[e][j] = queue[e][j]
      BY <2>1, <1>1, <1>5, <1>7
    <3>3. v \in user'[q] /\ step'[q] = "registered" /\ b \in deletes'[q]
      BY <3>1 DEF Kept
    <3> QED BY <3>1, <3>2, <3>3
  <2>2. CASE ~(i \in 1..Len(queue[e]) /\ queue[e][i] = Delete(b))
    <3>1. e = d
      BY <2>2, <1>5
    <3>2. i \notin 1..Len(queue[d])
      BY <2>2, <3>1, <1>7
    <3>3. i = Len(queue[d]) + 2 /\ queue'[d][i] = Delete(c) /\ c \in deletes'[p]
      BY <3>1, <3>2, <1>9, WriteKinds
    <3>4. b \in deletes'[p]
      BY <3>1, <3>3, WriteKinds
    <3>5. Len(queue[d]) + 1 \in 1..(i - 1)
      BY <3>3, <1>1
    <3> QED BY <3>1, <3>4, <3>5, <1>8
  <2> QED BY <2>1, <2>2
<1>14. CodesAreRedeemed'
  BY DEF CodesAreRedeemed, Kept
<1> QED BY <1>10, <1>11, <1>12, <1>13, <1>14
----------------------------------------------------------------------------
\* A commit keeps it.
LEMMA CommitStep ==
    ASSUME SignUpAssumption, IInv, TypeOK', NEW d \in Devices, Commit(d)
    PROVE  IInv'
<1> USE DEF IInv, service, attempt, form, view
<1> DEFINE w == Head(queue[d])
<1>1. /\ queue \in [Devices -> Seq(Writes)]
      /\ queue[d] \in Seq(Writes) /\ queue[d] # << >>
      /\ Len(queue[d]) \in Nat
  BY DEF TypeOK, Commit
<1>2. /\ step' = step /\ user' = user /\ deletes' = deletes
      /\ accounts' = accounts /\ presses' = presses
      /\ queue' = [queue EXCEPT ![d] = Tail(queue[d])]
      /\ written' = written \cup (w.user \X w.press)
      /\ codes' = codes \ w.code
  BY DEF Commit
<1>3. w \in Writes /\ w = queue[d][1] /\ 1 \in 1..Len(queue[d])
  BY <1>1, HeadTailProperties
<1>4. /\ queue'[d] = Tail(queue[d])
      /\ \A e \in Devices : e # d => queue'[e] = queue[e]
  BY <1>1, <1>2
<1>5. /\ Len(queue'[d]) = Len(queue[d]) - 1
      /\ \A i \in 1..Len(queue'[d]) : queue'[d][i] = queue[d][i + 1]
  BY <1>1, <1>4, HeadTailProperties
<1>6. /\ \A u \in UserName, p \in Press :
             w = Fields(u, p) => w.user = {u} /\ w.press = {p} /\ w.code = {}
      /\ \A c : w = Delete(c) => w.user = {} /\ w.press = {} /\ w.code = {c}
  BY DEF Fields, Delete
<1> HIDE DEF w
<1>7. \A u \in UserName, p \in Press :
          <<u, p>> \in written' => <<u, p>> \in written \/ w = Fields(u, p)
  <2> TAKE u \in UserName, p \in Press
  <2>1. CASE \E v \in UserName, q \in Press : w = Fields(v, q)
    BY <2>1, <1>2, <1>6
  <2>2. CASE \E c \in Codes \cup UnknownCodes : w = Delete(c)
    BY <2>2, <1>2, <1>6
  <2> QED BY <2>1, <2>2, <1>3 DEF Writes
<1>8. \A i \in 1..Len(queue'[d]) : i + 1 \in 1..Len(queue[d])
  BY <1>1, <1>5
<1>9. WritersAreRegistered'
  <2> SUFFICES ASSUME NEW u \in UserName, NEW p \in Press,
                      <<u, p>> \in written' \/ (\E e \in Devices : Queued(e, u, p)')
               PROVE  step[p] = "registered" /\ user[p] = {u}
    BY <1>2 DEF WritersAreRegistered
  <2>1. CASE <<u, p>> \in written'
    <3>1. <<u, p>> \in written \/ Queued(d, u, p)
      BY <2>1, <1>3, <1>7 DEF Queued
    <3> QED BY <3>1 DEF WritersAreRegistered
  <2>2. CASE \E e \in Devices : Queued(e, u, p)'
    <3>1. PICK e \in Devices : Queued(e, u, p)'
      BY <2>2
    <3>2. CASE e = d
      <4>1. PICK i \in 1..Len(queue'[d]) : queue'[d][i] = Fields(u, p)
        BY <3>1, <3>2 DEF Queued
      <4>2. i + 1 \in 1..Len(queue[d]) /\ queue[d][i + 1] = Fields(u, p)
        BY <4>1, <1>5, <1>8
      <4> QED BY <4>2 DEF Queued, WritersAreRegistered
    <3>3. CASE e # d
      <4>1. queue'[e] = queue[e]
        BY <3>3, <1>4
      <4>2. Queued(e, u, p)
        BY <3>1, <4>1 DEF Queued
      <4> QED BY <4>2 DEF WritersAreRegistered
    <3> QED BY <3>2, <3>3
  <2> QED BY <2>1, <2>2
<1>10. AccountsAreKept' /\ NamesAreOwn' /\ FreshPresses' /\ OneName'
  BY <1>2 DEF AccountsAreKept, NamesAreOwn, FreshPresses, OneName
<1>11. DeletesFollowFields'
  <2> SUFFICES ASSUME NEW e \in Devices, NEW c \in Codes, NEW i \in 1..Len(queue'[e]),
                      queue'[e][i] = Delete(c)
               PROVE  \E p \in Press : \E u \in user'[p] :
                          /\ step'[p] = "registered"
                          /\ c \in deletes'[p]
                          /\ \/ <<u, p>> \in written'
                             \/ \E j \in 1..(i - 1) : queue'[e][j] = Fields(u, p)
    BY DEF DeletesFollowFields
  <2>1. CASE e = d
    <3>1. i + 1 \in 1..Len(queue[d]) /\ queue[d][i + 1] = Delete(c)
      BY <2>1, <1>5, <1>8
    <3>2. PICK p \in Press : \E u \in user[p] :
              /\ step[p] = "registered"
              /\ c \in deletes[p]
              /\ \/ <<u, p>> \in written
                 \/ \E j \in 1..((i + 1) - 1) : queue[d][j] = Fields(u, p)
      BY <3>1 DEF DeletesFollowFields
    <3>3. PICK u \in user[p] :
              \/ <<u, p>> \in written
              \/ \E j \in 1..((i + 1) - 1) : queue[d][j] = Fields(u, p)
      BY <3>2
    <3>4. u \in UserName
      BY DEF TypeOK
    <3>5. CASE <<u, p>> \in written
      BY <3>2, <3>5, <1>2
    <3>6. CASE \E j \in 1..((i + 1) - 1) : queue[d][j] = Fields(u, p)
      <4>1. PICK j \in 1..((i + 1) - 1) : queue[d][j] = Fields(u, p)
        BY <3>6
      <4>2. CASE j = 1
        <5>1. <<u, p>> \in written'
          BY <4>1, <4>2, <3>4, <1>2, <1>3, <1>6
        <5> QED BY <5>1, <3>2, <1>2
      <4>3. CASE j # 1
        <5>1. /\ j - 1 \in 1..(i - 1)
              /\ j - 1 \in 1..Len(queue'[d])
              /\ (j - 1) + 1 = j
          BY <4>1, <4>3, <2>1, <1>1, <1>5
        <5>2. queue'[d][j - 1] = Fields(u, p)
          BY <5>1, <4>1, <1>5
        <5> QED BY <5>1, <5>2, <3>2, <2>1, <1>2
      <4> QED BY <4>2, <4>3
    <3> QED BY <3>3, <3>5, <3>6
  <2>2. CASE e # d
    <3>1. queue'[e] = queue[e]
      BY <2>2, <1>4
    <3>0. i \in 1..Len(queue[e]) /\ queue[e][i] = Delete(c)
      BY <3>1
    <3>2. PICK p \in Press : \E u \in user[p] :
              /\ step[p] = "registered"
              /\ c \in deletes[p]
              /\ \/ <<u, p>> \in written
                 \/ \E j \in 1..(i - 1) : queue[e][j] = Fields(u, p)
      BY <3>0 DEF DeletesFollowFields
    <3> QED BY <3>1, <3>2, <1>2
  <2> QED BY <2>1, <2>2
<1>12. CodesAreRedeemed'
  <2> SUFFICES ASSUME NEW c \in Codes \ codes'
               PROVE  \E p \in Press : \E u \in user[p] :
                          /\ step[p] = "registered"
                          /\ c \in deletes[p]
                          /\ <<u, p>> \in written'
    BY <1>2 DEF CodesAreRedeemed
  <2>1. CASE c \notin codes
    BY <2>1, <1>2 DEF CodesAreRedeemed
  <2>2. CASE c \in codes
    <3>1. c \in w.code
      BY <2>2, <1>2
    <3>2. w = Delete(c)
      <4>1. ~\E u \in UserName, p \in Press : w = Fields(u, p)
        BY <3>1, <1>6
      <4>2. PICK b \in Codes \cup UnknownCodes : w = Delete(b)
        BY <4>1, <1>3 DEF Writes
      <4>3. c = b
        BY <4>2, <3>1, <1>6
      <4> QED BY <4>2, <4>3
    <3>3. PICK p \in Press : \E u \in user[p] :
              /\ step[p] = "registered"
              /\ c \in deletes[p]
              /\ \/ <<u, p>> \in written
                 \/ \E j \in 1..(1 - 1) : queue[d][j] = Fields(u, p)
      <4>1. 1 \in 1..Len(queue[d]) /\ queue[d][1] = Delete(c)
        BY <3>2, <1>3
      <4>2. \A k \in 1..Len(queue[d]) : queue[d][k] = Delete(c) =>
              \E p \in Press : \E u \in user[p] :
                /\ step[p] = "registered"
                /\ c \in deletes[p]
                /\ \/ <<u, p>> \in written
                   \/ \E j \in 1..(k - 1) : queue[d][j] = Fields(u, p)
        BY DEF DeletesFollowFields
      <4> QED BY ONLY <4>1, <4>2, Zenon
    <3>4. 1..(1 - 1) = {}
      OBVIOUS
    <3>5. PICK u \in user[p] : <<u, p>> \in written
      BY <3>3, <3>4
    <3> QED BY <3>3, <3>5, <1>2
  <2> QED BY <2>1, <2>2
<1> QED BY <1>9, <1>10, <1>11, <1>12
----------------------------------------------------------------------------
\* A press that starts is a new one.
LEMMA StartIsFresh ==
    ASSUME SignUpAssumption, IInv, NEW d \in Devices, NEW first \in Steps, NEW names,
           Start(d, first, names)
    PROVE  LET new == [device |-> d, number |-> presses[d] + 1]
           IN  /\ new \in Press
               /\ step[new] = "none"
               /\ step' = [step EXCEPT ![new] = first]
               /\ user' = [user EXCEPT ![new] = names]
               /\ FreshPresses'
<1> DEFINE new == [device |-> d, number |-> presses[d] + 1]
<1>1. /\ presses[d] < MaxPresses[d]
      /\ presses' = [presses EXCEPT ![d] = presses[d] + 1]
      /\ step' = [step EXCEPT ![new] = first]
      /\ user' = [user EXCEPT ![new] = names]
  BY DEF Start
<1>2. /\ presses \in [Devices -> Nat] /\ MaxPresses \in [Devices -> Nat]
      /\ step \in [Press -> Steps]
  BY DEF IInv, TypeOK, SignUpAssumption
<1>3. presses[d] + 1 \in Nat /\ 1 <= presses[d] + 1 /\ presses[d] + 1 <= MaxPresses[d]
  BY <1>1, <1>2
<1>4. new \in Press
  BY <1>3, PressParts
<1>5. step[new] = "none"
  <2>1. new.number > presses[new.device]
    BY <1>2
  <2> QED BY <2>1, <1>4 DEF FreshPresses, IInv
<1>6. FreshPresses'
  <2> SUFFICES ASSUME NEW p \in Press, p.number > presses'[p.device]
               PROVE  step'[p] = "none"
    BY DEF FreshPresses
  <2>1. p.device \in Devices /\ p.number \in Nat
    BY PressParts, <1>2
  <2>2. p.number > presses[p.device]
    BY <2>1, <1>1, <1>2
  <2>3. p # new
    BY <2>1, <1>1, <1>2
  <2> QED BY <2>2, <2>3, <1>1, <1>2 DEF FreshPresses, IInv
<1> QED BY <1>1, <1>4, <1>5, <1>6

LEMMA InvariantStep ==
    ASSUME SignUpAssumption, IInv, [Next]_vars
    PROVE  IInv'
<1> USE SignUpAssumption DEF IInv, service, attempt, form, view
<1>0. TypeOK'
  BY TypeStep
<1> USE <1>0
<1>1. ASSUME NEW d \in Devices, NEW f \in Form, SignUpPressed(d, f)
      PROVE  IInv'
  <2> DEFINE new == [device |-> d, number |-> presses[d] + 1]
             names == {Plain(RoleOf[d], BaseOf[d])}
  <2>1. /\ new \in Press
        /\ step[new] = "none"
        /\ step' = [step EXCEPT ![new] = "checking"]
        /\ user' = [user EXCEPT ![new] = names]
        /\ FreshPresses'
    BY <1>1, StartIsFresh DEF SignUpPressed, Steps
  <2>3. \A u, v \in names : u = v
    OBVIOUS
  <2> HIDE DEF new, names
  <2>2. Kept /\ NoneAdded /\ OneName'
    BY <1>1, <2>1, <2>3 DEF SignUpPressed, Kept, NoneAdded, OneName, TypeOK
  <2> QED BY <1>1, <2>1, <2>2, QuietStep DEF SignUpPressed
<1>2. ASSUME NEW d \in Devices, NEW f \in Form, FormRefused(d, f)
      PROVE  IInv'
  <2>1. Kept /\ NoneAdded /\ FreshPresses' /\ OneName'
    BY <1>2 DEF FormRefused, Kept, NoneAdded, FreshPresses, OneName, TypeOK
  <2> QED BY <1>2, <2>1, QuietStep DEF FormRefused
<1>3. ASSUME NEW d \in Devices, NEW c \in Codes \cup UnknownCodes, TypeCode(d, c)
      PROVE  IInv'
  <2>1. Kept /\ NoneAdded /\ FreshPresses' /\ OneName'
    BY <1>3 DEF TypeCode, Kept, NoneAdded, FreshPresses, OneName, TypeOK
  <2> QED BY <1>3, <2>1, QuietStep DEF TypeCode
<1>4. ASSUME NEW d \in Devices, RedeemPressed(d)
      PROVE  IInv'
  <2> DEFINE new == [device |-> d, number |-> presses[d] + 1]
  <2>1. /\ new \in Press
        /\ step[new] = "none"
        /\ step' = [step EXCEPT ![new] = "looking"]
        /\ user' = [user EXCEPT ![new] = {}]
        /\ FreshPresses'
    BY <1>4, StartIsFresh DEF RedeemPressed, Steps
  <2>2. deletes' = [deletes EXCEPT ![new] = {typed[d]}]
    BY <1>4 DEF RedeemPressed
  <2> HIDE DEF new
  <2>3. Kept /\ NoneAdded /\ OneName'
    BY <2>1, <2>2 DEF Kept, NoneAdded, OneName, TypeOK
  <2> QED BY <1>4, <2>1, <2>3, QuietStep DEF RedeemPressed
<1>5. ASSUME NEW d \in Devices, Commit(d)
      PROVE  IInv'
  BY <1>5, CommitStep
<1>6. ASSUME NEW d \in Devices, Relaunch(d)
      PROVE  IInv'
  <2>1. Kept /\ NoneAdded /\ FreshPresses' /\ OneName'
    BY <1>6 DEF Relaunch, Forgotten, Kept, NoneAdded, FreshPresses, OneName
  <2> QED BY <1>6, <2>1, QuietStep DEF Relaunch
<1>7. ASSUME NEW p \in Press, NameChecked(p)
      PROVE  IInv'
  <2>1. Kept /\ NoneAdded /\ FreshPresses' /\ OneName'
    BY <1>7 DEF NameChecked, Kept, NoneAdded, FreshPresses, OneName, TypeOK
  <2> QED BY <1>7, <2>1, QuietStep DEF NameChecked
<1>8. ASSUME NEW p \in Press, AccountCreated(p)
      PROVE  IInv'
  <2>1. PICK u \in user[p] :
            /\ u \notin accounts
            /\ accounts' = accounts \cup {u}
            /\ Register(p, <<Fields(u, p)>>)
    BY <1>8 DEF AccountCreated
  <2>2. u \in UserName
    BY DEF TypeOK
  <2>3. user'[p] = {u} /\ user' = user /\ deletes' = deletes
    BY <1>8 DEF AccountCreated, OneName
  <2>4. /\ step[p] # "registered"
        /\ step' = [step EXCEPT ![p] = "registered"]
        /\ queue' = [queue EXCEPT ![p.device] = queue[p.device] \o <<Fields(u, p)>>]
    BY <1>8, <2>1 DEF AccountCreated, Register
  <2>5. /\ written' = written /\ codes' = codes /\ presses' = presses
        /\ u \in accounts' /\ accounts \subseteq accounts'
    BY <1>8, <2>1 DEF AccountCreated
  <2>6. /\ Kept /\ FreshPresses' /\ OneName'
        /\ step'[p] = "registered"
        /\ \A q \in Press : step'[q] = "registered" => q = p \/ step[q] = "registered"
    BY <1>8, <2>3, <2>4, <2>5 DEF AccountCreated, Kept, FreshPresses, OneName, TypeOK
  <2> DEFINE ws == <<Fields(u, p)>>
             c == p
  <2>7. /\ ws = <<Fields(u, p)>>
        /\ ~(ws = <<Fields(u, p), Delete(c)>>)
    BY OneWrite, TwoWrites
  <2>8. queue' = [queue EXCEPT ![p.device] = queue[p.device] \o ws]
    BY <2>4
  <2> HIDE DEF ws, c
  <2>9. u \notin accounts /\ user'[p] = {u} /\ step[p] # "registered"
    BY <2>1, <2>3, <2>4
  <2> QED BY <2>2, <2>5, <2>6, <2>7, <2>8, <2>9, RegisterStep
<1>9. ASSUME NEW p \in Press, AccountRefused(p)
      PROVE  IInv'
  <2>1. Kept /\ NoneAdded /\ FreshPresses' /\ OneName'
    BY <1>9 DEF AccountRefused, Kept, NoneAdded, FreshPresses, OneName, TypeOK
  <2> QED BY <1>9, <2>1, QuietStep DEF AccountRefused
<1>10. ASSUME NEW p \in Press, CodeFound(p)
       PROVE  IInv'
  <2>1. Kept /\ NoneAdded /\ FreshPresses' /\ OneName'
    BY <1>10 DEF CodeFound, Kept, NoneAdded, FreshPresses, OneName, TypeOK
  <2> QED BY <1>10, <2>1, QuietStep DEF CodeFound
<1>11. ASSUME NEW p \in Press, CodeNameless(p)
       PROVE  IInv'
  <2>1. Kept /\ NoneAdded /\ FreshPresses' /\ OneName'
    BY <1>11 DEF CodeNameless, Kept, NoneAdded, FreshPresses, OneName, TypeOK
  <2> QED BY <1>11, <2>1, QuietStep DEF CodeNameless
<1>12. ASSUME NEW p \in Press, CodeMissing(p)
       PROVE  IInv'
  <2>1. Kept /\ NoneAdded /\ FreshPresses' /\ OneName'
    BY <1>12 DEF CodeMissing, Kept, NoneAdded, FreshPresses, OneName, TypeOK
  <2> QED BY <1>12, <2>1, QuietStep DEF CodeMissing
<1>13. ASSUME NEW p \in Press, CodeRedeemed(p)
       PROVE  IInv'
  <2>0. PICK v \in user[p] : \E g \in GeneratedNames(p.device, v) :
            /\ user' = [user EXCEPT ![p] = {[g EXCEPT !.again = TRUE]}]
            /\ Register(p, Redemption([g EXCEPT !.again = TRUE], p, typed[p.device]))
    BY <1>13 DEF CodeRedeemed
  <2>1. PICK g \in GeneratedNames(p.device, v) :
            /\ user' = [user EXCEPT ![p] = {[g EXCEPT !.again = TRUE]}]
            /\ Register(p, Redemption([g EXCEPT !.again = TRUE], p, typed[p.device]))
    BY <2>0
  <2> DEFINE u == [g EXCEPT !.again = TRUE]
             c == typed[p.device]
             ws == <<Fields(u, p), Delete(c)>>
  <2>2. v \in UserName
    BY DEF TypeOK
  <2>3. g \in UserName /\ u \in UserName
    BY <2>1, <2>2, NumberedNames
  <2>4. u.again
    BY <2>3 DEF UserName
  <2>5. /\ user' = [user EXCEPT ![p] = {u}]
        /\ queue' = [queue EXCEPT ![p.device] = queue[p.device] \o ws]
        /\ step' = [step EXCEPT ![p] = "registered"]
    BY <2>1 DEF Register, Redemption
  <2>6. deletes' = [deletes EXCEPT ![p] = {c}]
    BY <1>13 DEF CodeRedeemed
  <2>7. ws = <<Fields(u, p), Delete(c)>>
    OBVIOUS
  <2> HIDE DEF u, c, ws
  <2>8. /\ step[p] = "naming" /\ written' = written /\ codes' = codes
        /\ accounts' = accounts /\ presses' = presses
    BY <1>13 DEF CodeRedeemed
  <2>9. c \in deletes'[p] /\ user'[p] = {u} /\ step'[p] = "registered"
    BY <2>5, <2>6 DEF TypeOK
  <2>10. /\ Kept /\ FreshPresses' /\ OneName'
         /\ \A q \in Press : step'[q] = "registered" => q = p \/ step[q] = "registered"
    BY <2>5, <2>6, <2>8 DEF Kept, FreshPresses, OneName, TypeOK
  <2>11. step[p] # "registered" /\ accounts \subseteq accounts'
    BY <2>8
  <2> QED BY <2>3, <2>4, <2>5, <2>7, <2>8, <2>9, <2>10, <2>11, RegisterStep
<1>14. ASSUME UNCHANGED vars
       PROVE  IInv'
  <2>1. Kept /\ NoneAdded /\ FreshPresses' /\ OneName'
    BY <1>14 DEF vars, Kept, NoneAdded, FreshPresses, OneName
  <2> QED BY <1>14, <2>1, QuietStep DEF vars
<1> QED
  BY <1>1, <1>2, <1>3, <1>4, <1>5, <1>6, <1>7, <1>8, <1>9, <1>10, <1>11, <1>12, <1>13, <1>14
  DEF Next, Device, Callback
----------------------------------------------------------------------------
(* IInv holds in every reachable state of every instance.                  *)
THEOREM Invariance ==
    ASSUME SignUpAssumption
    PROVE  Spec => []IInv
<1>1. Init => IInv
  <2> SUFFICES ASSUME Init
               PROVE  IInv
    OBVIOUS
  <2>1. TypeOK
    BY DEF Init, TypeOK, Steps, Alerts, SignUpAssumption
  <2>2. /\ WritersAreRegistered /\ AccountsAreKept /\ NamesAreOwn
        /\ FreshPresses /\ OneName
    BY DEF Init, WritersAreRegistered, Queued, AccountsAreKept, NamesAreOwn, FreshPresses, OneName
  <2>3. DeletesFollowFields /\ CodesAreRedeemed
    BY DEF Init, DeletesFollowFields, CodesAreRedeemed
  <2> QED BY <2>1, <2>2, <2>3 DEF IInv
<1>2. IInv /\ [Next]_vars => IInv'
  BY InvariantStep
<1> QED BY <1>1, <1>2, PTL DEF Spec, Safety

(* TypeOK holds in every instance: names stay within what the form and the *)
(* random number allow, and the queues hold only a chain's two writes.     *)
THEOREM TypeCorrect ==
    ASSUME SignUpAssumption
    PROVE  Spec => []TypeOK
<1>1. IInv => TypeOK
  BY DEF IInv
<1> QED BY <1>1, Invariance, PTL

(* However many devices sign up under one name, and however their checks,  *)
(* Auth's answers and their commits interleave, no document made by a      *)
(* sign-up ever receives the fields of two presses.                        *)
THEOREM OwnersAreUnique ==
    ASSUME SignUpAssumption
    PROVE  Spec => []DocumentsHaveOneOwner
<1>1. IInv => DocumentsHaveOneOwner
  BY DEF IInv, DocumentsHaveOneOwner, WritersAreRegistered, NamesAreOwn
<1> QED BY <1>1, Invariance, PTL

(* Whatever dies between the steps of a redemption, the document of a code *)
(* is gone only when the one written for it is there.                      *)
THEOREM CodesAreSafe ==
    ASSUME SignUpAssumption
    PROVE  Spec => []CodesOutliveTheirFields
<1>1. IInv => CodesOutliveTheirFields
  BY DEF IInv, CodesOutliveTheirFields, CodesAreRedeemed
<1> QED BY <1>1, Invariance, PTL
============================================================================
