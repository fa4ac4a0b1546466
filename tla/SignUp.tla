------------------------------- MODULE SignUp -------------------------------
(***************************************************************************)
(* Making an account.  A device is one running copy of the app with the    *)
(* form of a student, a parent or a teacher on it (CreateAccountStudent,   *)
(* CreateAccountParent, CreateAccountTeacher); a student's form can also   *)
(* redeem a code, which is the ID of a student document somebody prepared. *)
(*                                                                         *)
(* A sign-up is a chain of callbacks: UserHelper.GenerateUserName asks     *)
(* whether the document of the generated name exists, then Firebase Auth   *)
(* is asked to create the account, then the document is written through    *)
(* the SDK's queue.  Nothing keeps the button from being pressed again, or *)
(* another device from being in the middle of the same chain.              *)
(*                                                                         *)
(* A press is known by its device and number.  A document is known by its  *)
(* user name and holds the fields of whoever wrote it.  The setters of one *)
(* registration write one document in a row and are one write here.        *)
(***************************************************************************)
EXTENDS Naturals, Sequences, FiniteSets

CONSTANTS
    Devices,
    RoleOf,         \* the form on each device
    BaseOf,         \* the name that the names on each device's form abbreviate to
    Codes,          \* documents that can be redeemed
    NameOnCode,     \* the name in each of them, or NoName
    UnknownCodes,   \* codes of no document
    Bases,
    NoName,
    Numbers,        \* what Int.random may return
    MaxPresses      \* bound: presses per device

Roles == {"student", "parent", "teacher"}

ASSUME SignUpAssumption ==
    /\ RoleOf \in [Devices -> Roles]
    /\ BaseOf \in [Devices -> Bases]
    /\ NoName \notin Bases
    /\ NameOnCode \in [Codes -> Bases \cup {NoName}]
    /\ Codes \cap UnknownCodes = {}
    /\ Numbers # {} /\ Numbers \subseteq Nat \ {0}
    /\ MaxPresses \in [Devices -> Nat]

Press == UNION {[device : {d}, number : 1..MaxPresses[d]] : d \in Devices}

\* "s_" + base + number; `again' when another "s_" is put in front of it.
\* Number 0 is no number.
UserName == [role : Roles, base : Bases, number : Numbers \cup {0}, again : BOOLEAN]
Plain(role, base) == [role |-> role, base |-> base, number |-> 0, again |-> FALSE]

Steps == {"none", "checking", "creating", "looking", "naming",
          "registered", "failed", "unheard", "lost"}

VARIABLES
    accounts,   \* Auth: the user names that have an account
    written,    \* the documents: which press wrote fields into which
    codes,      \* the documents of codes that still exist
    queue,      \* per device: its writes that are not committed
    step,       \* per press: how far it is
    user,       \* per press: the name generated so far, as a set
    deletes,    \* per press: the code it deletes, as a set
    presses,    \* per device: presses so far
    typed,      \* per device: the text of the code field
    screen,     \* per device
    alert       \* per device

service == <<accounts, written, codes>>
attempt == <<step, user, deletes>>
form    == <<presses, typed>>
view    == <<screen, alert>>
vars    == <<service, queue, attempt, form, view>>

Fields(u, p) == [kind |-> "fields", user |-> {u}, press |-> {p}, code |-> {}]
Delete(c)    == [kind |-> "delete", user |-> {}, press |-> {}, code |-> {c}]

Writes == {Fields(u, p) : u \in UserName, p \in Press}
          \cup {Delete(c) : c \in Codes \cup UnknownCodes}

Alerts == {"none", "mismatch", "required", "failed", "code"}

TypeOK ==
    /\ accounts \subseteq UserName
    /\ written \subseteq UserName \X Press
    /\ codes \subseteq Codes
    /\ queue \in [Devices -> Seq(Writes)]
    /\ step \in [Press -> Steps]
    /\ user \in [Press -> SUBSET UserName]
    /\ deletes \in [Press -> SUBSET (Codes \cup UnknownCodes)]
    /\ presses \in [Devices -> Nat]
    /\ \A d \in Devices : presses[d] <= MaxPresses[d]
    /\ typed \in [Devices -> Codes \cup UnknownCodes]
    /\ screen \in [Devices -> {"form", "home"}]
    /\ alert \in [Devices -> Alerts]

Init ==
    /\ accounts = {}
    /\ written = {}
    /\ codes = Codes
    /\ queue = [d \in Devices |-> << >>]
    /\ step = [p \in Press |-> "none"]
    /\ user = [p \in Press |-> {}]
    /\ deletes = [p \in Press |-> {}]
    /\ presses = [d \in Devices |-> 0]
    /\ typed \in [Devices -> Codes \cup UnknownCodes]
    /\ screen = [d \in Devices |-> "form"]
    /\ alert = [d \in Devices |-> "none"]

\* What a device may submit: the passwords are one, they are long enough, and
\* every field is full.
Form == [equal : BOOLEAN, long : BOOLEAN, full : BOOLEAN]
IsValid(f) == f.equal /\ f.long /\ f.full

\* The document of u exists, as device d can know it.
Exists(d, u) ==
    \/ \E p \in Press : <<u, p>> \in written
    \/ \E i \in 1..Len(queue[d]) : queue[d][i].user = {u}

\* Mutant: the completion is called only for a document, as GetDocument does.
AnsweredNames(d, u) ==
    IF Exists(d, u) THEN {[u EXCEPT !.number = n] : n \in Numbers} ELSE {}

\* What GenerateUserName may complete with: a random number is put behind a
\* name that is taken, and not checked; a failed check counts as free.
GeneratedNames(d, u) ==
    {u} \cup (IF Exists(d, u) THEN {[u EXCEPT !.number = n] : n \in Numbers} ELSE {})

\* A press takes its number and starts its chain of callbacks.
Start(d, first, names) ==
    LET p == [device |-> d, number |-> presses[d] + 1]
    IN  /\ presses[d] < MaxPresses[d]
        /\ presses' = [presses EXCEPT ![d] = @ + 1]
        /\ step' = [step EXCEPT ![p] = first]
        /\ user' = [user EXCEPT ![p] = names]
----------------------------------------------------------------------------
(* signUpPressed, of a student at once and of an adult whose form is valid:*)
(* the document of the generated name is asked for.                        *)
SignUpPressed(d, f) ==
    /\ screen[d] = "form"
    /\ RoleOf[d] = "student" \/ IsValid(f)
    /\ Start(d, "checking", {Plain(RoleOf[d], BaseOf[d])})
    /\ alert' = [alert EXCEPT ![d] = "none"]
    /\ UNCHANGED <<service, queue, deletes, typed, screen>>

(* An adult's form that is not valid gets an alert.                        *)
FormRefused(d, f) ==
    /\ screen[d] = "form"
    /\ RoleOf[d] # "student"
    /\ ~IsValid(f)
    /\ alert' = [alert EXCEPT ![d] = IF f.equal THEN "mismatch" ELSE "required"]
    /\ UNCHANGED <<service, queue, attempt, form, screen>>

(* GenerateUserName completes, and Auth is asked for the account.          *)
NameChecked(p) ==
    /\ step[p] = "checking"
    /\ \E u \in user[p] : \E v \in GeneratedNames(p.device, u) :
           user' = [user EXCEPT ![p] = {v}]
    /\ step' = [step EXCEPT ![p] = "creating"]
    /\ UNCHANGED <<service, queue, deletes, form, view>>

\* The new user's fields are queued, and the segue shows the homepage.
Register(p, writes) ==
    /\ queue' = [queue EXCEPT ![p.device] = @ \o writes]
    /\ step' = [step EXCEPT ![p] = "registered"]
    /\ screen' = [screen EXCEPT ![p.device] = "home"]

\* Mutant: the completion does not look at `success'.
CreatedUnchecked(p) ==
    /\ step[p] = "creating"
    /\ \E u \in user[p] :
           /\ accounts' = accounts \cup {u}
           /\ Register(p, <<Fields(u, p)>>)
    /\ UNCHANGED <<written, codes, user, deletes, form, alert>>

(* Auth has created the account: a user name has one account.              *)
AccountCreated(p) ==
    /\ step[p] = "creating"
    /\ \E u \in user[p] :
           /\ u \notin accounts
           /\ accounts' = accounts \cup {u}
           /\ Register(p, <<Fields(u, p)>>)
    /\ UNCHANGED <<written, codes, user, deletes, form, alert>>

(* Auth refuses, or cannot be reached, or its answer is lost: an alert.    *)
AccountRefused(p) ==
    /\ step[p] = "creating"
    /\ accounts' \in {accounts, accounts \cup user[p]}
    /\ step' = [step EXCEPT ![p] = "failed"]
    /\ alert' = [alert EXCEPT ![p.device] = "failed"]
    /\ UNCHANGED <<written, codes, queue, user, deletes, form, screen>>
----------------------------------------------------------------------------
TypeCode(d, c) ==
    /\ screen[d] = "form"
    /\ RoleOf[d] = "student"
    /\ typed' = [typed EXCEPT ![d] = c]
    /\ UNCHANGED <<service, queue, attempt, presses, view>>

(* signUpParentCodePressed asks for the document of the code.              *)
RedeemPressed(d) ==
    /\ screen[d] = "form"
    /\ RoleOf[d] = "student"
    /\ Start(d, "looking", {})
    /\ LET p == [device |-> d, number |-> presses[d] + 1]
       IN  deletes' = [deletes EXCEPT ![p] = {typed[d]}]
    /\ UNCHANGED <<service, queue, typed, view>>

\* The document that the query of a press finds: a deletion that is queued on
\* the device hides it there.
Found(p) ==
    {c \in deletes[p] \cap codes :
        \A i \in 1..Len(queue[p.device]) : queue[p.device][i] # Delete(c)}

(* There is a document, and a name in it: its new name is generated next.  *)
CodeFound(p) ==
    /\ step[p] = "looking"
    /\ \E c \in Found(p) :
           /\ NameOnCode[c] # NoName
           /\ user' = [user EXCEPT ![p] = {Plain("student", NameOnCode[c])}]
    /\ step' = [step EXCEPT ![p] = "naming"]
    /\ UNCHANGED <<service, queue, deletes, form, view>>

(* There is a document without a name in it: an alert.                     *)
CodeNameless(p) ==
    /\ step[p] = "looking"
    /\ \E c \in Found(p) : NameOnCode[c] = NoName
    /\ step' = [step EXCEPT ![p] = "failed"]
    /\ alert' = [alert EXCEPT ![p.device] = "code"]
    /\ UNCHANGED <<service, queue, user, deletes, form, screen>>

(* There is none, or the query fails: GetStudentByID does not complete.  (A*)
(* code that starts with another letter than s or x traps, which is a      *)
(* relaunch.)                                                              *)
CodeMissing(p) ==
    /\ step[p] = "looking"
    /\ step' = [step EXCEPT ![p] = "unheard"]
    /\ UNCHANGED <<service, queue, user, deletes, form, view>>

\* Mutant: the code is deleted first.
DeleteFirst(u, p, c) == <<Delete(c), Fields(u, p)>>

\* What a redemption writes, in order.
Redemption(u, p, c) == <<Fields(u, p), Delete(c)>>

(* GenerateUserName completes.  The fields are written into the document   *)
(* with one more "s_" in front of the name that was checked, and the code  *)
(* that is in the text field by now is deleted.  No account is created.    *)
CodeRedeemed(p) ==
    /\ step[p] = "naming"
    /\ \E u \in user[p] : \E v \in GeneratedNames(p.device, u) :
           LET w == [v EXCEPT !.again = TRUE]
           IN  /\ user' = [user EXCEPT ![p] = {w}]
               /\ Register(p, Redemption(w, p, typed[p.device]))
    /\ deletes' = [deletes EXCEPT ![p] = {typed[p.device]}]
    /\ UNCHANGED <<service, form, alert>>
----------------------------------------------------------------------------
(* The service commits the oldest write of a device.                       *)
Commit(d) ==
    /\ queue[d] # << >>
    /\ LET w == Head(queue[d])
       IN  /\ written' = written \cup (w.user \X w.press)
           /\ codes' = codes \ w.code
    /\ queue' = [queue EXCEPT ![d] = Tail(@)]
    /\ UNCHANGED <<accounts, attempt, form, view>>

\* What the callbacks of a process would have done is lost with it.
Forgotten(d) ==
    [p \in Press |-> IF p.device = d /\ step[p] \notin {"none", "registered", "failed"}
                     THEN "lost" ELSE step[p]]

\* Mutant: so is what it has queued.
RelaunchUnqueued(d) ==
    /\ step' = Forgotten(d)
    /\ queue' = [queue EXCEPT ![d] = << >>]
    /\ screen' = [screen EXCEPT ![d] = "form"]
    /\ alert' = [alert EXCEPT ![d] = "none"]
    /\ UNCHANGED <<service, user, deletes, form>>

(* The process dies and the form is filled in again; an account that Auth  *)
(* was asked for may be created all the same.  The queue is on disk.       *)
Relaunch(d) ==
    /\ step' = Forgotten(d)
    /\ accounts' \in {accounts,
           accounts \cup UNION {user[p] : p \in {q \in Press : q.device = d /\ step[q] = "creating"}}}
    /\ screen' = [screen EXCEPT ![d] = "form"]
    /\ alert' = [alert EXCEPT ![d] = "none"]
    /\ UNCHANGED <<written, codes, queue, user, deletes, form>>

Device(d) ==
    \/ \E f \in Form : SignUpPressed(d, f) \/ FormRefused(d, f)
    \/ \E c \in Codes \cup UnknownCodes : TypeCode(d, c)
    \/ RedeemPressed(d)
    \/ Commit(d)
    \/ Relaunch(d)

Callback(p) ==
    \/ NameChecked(p)
    \/ AccountCreated(p)
    \/ AccountRefused(p)
    \/ CodeFound(p)
    \/ CodeNameless(p)
    \/ CodeMissing(p)
    \/ CodeRedeemed(p)

Next == (\E d \in Devices : Device(d)) \/ (\E p \in Press : Callback(p))

(* Every request is answered in the end, and the SDK retries a write until *)
(* the service has it.  Nothing is assumed of the users.                   *)
Fairness ==
    /\ \A p \in Press : WF_vars(Callback(p))
    /\ \A d \in Devices : WF_vars(Commit(d))

Safety == Init /\ [][Next]_vars
Spec == Safety /\ Fairness
----------------------------------------------------------------------------
(* A document made by a sign-up has the fields of one press in it, although*)
(* its existence is checked before the account is created, the random      *)
(* number is not checked at all and the document comes later: Auth accepts *)
(* a user name once.                                                       *)
DocumentsHaveOneOwner ==
    \A u \in UserName, p, q \in Press :
        ~u.again /\ <<u, p>> \in written /\ <<u, q>> \in written => p = q

(* The document of a code disappears only after the redemption that deletes*)
(* it has stored what it read from its own code, whatever dies in between: *)
(* the deletion is queued behind the fields (CreateAccountStudent.swift,   *)
(* signUpParentCodePressed).                                               *)
CodesOutliveTheirFields ==
    \A c \in Codes \ codes : \E p \in Press :
        /\ c \in deletes[p]
        /\ \E u \in user[p] : <<u, p>> \in written

(* A sign-up comes to an end that the user sees, the homepage or an alert, *)
(* unless the app dies meanwhile.                                          *)
SignUpsAreAnswered ==
    \A p \in Press :
        step[p] = "checking" ~> step[p] \in {"registered", "failed", "lost"}

(* Whoever is registered gets a document, even if the app dies right after.*)
RegisteredAreWritten ==
    \A p \in Press :
        step[p] = "registered" ~> \E u \in user[p] : <<u, p>> \in written
----------------------------------------------------------------------------
(* "code not found": whoever redeems a code of no document is told, unless *)
(* the app dies meanwhile.                                                 *)
UnknownCodesAreReported ==
    \A d \in Devices :
        (\E p \in Press : /\ p.device = d
                          /\ step[p] = "looking"
                          /\ deletes[p] \subseteq UnknownCodes)
            ~> (alert[d] = "code" \/ \E p \in Press : step[p] = "lost")
============================================================================
