----------------------------- MODULE ParentLink -----------------------------
(***************************************************************************)
(* A parent adds children by their codes.  Two documents say so: the       *)
(* parent's `students' lists the child, the child's `parentID' names the   *)
(* parent who came last.  The parent's app works on CurrentUser.students,  *)
(* which grows before anybody knows whether the code is a student's, and   *)
(* which the listener replaces by the document's list.                     *)
(*                                                                         *)
(* Meanwhile students sign up, and codes are redeemed: the code's document *)
(* goes, and the student's new one cannot be decoded, because SetGPA writes*)
(* a string where Student expects a number (SignUp has what a redemption   *)
(* writes; here its writes arrive in two steps).                           *)
(*                                                                         *)
(* Every parent has one device; the SDK keeps a queue per user, and sends  *)
(* it only while that user is signed in (WritePipeline).  A document that  *)
(* has been written by a queued merge exists for that device already.      *)
(***************************************************************************)
EXTENDS Integers, Sequences, FiniteSets

CONSTANTS
    Parents,
    NoParent,
    Names,          \* students who may sign up
    TempCodes,      \* the codes of documents that can be redeemed
    Unknown,        \* codes of nobody
    NewName,        \* the student document that redeeming a code writes
    MaxAdds         \* bound, per parent: codes confirmed

Codes == Names \cup TempCodes \cup Unknown
Redeemed == {NewName[c] : c \in TempCodes}

ASSUME ParentAssumption ==
    /\ NoParent \notin Parents
    /\ Names \cap TempCodes = {}
    /\ NewName \in [TempCodes -> Unknown]
    /\ Unknown \cap (Names \cup TempCodes) = {}
    /\ MaxAdds \in [Parents -> Nat]

VARIABLES
    doc,        \* per code: what its student document is like
    parentID,   \* per code: that field of the document
    children,   \* per parent: `students' of the document
    queue,      \* per parent: the writes that are not committed
    screen,     \* per parent
    students,   \* per parent: CurrentUser.students
    adding,     \* per parent: AddStudent's fetches under way
    confirms,   \* per parent: codes confirmed so far
    pages,      \* per parent: fetches of homepages under way
    shown,      \* per parent: the children on the newest homepage
    missed,     \* history: the codes that were not found in this session
    cut         \* history: the process died between AddStudent's two writes

documents == <<doc, parentID>>
app       == <<screen, students, adding, pages, shown, missed>>
vars      == <<documents, children, queue, app, confirms, cut>>

\* AddStudent's two writes: to the parent's list, and SetParentID.
List(c)  == [kind |-> "list", code |-> c]
Naming(c) == [kind |-> "parent", code |-> c]
Write    == [kind : {"list", "parent"}, code : Codes]

Kinds == {"none", "whole", "undecodable", "nameless"}

TypeOK ==
    /\ doc \in [Codes -> Kinds]
    /\ parentID \in [Codes -> Parents \cup {NoParent}]
    /\ children \in [Parents -> SUBSET Codes]
    /\ queue \in [Parents -> Seq(Write)]
    /\ screen \in [Parents -> {"out", "home", "trapped"}]
    /\ students \in [Parents -> SUBSET Codes]
    /\ adding \in [Parents -> SUBSET (Codes \X (Nat \ {0}))]
    /\ confirms \in [Parents -> Nat]
    /\ \A p \in Parents : confirms[p] \in 0..MaxAdds[p]
    /\ pages \in [Parents -> SUBSET [page : Nat, ids : SUBSET Codes]]
    /\ shown \in [Parents -> SUBSET Codes]
    /\ missed \in [Parents -> SUBSET Codes]
    /\ cut \subseteq Parents \X Codes

Init ==
    /\ doc = [c \in Codes |-> IF c \in TempCodes THEN "whole" ELSE "none"]
    /\ parentID = [c \in Codes |-> NoParent]
    /\ children = [p \in Parents |-> {}]
    /\ queue = [p \in Parents |-> << >>]
    /\ screen = [p \in Parents |-> "out"]
    /\ students = [p \in Parents |-> {}]
    /\ adding = [p \in Parents |-> {}]
    /\ confirms = [p \in Parents |-> 0]
    /\ pages = [p \in Parents |-> {}]
    /\ shown = [p \in Parents |-> {}]
    /\ missed = [p \in Parents |-> {}]
    /\ cut = {}

Queued(p, w) == \E i \in DOMAIN queue[p] : queue[p][i] = w

\* The parent's list as that parent's device has it.
View(p) == children[p] \cup {c \in Codes : Queued(p, List(c))}

\* A student document as the device of p has it.
Seen(p, c) ==
    IF doc[c] = "none" /\ Queued(p, Naming(c)) THEN "nameless" ELSE doc[c]

Decodable(p, c) == Seen(p, c) \in {"whole", "nameless"}
----------------------------------------------------------------------------
(* Login: the parent's document is fetched and listened to, and the        *)
(* homepage asks for the children (viewDidLoad, GetStudentObjects).        *)
LogIn(p) ==
    /\ screen[p] = "out"
    /\ screen' = [screen EXCEPT ![p] = "home"]
    /\ students' = [students EXCEPT ![p] = View(p)]
    /\ pages' = [pages EXCEPT ![p] = {[page |-> confirms[p], ids |-> View(p)]}]
    /\ UNCHANGED <<documents, children, queue, adding, confirms, shown, missed, cut>>

\* Mutant: GetDocumentsFromIDs forgets its filter.
EveryStudent(p, ids) == {c \in Codes : Seen(p, c) # "none"}

\* The documents that GetStudentObjects finds.
GetDocumentsFromIDs(p, ids) == {c \in ids : Seen(p, c) # "none"}

(* GetStudentObjects completes, offline perhaps with less than there is.  A*)
(* document that cannot be decoded, or has no ID to listen to, is a trap.  *)
HomepageFetched(p, request) ==
    /\ screen[p] = "home"
    /\ request \in pages[p]
    /\ pages' = [pages EXCEPT ![p] = @ \ {request}]
    /\ \E found \in SUBSET GetDocumentsFromIDs(p, request.ids) :
           IF \A c \in found : Seen(p, c) = "whole"
           THEN /\ shown' = IF request.page = confirms[p]
                            THEN [shown EXCEPT ![p] = found]
                            ELSE shown
                /\ UNCHANGED screen
           ELSE /\ screen' = [screen EXCEPT ![p] = "trapped"]
                /\ UNCHANGED shown
    /\ UNCHANGED <<documents, children, queue, students, adding, confirms, missed, cut>>

\* Mutant: the child's document is written before it is known to exist.
ConfirmBlindly(p, c) ==
    /\ screen[p] = "home"
    /\ confirms[p] < MaxAdds[p]
    /\ confirms' = [confirms EXCEPT ![p] = @ + 1]
    /\ queue' = [queue EXCEPT ![p] = @ \o <<List(c), Naming(c)>>]
    /\ students' = [students EXCEPT ![p] = @ \cup {c}]
    /\ pages' = [pages EXCEPT ![p] =
           @ \cup {[page |-> confirms[p] + 1, ids |-> students[p] \cup {c}]}]
    /\ shown' = [shown EXCEPT ![p] = {}]
    /\ UNCHANGED <<documents, children, adding, screen, missed, cut>>

(* ConfirmPressed: AddStudent appends and asks for the student, and a new  *)
(* homepage is presented at once.                                          *)
ConfirmPressed(p, c) ==
    /\ screen[p] = "home"
    /\ confirms[p] < MaxAdds[p]
    /\ confirms' = [confirms EXCEPT ![p] = @ + 1]
    /\ students' = [students EXCEPT ![p] = @ \cup {c}]
    /\ adding' = [adding EXCEPT ![p] = @ \cup {<<c, confirms[p] + 1>>}]
    /\ pages' = [pages EXCEPT ![p] =
           @ \cup {[page |-> confirms[p] + 1, ids |-> students[p] \cup {c}]}]
    /\ shown' = [shown EXCEPT ![p] = {}]
    /\ UNCHANGED <<documents, children, queue, screen, missed, cut>>

\* Mutant: the child's document is written first.
ParentFirst(c) == <<Naming(c), List(c)>>

\* What AddStudent writes when the student has been found, in order.
Linking(c) == <<List(c), Naming(c)>>

(* GetStudentFromID completes.                                             *)
StudentFound(p, c, n) ==
    /\ screen[p] = "home"
    /\ <<c, n>> \in adding[p]
    /\ Seen(p, c) = "whole"
    /\ queue' = [queue EXCEPT ![p] = @ \o Linking(c)]
    /\ adding' = [adding EXCEPT ![p] = @ \ {<<c, n>>}]
    /\ UNCHANGED <<documents, children, screen, students, confirms, pages, shown, missed, cut>>

(* A document that cannot be decoded is a trap before the first write; one *)
(* without an ID is one at the second, when SetParentID has no document to *)
(* write to, and the first write may not have reached the disk.            *)
FoundBroken(p, c, n) ==
    /\ screen[p] = "home"
    /\ <<c, n>> \in adding[p]
    /\ Seen(p, c) \in {"undecodable", "nameless"}
    /\ \/ UNCHANGED queue
       \/ /\ Decodable(p, c)
          /\ queue' = [queue EXCEPT ![p] = Append(@, List(c))]
    /\ screen' = [screen EXCEPT ![p] = "trapped"]
    /\ adding' = [adding EXCEPT ![p] = @ \ {<<c, n>>}]
    /\ UNCHANGED <<documents, children, students, confirms, pages, shown, missed, cut>>

(* There is none, or the device is offline and has no copy: GetStudentFrom-*)
(* ID does not complete.                                                   *)
StudentMissing(p, c, n) ==
    /\ screen[p] = "home"
    /\ <<c, n>> \in adding[p]
    /\ adding' = [adding EXCEPT ![p] = @ \ {<<c, n>>}]
    /\ missed' = [missed EXCEPT ![p] = @ \cup {c}]
    /\ UNCHANGED <<documents, children, queue, screen, students, confirms, pages, shown, cut>>

(* The listener: SetPropertiesFromDoc takes the document's list, if there  *)
(* is one.                                                                 *)
Hear(p) ==
    /\ screen[p] = "home"
    /\ View(p) # {}
    /\ students' = [students EXCEPT ![p] = View(p)]
    /\ UNCHANGED <<documents, children, queue, screen, adding, confirms, pages, shown, missed, cut>>
----------------------------------------------------------------------------
(* The service commits the oldest write of a parent.  SetParentID merges:  *)
(* it makes a document that is not there.                                  *)
Commit(p) ==
    /\ screen[p] = "home"
    /\ queue[p] # << >>
    /\ LET w == Head(queue[p])
       IN  IF w.kind = "list"
           THEN /\ children' = [children EXCEPT ![p] = @ \cup {w.code}]
                /\ UNCHANGED documents
           ELSE /\ doc' = [doc EXCEPT ![w.code] = IF @ = "none" THEN "nameless" ELSE @]
                /\ parentID' = [parentID EXCEPT ![w.code] = p]
                /\ UNCHANGED children
    /\ queue' = [queue EXCEPT ![p] = Tail(@)]
    /\ UNCHANGED <<app, confirms, cut>>

\* Everything in memory is gone, and the app starts signed out.
Forget(p) ==
    /\ screen' = [screen EXCEPT ![p] = "out"]
    /\ students' = [students EXCEPT ![p] = {}]
    /\ adding' = [adding EXCEPT ![p] = {}]
    /\ pages' = [pages EXCEPT ![p] = {}]
    /\ shown' = [shown EXCEPT ![p] = {}]
    /\ missed' = [missed EXCEPT ![p] = {}]

\* Mutant: what is not committed is lost with the process.
RelaunchUnqueued(p) ==
    /\ screen[p] # "out"
    /\ Forget(p)
    /\ queue' = [queue EXCEPT ![p] = << >>]
    /\ UNCHANGED <<documents, children, confirms, cut>>

(* The process dies and is started again.                                  *)
Relaunch(p) ==
    /\ screen[p] # "out"
    /\ Forget(p)
    /\ UNCHANGED <<documents, children, queue, confirms, cut>>

(* It dies in AddStudent's completion, with the first write on disk and    *)
(* the second one not.                                                     *)
DieLinking(p, c, n) ==
    /\ screen[p] = "home"
    /\ <<c, n>> \in adding[p]
    /\ Seen(p, c) = "whole"
    /\ Forget(p)
    /\ queue' = [queue EXCEPT ![p] = Append(@, Head(Linking(c)))]
    /\ cut' = cut \cup {<<p, c>>}
    /\ UNCHANGED <<documents, children, confirms>>
----------------------------------------------------------------------------
(* Students, on devices of their own.                                      *)
SignUp(c) ==
    /\ c \in Names
    /\ doc[c] = "none"
    /\ doc' = [doc EXCEPT ![c] = "whole"]
    /\ UNCHANGED <<parentID, children, queue, app, confirms, cut>>

(* The fields of a redemption arrive, the grade point average among them.  *)
WriteRedeemed(c) ==
    /\ c \in TempCodes
    /\ doc[c] = "whole"
    /\ doc' = [doc EXCEPT ![NewName[c]] = "undecodable"]
    /\ UNCHANGED <<parentID, children, queue, app, confirms, cut>>

(* The deletion of the code arrives.                                       *)
DeleteCode(c) ==
    /\ c \in TempCodes
    /\ doc[c] = "whole"
    /\ doc[NewName[c]] = "undecodable"
    /\ doc' = [doc EXCEPT ![c] = "none"]
    /\ parentID' = [parentID EXCEPT ![c] = NoParent]
    /\ UNCHANGED <<children, queue, app, confirms, cut>>

Parent(p) ==
    \/ LogIn(p)
    \/ \E request \in pages[p] : HomepageFetched(p, request)
    \/ \E c \in Codes : ConfirmPressed(p, c)
    \/ \E c \in Codes, n \in 1..MaxAdds[p] :
           \/ StudentFound(p, c, n)
           \/ FoundBroken(p, c, n)
           \/ StudentMissing(p, c, n)
           \/ DieLinking(p, c, n)
    \/ Hear(p)
    \/ Commit(p)
    \/ Relaunch(p)

Next ==
    \/ \E p \in Parents : Parent(p)
    \/ \E c \in Codes : SignUp(c) \/ WriteRedeemed(c) \/ DeleteCode(c)

Spec == Init /\ [][Next]_vars
----------------------------------------------------------------------------
Deleted == {c \in TempCodes : doc[c] \in {"none", "nameless"}}

(* A child's document names a parent only if that parent's list has the    *)
(* child, however many parents add one child and whatever dies.            *)
NamedParentHasChild ==
    \A c \in Codes, p \in Parents : parentID[c] = p => c \in children[p]

(* A child on a list names some parent, or will, but for two causes: the   *)
(* process died between the two writes, or the code has been redeemed,     *)
(* which leaves the link behind.                                           *)
HalfLinksHaveACause ==
    \A p \in Parents : \A c \in children[p] :
        \/ parentID[c] # NoParent
        \/ Queued(p, Naming(c))
        \/ <<p, c>> \in cut
        \/ c \in Deleted

(* While the app runs, the homepage shows a child only if the parent's     *)
(* list has it or will, but for one cause: the code was confirmed when no  *)
(* student was found.  Nobody was told, and the student has appeared since.*)
ShownChildrenAreLinked ==
    \A p \in Parents : \A c \in shown[p] :
        \/ screen[p] = "trapped"
        \/ c \in View(p)
        \/ \E n \in 1..MaxAdds[p] : <<c, n>> \in adding[p]
        \/ c \in missed[p]

(* A parent's app does not die on a child's document unless a code has been*)
(* redeemed: the redemption wrote one that cannot be decoded, or deleted   *)
(* one that a SetParentID on its way made again, without an ID.            *)
TrapsOnlyAfterRedemption ==
    \A p \in Parents :
        screen[p] = "trapped" => \E c \in TempCodes : doc[NewName[c]] = "undecodable"
============================================================================
