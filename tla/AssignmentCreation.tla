------------------------- MODULE AssignmentCreation -------------------------
(***************************************************************************)
(* A teacher creates an assignment: CreateAssignmentViewController draws   *)
(* an ID, and four setters of Assignment write one field each into that    *)
(* document, whoever's it is.  The quiz's file is uploaded before, by an   *)
(* upload whose completion names it on the screen; nothing says which      *)
(* assignment it is for.                                                   *)
(*                                                                         *)
(* A creation is known by its number, and so is a picked file; a field     *)
(* holds the number of the creation that wrote it, 0 for none.  Between    *)
(* creations the controller holds an Assignment of ID ".", whose SetID     *)
(* writes to a document that the service does not allow: such a write is   *)
(* sent and has no effect.                                                 *)
(***************************************************************************)
EXTENDS Integers, Sequences, FiniteSets

CONSTANTS
    Devices,
    IDs,            \* assignment documents
    DrawsOf,        \* per device: the IDs it may draw; nothing separates the
                    \* teacher's ID from the number behind it
    FileNames,
    NoFile,
    MaxCreations,   \* bound
    MaxPicks        \* bound: files picked

ASSUME CreationAssumption ==
    /\ DrawsOf \in [Devices -> SUBSET IDs]
    /\ NoFile \notin FileNames
    /\ MaxCreations \in Nat
    /\ MaxPicks \in Nat

Fields == {"dueDate", "name", "description", "filePath"}
Write  == [id : IDs, field : Fields, creation : 1..MaxCreations]

VARIABLES
    assignment, \* per ID: the document's fields
    storage,    \* per file name: the pick whose file is stored under it
    queue,      \* per device: its writes that are not committed
    form,       \* per device: what the text fields are like
    label,      \* per device: the file name on the screen
    uploads,    \* per device: uploads under way
    made,       \* history: the creations
    picks       \* bound

screen == <<form, label>>
vars   == <<assignment, storage, queue, screen, uploads, made, picks>>

\* here is whether the screen that started it is still up, stored whether the
\* file has arrived.
Upload == [pick : 1..MaxPicks, name : FileNames, here : BOOLEAN, stored : BOOLEAN]

Creation == [id : IDs, device : Devices, file : FileNames, cut : BOOLEAN]

TypeOK ==
    /\ assignment \in [IDs -> [Fields -> 0..Len(made)]]
    /\ storage \in [FileNames -> 0..picks]
    /\ queue \in [Devices -> Seq(Write)]
    /\ form \in [Devices -> {"incomplete", "wrong date", "complete"}]
    /\ label \in [Devices -> FileNames \cup {NoFile}]
    /\ uploads \in [Devices -> SUBSET Upload]
    /\ made \in Seq(Creation)
    /\ Len(made) \in 0..MaxCreations
    /\ picks \in 0..MaxPicks

Init ==
    /\ assignment = [id \in IDs |-> [f \in Fields |-> 0]]
    /\ storage = [f \in FileNames |-> 0]
    /\ queue = [d \in Devices |-> << >>]
    /\ form = [d \in Devices |-> "incomplete"]
    /\ label = [d \in Devices |-> NoFile]
    /\ uploads = [d \in Devices |-> {}]
    /\ made = << >>
    /\ picks = 0
----------------------------------------------------------------------------
\* The uploads of a screen that is gone go on.
Orphaned(d) == {[u EXCEPT !.here = FALSE] : u \in uploads[d]}

\* An empty screen (ClearFields, or a new one).
EmptyScreen(d) ==
    /\ form' = [form EXCEPT ![d] = "incomplete"]
    /\ label' = [label EXCEPT ![d] = NoFile]

(* The screen is left and opened again.                                    *)
OpenScreen(d) ==
    /\ EmptyScreen(d)
    /\ uploads' = [uploads EXCEPT ![d] = Orphaned(d)]
    /\ UNCHANGED <<assignment, storage, queue, made, picks>>

(* The teacher edits the text fields.                                      *)
Edit(d) ==
    /\ \E f \in {"incomplete", "wrong date", "complete"} :
           form' = [form EXCEPT ![d] = f]
    /\ UNCHANGED <<assignment, storage, queue, label, uploads, made, picks>>

\* Mutant: the label is set when the file is picked.
PickAndLabel(d, name) ==
    /\ picks < MaxPicks
    /\ picks' = picks + 1
    /\ uploads' = [uploads EXCEPT ![d] = @ \cup
           {[pick |-> picks + 1, name |-> name, here |-> TRUE, stored |-> FALSE]}]
    /\ label' = [label EXCEPT ![d] = name]
    /\ UNCHANGED <<assignment, storage, queue, form, made>>

(* documentPicker: putFile.                                                *)
PickFile(d, name) ==
    /\ picks < MaxPicks
    /\ picks' = picks + 1
    /\ uploads' = [uploads EXCEPT ![d] = @ \cup
           {[pick |-> picks + 1, name |-> name, here |-> TRUE, stored |-> FALSE]}]
    /\ UNCHANGED <<assignment, storage, queue, screen, made>>

(* The file arrives, over the one of the same name.                        *)
Store(d, u) ==
    /\ u \in uploads[d]
    /\ ~u.stored
    /\ storage' = [storage EXCEPT ![u.name] = u.pick]
    /\ uploads' = [uploads EXCEPT ![d] = (@ \ {u}) \cup {[u EXCEPT !.stored = TRUE]}]
    /\ UNCHANGED <<assignment, queue, screen, made, picks>>

(* putFile's completion, whatever has been created or picked since.        *)
Uploaded(d, u) ==
    /\ u \in uploads[d]
    /\ u.stored
    /\ uploads' = [uploads EXCEPT ![d] = @ \ {u}]
    /\ label' = IF u.here THEN [label EXCEPT ![d] = u.name] ELSE label
    /\ UNCHANGED <<assignment, storage, queue, form, made, picks>>

(* putFile's completion with an error, perhaps only of the answer.         *)
UploadFailed(d, u) ==
    /\ u \in uploads[d]
    /\ uploads' = [uploads EXCEPT ![d] = @ \ {u}]
    /\ UNCHANGED <<assignment, storage, queue, screen, made, picks>>
----------------------------------------------------------------------------
\* Mutant: the description goes into the name.
NameTwice(id, c) ==
    <<[id |-> id, field |-> "dueDate",  creation |-> c],
      [id |-> id, field |-> "name",     creation |-> c],
      [id |-> id, field |-> "name",     creation |-> c],
      [id |-> id, field |-> "filePath", creation |-> c]>>

\* What GenerateAssignment writes about creation c, in order.
Setters(id, c) ==
    <<[id |-> id, field |-> "dueDate",     creation |-> c],
      [id |-> id, field |-> "name",        creation |-> c],
      [id |-> id, field |-> "description", creation |-> c],
      [id |-> id, field |-> "filePath",    creation |-> c]>>

\* The creation on device d of a document of the given ID, of which the first
\* n writes reach the disk.
Create(d, id, n) ==
    /\ form[d] = "complete"
    /\ label[d] # NoFile
    /\ Len(made) < MaxCreations
    /\ id \in DrawsOf[d]
    /\ queue' = [queue EXCEPT ![d] = @ \o SubSeq(Setters(id, Len(made) + 1), 1, n)]
    /\ made' = Append(made, [id |-> id, device |-> d, file |-> label[d], cut |-> n < 4])

(* confirmQuizCreation with every field filled in: GenerateID, SetDueDate, *)
(* SetName, SetDescription, SetFilePath, ClearFields.                      *)
ConfirmCreation(d, id) ==
    /\ Create(d, id, 4)
    /\ EmptyScreen(d)
    /\ UNCHANGED <<assignment, storage, uploads, picks>>

(* The process dies in there, after some of the writes.                    *)
DieConfirming(d, id, n) ==
    /\ Create(d, id, n)
    /\ EmptyScreen(d)
    /\ uploads' = [uploads EXCEPT ![d] = {}]
    /\ UNCHANGED <<assignment, storage, picks>>

\* Mutant: the date is checked last.
DateCheckedLast(d, id) ==
    /\ form[d] = "wrong date"
    /\ label[d] # NoFile
    /\ Len(made) < MaxCreations
    /\ id \in DrawsOf[d]
    /\ queue' = [queue EXCEPT ![d] = @ \o SubSeq(Setters(id, Len(made) + 1), 2, 4)]
    /\ made' = Append(made, [id |-> id, device |-> d, file |-> label[d], cut |-> FALSE])
    /\ UNCHANGED <<assignment, storage, screen, uploads, picks>>

(* With a date that cannot be parsed SetDueDate writes nothing, and nothing*)
(* comes after it.  The fields stay as they are.                           *)
RefuseDate(d, id) ==
    /\ form[d] = "wrong date"
    /\ label[d] # NoFile
    /\ id \in DrawsOf[d]
    /\ UNCHANGED vars

(* The service commits the oldest write of a device (setData, merged).     *)
Commit(d) ==
    /\ queue[d] # << >>
    /\ LET w == Head(queue[d])
       IN  assignment' = [assignment EXCEPT ![w.id][w.field] = w.creation]
    /\ queue' = [queue EXCEPT ![d] = Tail(@)]
    /\ UNCHANGED <<storage, screen, uploads, made, picks>>

(* The process dies and the screen is opened again; the queue is on disk.  *)
Relaunch(d) ==
    /\ EmptyScreen(d)
    /\ uploads' = [uploads EXCEPT ![d] = {}]
    /\ UNCHANGED <<assignment, storage, queue, made, picks>>

Step(d) ==
    \/ OpenScreen(d)
    \/ Edit(d)
    \/ \E name \in FileNames : PickFile(d, name)
    \/ \E u \in uploads[d] : Store(d, u) \/ Uploaded(d, u) \/ UploadFailed(d, u)
    \/ \E id \in IDs : ConfirmCreation(d, id) \/ RefuseDate(d, id)
    \/ \E id \in IDs, n \in 1..3 : DieConfirming(d, id, n)
    \/ Commit(d)
    \/ Relaunch(d)

Next == \E d \in Devices : Step(d)

Spec == Init /\ [][Next]_vars
----------------------------------------------------------------------------
\* The creations that drew an ID, and those of them that were cut short.
Draws(id) == {c \in DOMAIN made : made[c].id = id}
CutShort(id) == {c \in Draws(id) : made[c].cut}

\* The field's next value is on its way.
Coming(id, f) ==
    \E d \in Devices : \E i \in DOMAIN queue[d] :
        queue[d][i].id = id /\ queue[d][i].field = f

(* An assignment has all four fields or none, but for those on their way:  *)
(* a date that cannot be parsed stops the creation before its first write, *)
(* and only a process that dies between the writes leaves a part.          *)
WholeUnlessCutShort ==
    \A id \in IDs :
        CutShort(id) = {} /\ (\E f \in Fields : assignment[id][f] # 0) =>
            \A f \in Fields : assignment[id][f] # 0 \/ Coming(id, f)

(* An assignment mixes the fields of two creations for good only for two   *)
(* causes: two devices drew its ID, so that their writes interleave, or one*)
(* creation was cut short.  An ID that one device draws twice makes one    *)
(* assignment out of two, the second.                                      *)
MixturesHaveACause ==
    \A id \in IDs :
        \/ \A f, g \in Fields : assignment[id][f] = assignment[id][g]
        \/ \E f \in Fields : Coming(id, f)
        \/ CutShort(id) # {}
        \/ \E c, e \in Draws(id) : made[c].device # made[e].device

(* The file that an assignment names has been stored, although the screen  *)
(* was emptied, left or used for another creation before the upload was    *)
(* done (the label waits for the completion).                              *)
NamedFilesAreStored ==
    \A id \in IDs :
        LET c == assignment[id].filePath
        IN  c # 0 => storage[made[c].file] # 0
============================================================================
