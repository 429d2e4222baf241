----------------------------- MODULE RecordMirror -----------------------------
(***************************************************************************)
(* What the record hooks promise, whatever they keep in memory: the cron   *)
(* jobs of the workflows (CronJobs) and the settings cache (AcmeAccounts)  *)
(* both mirror rows of the database.  A writer commits a row and, a step   *)
(* later, publishes what it committed to the mirror; a restart loads the   *)
(* mirror from the rows.  Nothing orders the publications of two writers.  *)
(***************************************************************************)
CONSTANTS
    Keys,           \* the mirrored rows
    Writers,        \* whoever saves rows
    Contents,       \* what a row may hold
    Images,         \* what the mirror may hold
    ImageOf,        \* [Contents -> Images], the image of a row's content
    Nothing         \* nothing to publish

VARIABLES
    row,            \* [Keys -> Contents], the database
    mirror,         \* [Keys -> Images], the memory
    behind,         \* [Writers -> ...], the publication a writer owes
    apart           \* [Keys -> BOOLEAN], the mirror may stay different

vars == <<row, mirror, behind, apart>>

Owed == [key : Keys, content : Contents]

TypeOK ==
    /\ row \in [Keys -> Contents]
    /\ mirror \in [Keys -> Images]
    /\ behind \in [Writers -> Owed \cup {Nothing}]
    /\ apart \in [Keys -> BOOLEAN]

\* Somebody owes the publication of row k.
IsBehind(k) == \E w \in Writers : behind[w] # Nothing /\ behind[w].key = k

Init ==
    /\ row \in [Keys -> Contents]
    /\ mirror = [k \in Keys |-> ImageOf[row[k]]]
    /\ behind = [w \in Writers |-> Nothing]
    /\ apart = [k \in Keys |-> FALSE]

\* Two writers between commit and publication may publish in either order; a
\* commit on its own will bring row and mirror together again.
Commit(w, k) ==
    /\ behind[w] = Nothing
    /\ row'[k] \in Contents
    /\ row' = [row EXCEPT ![k] = row'[k]]
    /\ behind' = [behind EXCEPT ![w] = [key |-> k, content |-> row'[k]]]
    /\ apart' = [apart EXCEPT ![k] = IsBehind(k)]
    /\ UNCHANGED mirror

Publish(w) ==
    /\ behind[w] # Nothing
    /\ mirror' = [mirror EXCEPT ![behind[w].key] = ImageOf[behind[w].content]]
    /\ behind' = [behind EXCEPT ![w] = Nothing]
    /\ UNCHANGED <<row, apart>>

\* The publication fails after the row was committed: the mirror stays apart.
Refuse(w) ==
    /\ behind[w] # Nothing
    /\ behind' = [behind EXCEPT ![w] = Nothing]
    /\ apart' = [apart EXCEPT ![behind[w].key] = TRUE]
    /\ UNCHANGED <<row, mirror>>

\* A restart loads every image anew, except those that cannot be loaded.
Restart ==
    /\ behind' = [w \in Writers |-> Nothing]
    /\ mirror' \in [Keys -> Images]
    /\ apart' \in [Keys -> BOOLEAN]
    /\ \A k \in Keys : apart'[k] \/ mirror'[k] = ImageOf[row[k]]
    /\ UNCHANGED row

Next ==
    \/ \E w \in Writers, k \in Keys : Commit(w, k)
    \/ \E w \in Writers : Publish(w) \/ Refuse(w)
    \/ Restart

Spec == Init /\ [][Next]_vars

\* The mirror shows the row once nobody owes its publication, unless two
\* publications crossed or one was refused.
MirrorFollows ==
    \A k \in Keys : IsBehind(k) \/ apart[k] \/ mirror[k] = ImageOf[row[k]]

\* What is owed by the one writer behind is what the row holds.
LastCommitIsOwed ==
    \A k \in Keys, w \in Writers :
        (behind[w] # Nothing /\ behind[w].key = k /\ ~apart[k])
            => /\ behind[w].content = row[k]
               /\ \A v \in Writers :
                    (behind[v] # Nothing /\ behind[v].key = k) => v = w
===============================================================================
