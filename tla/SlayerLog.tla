----------------------------- MODULE SlayerLog -----------------------------
(***************************************************************************)
(* One log manager of common/slayer_server_logging.c: the file that log    *)
(* lines are written to under file_mutex, and the ring of recent entries   *)
(* that /stats/log and /stats/error show, under list_mutex. The access log *)
(* is written by the output thread and read by workers; the error log is   *)
(* written and read by workers. A line and its JSON form are one value.    *)
(***************************************************************************)
EXTENDS Integers, Sequences, FiniteSets

CONSTANTS
    Threads,      \* the threads that use this manager
    Entries,      \* what can be logged
    N,            \* nentries, 100 in slayer_server_run
    HasFile,      \* the manager was opened with a file name
    Limit,        \* bound on the number of entries logged
    NoThread,     \* no thread: the mutex is free
    Null, Freed   \* entries[i].json_view unset, and pointing to freed memory

ASSUME LogAssumption ==
    /\ N \in Nat \ {0}
    /\ Limit \in Nat
    /\ HasFile \in BOOLEAN
    /\ NoThread \notin Threads
    /\ Null \notin Entries /\ Freed \notin Entries /\ Null # Freed

VARIABLES
    file, file_mutex,     \* lines written; the holder of file_mutex
    entries, offset,      \* the ring and the index of its newest entry
    list_mutex,           \* the holder of list_mutex
    pc, item, i, view,    \* per thread: where it is, json_entry, i, json_str
    added,                \* history: entries in the order they were stored
    asked                 \* history: number of entries logged so far

logVars == <<file, file_mutex, entries, offset, list_mutex, pc, item, i, view,
             added, asked>>
ringVars == <<entries, offset, list_mutex>>
fileVars == <<file, file_mutex>>

\* slayer_server_log_open
Init ==
    /\ file = <<>> /\ file_mutex = NoThread
    /\ entries = [j \in 0 .. N - 1 |-> Null] /\ offset = 0
    /\ list_mutex = NoThread
    /\ pc = [t \in Threads |-> "idle"]
    /\ item = [t \in Threads |-> Null]
    /\ i = [t \in Threads |-> 0]
    /\ view = [t \in Threads |-> <<>>]
    /\ added = <<>> /\ asked = 0

Goto(t, label) == pc' = [pc EXCEPT ![t] = label]

----------------------------------------------------------------------------
(* slayer_server_log_request and slayer_server_log_err_message             *)

\* The line and the JSON entry are made before any lock is taken.
Log(t) ==
    /\ pc[t] = "idle" /\ asked < Limit
    /\ asked' = asked + 1
    /\ \E e \in Entries : item' = [item EXCEPT ![t] = e]
    /\ Goto(t, IF HasFile THEN "write" ELSE "add")
    /\ UNCHANGED <<fileVars, ringVars, i, view, added>>

\* slayer_server_log_message
WriteAndReturn(t) ==
    /\ pc[t] = "writing"
    /\ file' = Append(file, item[t])
    /\ file_mutex' = NoThread
    /\ Goto(t, "idle")
    /\ UNCHANGED <<ringVars, item, i, view, added, asked>>

LockFile(t) ==
    /\ pc[t] = "write" /\ file_mutex = NoThread
    /\ file_mutex' = t
    /\ Goto(t, "writing")
    /\ UNCHANGED <<file, ringVars, item, i, view, added, asked>>

WriteLine(t) ==
    /\ pc[t] = "writing"
    /\ file' = Append(file, item[t])
    /\ file_mutex' = NoThread
    /\ Goto(t, "add")
    /\ UNCHANGED <<ringVars, item, i, view, added, asked>>

\* slayer_server_log_add_entry and slayer_server_log_add_error
LockForAdd(t) ==
    /\ pc[t] = "add" /\ list_mutex = NoThread
    /\ list_mutex' = t
    /\ Goto(t, "bump")
    /\ UNCHANGED <<fileVars, entries, offset, item, i, view, added, asked>>

NextOffsetLate == IF offset = N THEN 0 ELSE offset + 1

NextOffset == IF offset + 1 = N THEN 0 ELSE offset + 1

Bump(t) ==
    /\ pc[t] = "bump"
    /\ offset' = NextOffset
    /\ Goto(t, "free")
    /\ UNCHANGED <<fileVars, entries, list_mutex, item, i, view, added, asked>>

FreeOld(t) ==
    /\ pc[t] = "free"
    /\ entries' = [entries EXCEPT ![offset] = IF @ = Null THEN Null ELSE Freed]
    /\ Goto(t, "store")
    /\ UNCHANGED <<fileVars, offset, list_mutex, item, i, view, added, asked>>

Store(t) ==
    /\ pc[t] = "store"
    /\ entries' = [entries EXCEPT ![offset] = item[t]]
    /\ added' = Append(added, item[t])
    /\ item' = [item EXCEPT ![t] = Null]
    /\ list_mutex' = NoThread
    /\ Goto(t, "idle")
    /\ UNCHANGED <<fileVars, offset, i, view, asked>>

----------------------------------------------------------------------------
(* slayer_server_log_get_entries *)

GetUnlocked(t) ==
    /\ pc[t] = "idle"
    /\ i' = [i EXCEPT ![t] = offset + 1]
    /\ view' = [view EXCEPT ![t] = <<>>]
    /\ Goto(t, "older")
    /\ UNCHANGED <<fileVars, ringVars, item, added, asked>>

\* The mutex is taken and the first loop starts behind the newest entry.
Get(t) ==
    /\ pc[t] = "idle" /\ list_mutex = NoThread
    /\ list_mutex' = t
    /\ i' = [i EXCEPT ![t] = offset + 1]
    /\ view' = [view EXCEPT ![t] = <<>>]
    /\ Goto(t, "older")
    /\ UNCHANGED <<fileVars, entries, offset, item, added, asked>>

\* The body of both loops: an entry that is set is appended.
Take(t) ==
    /\ view' = [view EXCEPT ![t] = IF entries[i[t]] = Null THEN @
                                   ELSE Append(@, entries[i[t]])]
    /\ i' = [i EXCEPT ![t] = @ + 1]
    /\ UNCHANGED <<fileVars, ringVars, pc, item, added, asked>>

TakeOlder(t) == pc[t] = "older" /\ i[t] < N /\ Take(t)

\* The second loop starts at the front of the array.
Wrap(t) ==
    /\ pc[t] = "older" /\ i[t] >= N
    /\ i' = [i EXCEPT ![t] = 0]
    /\ Goto(t, "newer")
    /\ UNCHANGED <<fileVars, ringVars, item, view, added, asked>>

TakeNewer(t) == pc[t] = "newer" /\ i[t] < offset + 1 /\ Take(t)

\* The result is complete; it is returned once the mutex is released.
Got(t) ==
    /\ pc[t] = "newer" /\ i[t] >= offset + 1
    /\ Goto(t, "got")
    /\ UNCHANGED <<fileVars, ringVars, item, i, view, added, asked>>

Return(t) ==
    /\ pc[t] = "got"
    /\ list_mutex' = NoThread
    /\ view' = [view EXCEPT ![t] = <<>>]
    /\ i' = [i EXCEPT ![t] = 0]
    /\ Goto(t, "idle")
    /\ UNCHANGED <<fileVars, entries, offset, item, added, asked>>

Next ==
    \E t \in Threads :
        \/ Log(t) \/ LockFile(t) \/ WriteLine(t)
        \/ LockForAdd(t) \/ Bump(t) \/ FreeOld(t) \/ Store(t)
        \/ Get(t) \/ TakeOlder(t) \/ Wrap(t) \/ TakeNewer(t) \/ Got(t) \/ Return(t)

Spec == Init /\ [][Next]_logVars

----------------------------------------------------------------------------
(* What the log promises *)

\* Types: offset never leaves the ring, and a reader returns entries only.
TypeOK ==
    /\ file \in Seq(Entries) /\ file_mutex \in Threads \cup {NoThread}
    /\ entries \in [0 .. N - 1 -> Entries \cup {Null, Freed}]
    /\ offset \in 0 .. N - 1
    /\ list_mutex \in Threads \cup {NoThread}
    /\ pc \in [Threads -> {"idle", "write", "writing", "add", "bump", "free",
                           "store", "older", "newer", "got"}]
    /\ item \in [Threads -> Entries \cup {Null}]
    /\ i \in [Threads -> 0 .. N]
    /\ view \in [Threads -> Seq(Entries \cup {Freed})]
    /\ added \in Seq(Entries) /\ asked \in 0 .. Limit

\* How many of the entries added so far are still kept.
Kept == IF Len(added) < N THEN Len(added) ELSE N

\* What a reader returns: the last N entries logged (all of them while there
\* are fewer), oldest first, whatever the other threads are doing
\* (slayer_server_logging.c:199-216; README.md: "Recent request log (100
\* entries)").
LastEntries ==
    \A t \in Threads :
        pc[t] = "got" =>
            /\ Len(view[t]) = Kept
            /\ \A j \in 1 .. Kept : view[t][j] = added[Len(added) - Kept + j]

Count(s, e) == Cardinality({k \in DOMAIN s : s[k] = e})

\* Each request is one line of the file and then one entry of the ring: the
\* two differ by exactly the entries of the threads between the two mutexes
\* (slayer_server_logging.c:49-57 and 157-197).
FileAndRingAgree ==
    HasFile => \A e \in Entries :
        Count(file, e) =
            Count(added, e) + Cardinality({t \in Threads : /\ item[t] = e
                                                           /\ pc[t] \in {"add", "bump", "free", "store"}})
============================================================================
