---------------------------- MODULE SlayerStats ----------------------------
(***************************************************************************)
(* The request counts of common/slayer_server_stats.c: a ring of time      *)
(* slices that the output thread counts hits in, a detached timer thread   *)
(* moves on, and workers report for /stats. Only the counters and offset   *)
(* are copied under the mutex; the arrays are read after it is released,   *)
(* while the timer may be rewriting them.                                  *)
(***************************************************************************)
EXTENDS Integers, Sequences, FiniteSets, SequencesExt

CONSTANTS
    Readers,              \* workers that answer /stats
    NSlice,               \* the number of slices asked for, option -n
    MaxTicks, MaxHits     \* bounds on the timer and on the requests counted

ASSUME StatsAssumption ==
    /\ NSlice \in Nat \ {0}
    /\ MaxTicks \in Nat /\ MaxHits \in Nat

\* stats->nslice: one slot more, for the slice that is being counted.
N == NSlice + 1
Slots == 0 .. N - 1

VARIABLES
    hits, slices, offset, total_requests,
    now,         \* seconds, as far as they matter: one more at each tick
    ticking,     \* the timer thread is inside slayer_server_stats_tick
    reader,      \* reader[r]: the locals of slayer_server_stats_tojson
    history      \* history: all slices so far, the last one being counted

statsVars == <<hits, slices, offset, total_requests, now, ticking, reader, history>>
ringVars == <<hits, slices, offset, total_requests, now, ticking, history>>

\* from and ticks are history: the slice counted when the copy was made and the
\* number of ticks since.
Idle == [pc |-> "idle", offset |-> 0, i |-> 0, hit |-> 0, out |-> <<>>, from |-> 1, ticks |-> 0]

\* slayer_server_stat_init
Init ==
    /\ hits = [s \in Slots |-> 0]
    /\ slices = [s \in Slots |-> IF s = 0 THEN 1 ELSE 0]
    /\ offset = 0 /\ total_requests = 0
    /\ now = 1 /\ ticking = FALSE
    /\ reader = [r \in Readers |-> Idle]
    /\ history = <<[slice |-> 1, hits |-> 0]>>

----------------------------------------------------------------------------

\* slayer_server_stat_update
Update ==
    /\ ~ticking /\ total_requests < MaxHits
    /\ hits' = [hits EXCEPT ![offset] = @ + 1]
    /\ total_requests' = total_requests + 1
    /\ history' = [history EXCEPT ![Len(history)].hits = @ + 1]
    /\ UNCHANGED <<slices, offset, now, ticking, reader>>

NextSlotLate == IF offset = N THEN 0 ELSE offset + 1

NextSlot == IF offset + 1 = N THEN 0 ELSE offset + 1

TickKeepingHits ==
    /\ ~ticking /\ now <= MaxTicks
    /\ now' = now + 1 /\ ticking' = TRUE
    /\ offset' = NextSlot
    /\ reader' = [r \in Readers |->
                    IF reader[r].pc = "idle" THEN Idle ELSE [reader[r] EXCEPT !.ticks = @ + 1]]
    /\ UNCHANGED <<hits, slices, total_requests, history>>

\* The timer wakes up after tslice seconds: a reader sees hits change before
\* slices.
Tick ==
    /\ ~ticking /\ now <= MaxTicks
    /\ now' = now + 1 /\ ticking' = TRUE
    /\ offset' = NextSlot
    /\ hits' = [hits EXCEPT ![NextSlot] = 0]
    /\ reader' = [r \in Readers |->
                    IF reader[r].pc = "idle" THEN Idle ELSE [reader[r] EXCEPT !.ticks = @ + 1]]
    /\ UNCHANGED <<slices, total_requests, history>>

Stamp ==
    /\ ticking
    /\ slices' = [slices EXCEPT ![offset] = now]
    /\ ticking' = FALSE
    /\ history' = Append(history, [slice |-> now, hits |-> 0])
    /\ UNCHANGED <<hits, offset, total_requests, now, reader>>

----------------------------------------------------------------------------
(* slayer_server_stats_tojson *)

Step(r, x) == reader' = [reader EXCEPT ![r] = x] /\ UNCHANGED ringVars

CopyAtOffset(r) ==
    /\ reader[r].pc = "idle" /\ ~ticking
    /\ Step(r, [Idle EXCEPT !.pc = "older", !.offset = offset, !.i = offset,
                            !.from = Len(history)])

\* slayer_server_stats_get, and the first loop begins behind offset.
Copy(r) ==
    /\ reader[r].pc = "idle" /\ ~ticking
    /\ Step(r, [Idle EXCEPT !.pc = "older", !.offset = offset, !.i = offset + 1,
                            !.from = Len(history)])

InLoop(x) == (x.pc = "older" /\ x.i < N) \/ (x.pc = "newer" /\ x.i < x.offset)

\* An iteration tests slices[i], reads hits[i], and reads slices[i] again.
Skip(r) ==
    /\ InLoop(reader[r]) /\ slices[reader[r].i] = 0
    /\ Step(r, [reader[r] EXCEPT !.i = @ + 1])

ReadHits(r) ==
    /\ InLoop(reader[r]) /\ slices[reader[r].i] # 0
    /\ Step(r, [reader[r] EXCEPT !.pc = IF @ = "older" THEN "older hit" ELSE "newer hit",
                                 !.hit = hits[reader[r].i]])

ReadSlice(r) ==
    /\ reader[r].pc \in {"older hit", "newer hit"}
    /\ Step(r, [reader[r] EXCEPT !.pc = IF @ = "older hit" THEN "older" ELSE "newer",
                                 !.i = @ + 1, !.hit = 0,
                                 !.out = Append(@, [slice |-> slices[reader[r].i],
                                                    hits |-> reader[r].hit])])

Wrap(r) ==
    /\ reader[r].pc = "older" /\ reader[r].i >= N
    /\ Step(r, [reader[r] EXCEPT !.pc = "newer", !.i = 0])

Done(r) ==
    /\ reader[r].pc = "newer" /\ reader[r].i >= reader[r].offset
    /\ Step(r, [reader[r] EXCEPT !.pc = "done"])

Return(r) == reader[r].pc = "done" /\ Step(r, Idle)

Next ==
    \/ Update \/ Tick \/ Stamp
    \/ \E r \in Readers : \/ Copy(r) \/ Skip(r) \/ ReadHits(r) \/ ReadSlice(r)
                          \/ Wrap(r) \/ Done(r) \/ Return(r)

Spec == Init /\ [][Next]_statsVars

----------------------------------------------------------------------------
(* What the counts promise *)

\* Types: offset and the readers' index stay within the arrays they index.
TypeOK ==
    /\ hits \in [Slots -> 0 .. MaxHits] /\ slices \in [Slots -> 0 .. MaxTicks + 1]
    /\ offset \in Slots /\ total_requests \in 0 .. MaxHits
    /\ now \in 1 .. MaxTicks + 1 /\ ticking \in BOOLEAN
    /\ \A r \in Readers : reader[r].offset \in Slots /\ reader[r].i \in 0 .. N

Newest(s, n) == IF Len(s) <= n THEN s ELSE SubSeq(s, Len(s) - n + 1, Len(s))
SlotBack(k) == IF offset >= k THEN offset - k ELSE offset - k + N

\* Between two ticks the ring holds the slice being counted and the NSlice
\* before it, each with all hits that came while it was current, and
\* total_requests counts the hits of all slices there ever were.
RingHoldsHistory ==
    ~ticking =>
       /\ \A k \in 0 .. N - 1 :
             IF k < Len(history)
             THEN [slice |-> slices[SlotBack(k)], hits |-> hits[SlotBack(k)]]
                     = history[Len(history) - k]
             ELSE slices[SlotBack(k)] = 0
       /\ total_requests = FoldSeq(LAMBDA x, sum : x.hits + sum, 0, history)

\* A report lists the completed slices, oldest first, with their final counts;
\* each tick during the unlocked reading can spoil only the oldest one left.
\* So the newest NSlice - ticks slices are exact, and all of them when there
\* are fewer; and nothing is reported after them.
ReportExact ==
    \A r \in Readers :
       LET x == reader[r]
           complete == SubSeq(history, 1, x.from - 1)
           exact == Newest(complete, IF x.ticks <= NSlice THEN NSlice - x.ticks ELSE 0)
       IN  x.pc = "done" => /\ Newest(x.out, Len(exact)) = exact
                            /\ x.ticks = 0 => x.out = exact
============================================================================
