----------------------------- MODULE RateLimit -----------------------------
(***************************************************************************)
(* rateLimitingMiddleware (pkg/mcp/middleware.go): a map of token buckets   *)
(* under a mutex, shared by the requests of all sessions and by the reaper. *)
(* A request reads the configuration before it takes the lock, and takes a  *)
(* token from its bucket after it has released it.                          *)
(*                                                                         *)
(* Time is counted in refill periods of the recorded settings: a Tick gives *)
(* every bucket one token.  The age of an entry is the time since lastSeen. *)
(* `ideal' is not in the code: per session, the bucket that is never reaped *)
(* and that starts full whenever the limiters are discarded.                *)
(***************************************************************************)
EXTENDS Integers, FiniteSets

CONSTANTS Sessions, NoSession,   \* "" is the session of STDIO requests
          Requests,              \* requests that can be under way together
          Entries,               \* places for rateLimiterEntry objects
          None,
          Settings, Off,         \* limit and burst; Off: a limit <= 0
          Burst,                 \* the burst of each setting
          ReapAfter              \* 10 minutes, in its refill periods

ASSUME LimitAssumption ==
    /\ Off \notin Settings
    /\ NoSession \notin Sessions
    /\ None \notin Entries
    /\ IsFiniteSet(Requests)
    /\ ReapAfter \in [Settings -> Nat]
    /\ Burst \in [Settings -> Nat \ {0}]

VARIABLES config,                \* what configFn returns
          current,               \* currentLimit and currentBurst
          limiters, tokens, age, \* the map, and its entries
          req,                   \* the requests
          reaping,               \* the reaper runs: done is not closed
          ideal,
          late,                  \* entries a token was taken from some time
                                 \* after their lastSeen (history)
          early,                 \* sessions whose bucket may have been reaped
                                 \* before it was full (history)
          resets, stale          \* since the last reload, see ResetsBounded

history == <<ideal, late, early>>
vars == <<config, current, limiters, tokens, age, req, reaping, ideal, late,
          early, resets, stale>>

NoRequest == [pc |-> "idle", session |-> NoSession, read |-> Off, entry |-> None]

AtMost(n, max) == IF n <= max THEN n ELSE max

Active == {s \in Sessions : limiters[s] # None}
At(pc) == {r \in Requests : req[r].pc = pc}

\* Requests that have read other settings than the present ones.
Outdated(c) == {r \in At("read") : req[r].read # c}

\* The entries of a map m of limiters; of others nothing is remembered.
InMap(m) == {m[s] : s \in Sessions} \ {None}
Only(m, f) == [e \in Entries |-> IF e \in InMap(m) THEN f[e] ELSE 0]

\* Entries that neither the map m nor a request refers to.
Free(m) == Entries \ (InMap(m) \cup {req[r].entry : r \in At("holding")})

-----------------------------------------------------------------------------
(* Plausible mistakes, used to show that the properties notice them.        *)

\* Any entry may go at the next tick of the reaper.
ReapsEverything(s) == limiters[s] # None

\* The settings are recorded once, and not again when they have changed.
RecordsOnce(read) == IF current = Off THEN read ELSE current

-----------------------------------------------------------------------------
Init ==
    /\ config \in Settings \cup {Off}
    /\ current = Off
    /\ limiters = [s \in Sessions |-> None]
    /\ tokens = [e \in Entries |-> 0]
    /\ age = [e \in Entries |-> 0]
    /\ req = [r \in Requests |-> NoRequest]
    /\ reaping = TRUE
    /\ ideal = [s \in Sessions |-> 0]
    /\ late = {} /\ early = {}
    /\ resets = 0 /\ stale = 0

\* configFn, then the session.
Read(r, s) ==
    /\ req[r].pc = "idle"
    /\ req' = [req EXCEPT ![r] =
                  [NoRequest EXCEPT !.session = s, !.read = config,
                      !.pc = IF config = Off \/ s = NoSession THEN "served"
                             ELSE "read"]]
    /\ UNCHANGED <<config, current, limiters, tokens, age, reaping, history,
                   resets, stale>>

Recorded(read) == read

\* The critical section: other settings than the recorded ones discard every
\* limiter; then the session's entry is found, or made with a full bucket.
Locked(r) ==
    LET s == req[r].session
        read == req[r].read
        changed == read # current
        kept == IF changed THEN [t \in Sessions |-> None] ELSE limiters
    IN  /\ req[r].pc = "read"
        /\ current' = Recorded(read)
        /\ resets' = IF changed THEN resets + 1 ELSE resets
        /\ ideal' = IF changed THEN [t \in Sessions |-> Burst[read]] ELSE ideal
        /\ early' = IF changed THEN {} ELSE early
        /\ \E e \in Entries :
              /\ e = kept[s] \/ (kept[s] = None /\ e \in Free(kept))
              /\ limiters' = [kept EXCEPT ![s] = e]
              /\ tokens' = Only(limiters', [tokens EXCEPT ![e] =
                                  IF kept[s] = None THEN Burst[read] ELSE @])
              /\ age' = Only(limiters', [age EXCEPT ![e] = 0])
              /\ late' = (late \cap InMap(limiters')) \ {e}
              /\ req' = [req EXCEPT ![r].pc = "holding", ![r].entry = e]
        /\ UNCHANGED <<config, reaping, stale>>

\* The entry a request holds is still the one in the map.
Held(r) == limiters[req[r].session] = req[r].entry

\* limiter.Allow(), after the unlock, perhaps some time after it.
Allow(r) ==
    LET e == req[r].entry
        s == req[r].session
        served == tokens[e] > 0
    IN  /\ req[r].pc = "holding"
        /\ Held(r)
        /\ tokens' = [tokens EXCEPT ![e] = IF served THEN @ - 1 ELSE @]
        /\ ideal' = [ideal EXCEPT ![s] = IF @ > 0 THEN @ - 1 ELSE @]
        /\ late' = IF served /\ age[e] > 0 THEN late \cup {e} ELSE late
        /\ req' = [req EXCEPT ![r].pc = IF served THEN "served" ELSE "rejected"]
        /\ UNCHANGED <<config, current, limiters, age, reaping, early, resets,
                       stale>>

\* The same with a limiter that was discarded or reaped after the unlock; what
\* such a limiter still allows is not followed.
AllowDiscarded(r) ==
    /\ req[r].pc = "holding"
    /\ ~ Held(r)
    /\ \E answer \in {"served", "rejected"} :
          req' = [req EXCEPT ![r].pc = answer]
    /\ UNCHANGED <<config, current, limiters, tokens, age, reaping, history,
                   resets, stale>>

Done(r) ==
    /\ req[r].pc \in {"served", "rejected"}
    /\ req' = [req EXCEPT ![r] = NoRequest]
    /\ UNCHANGED <<config, current, limiters, tokens, age, reaping, history,
                   resets, stale>>

\* Time passes, also between a request's unlock and its token.  Ages beyond
\* the limit are not told apart.  A session whose ideal bucket is full again
\* is even with it.
Tick ==
    /\ current # Off
    /\ tokens' = Only(limiters, [e \in Entries |->
                                   AtMost(tokens[e] + 1, Burst[current])])
    /\ ideal' = [s \in Sessions |-> AtMost(ideal[s] + 1, Burst[current])]
    /\ early' = {s \in early : ideal'[s] < Burst[current]}
    /\ age' = Only(limiters, [e \in Entries |->
                                AtMost(age[e] + 1, ReapAfter[current] + 1)])
    /\ UNCHANGED <<config, current, limiters, req, reaping, late, resets, stale>>

Expired(s) == limiters[s] # None /\ age[limiters[s]] > ReapAfter[current]

\* The time after which an entry is reaped may not fill its bucket: the burst
\* takes longer than ten minutes to refill, or the last token was taken some
\* time after lastSeen was set.
MayBeHalfFull(s) ==
    Burst[current] > ReapAfter[current] \/ limiters[s] \in late

\* The reaper, every five minutes, under the lock.
Reap ==
    /\ reaping
    /\ \E s \in Sessions : Expired(s)
    /\ limiters' = [s \in Sessions |-> IF Expired(s) THEN None ELSE limiters[s]]
    /\ tokens' = Only(limiters', tokens) /\ age' = Only(limiters', age)
    /\ late' = late \cap InMap(limiters')
    /\ early' = early \cup {s \in Sessions : Expired(s) /\ MayBeHalfFull(s)}
    /\ UNCHANGED <<config, current, req, reaping, ideal, resets, stale>>

\* Server.Close; requests under way still end.
Close ==
    /\ reaping
    /\ reaping' = FALSE
    /\ UNCHANGED <<config, current, limiters, tokens, age, req, history,
                   resets, stale>>

\* A SIGHUP stores another configuration.
Reload ==
    /\ config' \in (Settings \cup {Off}) \ {config}
    /\ resets' = 0
    /\ stale' = Cardinality(Outdated(config'))
    /\ UNCHANGED <<current, limiters, tokens, age, req, reaping, history>>

Next ==
    \/ \E r \in Requests :
          \/ \E s \in Sessions \cup {NoSession} : Read(r, s)
          \/ Locked(r) \/ Allow(r) \/ AllowDiscarded(r) \/ Done(r)
    \/ Tick \/ Reap \/ Close \/ Reload

Spec == Init /\ [][Next]_vars

-----------------------------------------------------------------------------
(* Properties.                                                             *)

TypeOK ==
    /\ config \in Settings \cup {Off} /\ current \in Settings \cup {Off}
    /\ limiters \in [Sessions -> Entries \cup {None}]
    /\ tokens \in [Entries -> Nat] /\ age \in [Entries -> Nat]
    /\ req \in [Requests -> [pc : {"idle", "read", "holding", "served",
                                   "rejected"},
                             session : Sessions \cup {NoSession},
                             read : Settings \cup {Off},
                             entry : Entries \cup {None}]]
    /\ reaping \in BOOLEAN
    /\ ideal \in [Sessions -> Nat]
    /\ late \subseteq Entries /\ early \subseteq Sessions
    /\ resets \in Nat /\ stale \in Nat

\* "Stale session entries are reaped periodically to prevent unbounded memory
\* growth", and for no other effect: a request is rejected only when the bucket
\* that is never reaped is empty too, and served only when that bucket has a
\* token, unless the session's bucket may have been reaped half full and the
\* ideal one has not caught up.  That happens only with a burst that takes
\* longer than the reaping time to refill, or after a request that took its
\* token late.  What other sessions send makes no difference.  (A request whose
\* limiter was discarded meanwhile answers to the old one.)
ServedAsByOneBucket ==
    [][\A r \in Requests :
          LET s == req[r].session IN
          (req[r].pc = "holding" /\ Held(r)) =>
              /\ req'[r].pc = "served" => ideal[s] > 0 \/ s \in early
              /\ req'[r].pc = "rejected" => ideal[s] = 0]_vars

\* The settings are read before the lock, so a request that read the old ones
\* flips the recorded settings back and the buckets are refilled twice more:
\* once by it and once by the next request.  A reload discards the limiters
\* at most that often.
ResetsBounded == resets <= 2 * stale + 1
=============================================================================
