---------------------------- MODULE SessionStore ----------------------------
(***************************************************************************)
(* The session stores of services/api/app/stores/session_store: histories  *)
(* in memory or in Redis, and the trimmer they share (_trim.py).           *)
(*                                                                         *)
(* The locks of the store in memory guard code without an await, so each   *)
(* of its operations is one step.  Only the order of the times in          *)
(* _last_access matters.  A message is a part of one turn; call and return *)
(* n of a turn carry the same tool_call_id, "empty" has no parts.          *)
(***************************************************************************)
EXTENDS Naturals, Sequences, FiniteSetsExt

CONSTANTS
  Sessions,
  Turns,         \* requests that run the agent, each made at most once
  MaxMessages,   \* session_max_messages
  MaxSessions,   \* InMemorySessionStore.max_sessions
  NoHistory      \* a session the store does not hold

ASSUME SessionAssumption ==
  /\ MaxMessages \in Nat \ {0}
  /\ MaxSessions \in Nat \ {0}

VARIABLES
  redis,        \* redis_session_store_enabled
  store,        \* the history of each session
  lastAccess,   \* in memory: the sessions of _last_access, oldest access first
  locks         \* in memory: the sessions of _locks

sessionVars == <<redis, store, lastAccess, locks>>

Parts == {"prompt", "call", "return", "text", "empty"}
Messages == [turn : Turns, part : Parts, n : Nat]

ASSUME HistoryAssumption == NoHistory \notin Seq(Messages)

SessionTypeOK ==
  /\ redis \in BOOLEAN
  /\ store \in [Sessions -> Seq(Messages) \cup {NoHistory}]
  /\ lastAccess \in Seq(Sessions)
  /\ locks \subseteq Sessions

SessionInit ==
  /\ redis \in BOOLEAN
  /\ store = [s \in Sessions |-> NoHistory]
  /\ lastAccess = << >>
  /\ locks = {}

-----------------------------------------------------------------------------
\* The elements of a list that are in S, in their order; SelectSeq, which
\* proofs cannot look into.
OnlyIn(list, S) ==
  LET kept[i \in 0..Len(list)] ==
        IF i = 0 THEN << >>
        ELSE IF list[i] \in S THEN Append(kept[i - 1], list[i]) ELSE kept[i - 1]
  IN  kept[Len(list)]

(* trim_history.                                                           *)

Ids(ms, part) == {<<m.turn, m.n>> : m \in {k \in Range(ms) : k.part = part}}

\* Drop the first k messages.
After(ms, k) == SubSeq(ms, k + 1, Len(ms))

\* Mutant: the ideal cut, whatever it separates.
IdealCut(rest, ideal) == ideal

\* _find_valid_cut: the first cut, from the ideal one on, that keeps the call
\* of every return it keeps.
FindValidCut(rest, ideal) ==
  Min({k \in ideal..Len(rest) :
         Ids(After(rest, k), "return") \subseteq Ids(After(rest, k), "call")})

WithParts(ms) == OnlyIn(ms, {m \in Range(ms) : m.part # "empty"})

TrimHistory(ms) ==
  IF Len(ms) <= MaxMessages THEN WithParts(ms)
  ELSE WithParts(<<Head(ms)>> \o After(Tail(ms), FindValidCut(Tail(ms), Len(ms) - MaxMessages)))

-----------------------------------------------------------------------------
TurnsIn(ms) == {m.turn : m \in Range(ms)}
History(s) == IF store[s] = NoHistory THEN << >> ELSE store[s]
Held(st) == {s \in Sessions : st[s] # NoHistory}

Touch(s) == Append(OnlyIn(lastAccess, Sessions \ {s}), s)

\* get_history, which stamps the access of an id that was never saved too.
GetHistory(s) ==
  /\ IF redis THEN UNCHANGED <<lastAccess, locks>>
     ELSE lastAccess' = Touch(s) /\ locks' = locks \cup {s}
  /\ UNCHANGED <<redis, store>>

\* The held session with the oldest access.
Oldest(st, order) ==
  order[Min({i \in 1..Len(order) : order[i] \in Held(st)})]

\* The session a save evicts, if it makes one too many.
Victims(st, order) ==
  IF Cardinality(Held(st)) > MaxSessions THEN {Oldest(st, order)} ELSE {}

Forget(st, gone) == [s \in Sessions |-> IF s \in gone THEN NoHistory ELSE st[s]]

\* Mutant: an eviction leaves the lock of its victim.
LeakLock(s, gone) == locks \cup {s}

LocksAfter(s, gone) == (locks \cup {s}) \ gone

SaveHistory(s, ms) ==
  LET st == [store EXCEPT ![s] = TrimHistory(ms)]
      gone == IF redis THEN {} ELSE Victims(st, Touch(s))
  IN  /\ store' = Forget(st, gone)
      /\ IF redis THEN UNCHANGED <<lastAccess, locks>>
         ELSE /\ lastAccess' = OnlyIn(Touch(s), Sessions \ gone)
              /\ locks' = LocksAfter(s, gone)
      /\ UNCHANGED redis

\* In memory, cleanup_expired_sessions clears those idle for longer than the
\* ttl; Redis drops a key on its own.
Expire(gone) ==
  /\ gone # {}
  /\ store' = Forget(store, gone)
  /\ IF redis
       THEN gone \subseteq Held(store) /\ UNCHANGED <<lastAccess, locks>>
       ELSE /\ \E n \in 1..Len(lastAccess) : gone = {lastAccess[i] : i \in 1..n}
            /\ lastAccess' = OnlyIn(lastAccess, Sessions \ gone)
            /\ locks' = locks \ gone
  /\ UNCHANGED redis
=============================================================================
