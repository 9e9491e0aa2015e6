--------------------------- MODULE ContextHoldStore ---------------------------
(* The Gateway's ContextHoldStore: an in-memory map from conversation scopes  *)
(* to the history last seen and the route last taken, bounded in bytes, with  *)
(* an idle time to live and an index of the entries by last use.  A request   *)
(* reads its entry, hashes its history outside the mutex, enters the scope    *)
(* only if the entry did not change meanwhile, and records its route when its *)
(* answer is complete, with the ticket it was given.                          *)
EXTENDS Integers, FiniteSets, FiniteSetsExt, Sequences, SequencesExt

CONSTANTS
  Requests,          \* the requests
  Prompts,           \* what they ask: [key, instructions, history]
  Messages,          \* what a history is made of
  RouteBytes,        \* bytes a recorded route may take
  EntryBytes,        \* bytes of an entry and its index records
  Budget,            \* max_memory_bytes, the fixed part taken off
  IdleTtl,           \* idle time after which an entry is expired
  MaintenanceBatch,  \* MAINTENANCE_BATCH
  EvictionBatch,     \* EVICTION_BATCH
  NoHint,            \* no route
  None,              \* no snapshot
  MaxTime            \* bound: the clock

ASSUME HoldAssumption ==
  /\ NoHint \notin Requests
  /\ \A p \in Prompts : p.history \in Seq(Messages)
  /\ RouteBytes \subseteq Nat
  /\ {EntryBytes, Budget, MaintenanceBatch, EvictionBatch, MaxTime} \subseteq Nat
  /\ IdleTtl \in Nat \ {0}

VARIABLES
  entries,    \* per scope held, its HoldEntry
  lru,        \* the index of the entries by last use
  nextToken,  \* the next entry token
  clock,      \* access_clock
  dynamic,    \* dynamic_bytes
  now,        \* the time
  stage,      \* per request: idle, measuring, routed, done
  asked,      \* per request that came in, its prompt
  since,      \* per request, the time it read before it took the mutex
  snapshot,   \* per request, its BeginSnapshot
  ticket,     \* per request that entered, its HoldTicket
  applied     \* the requests whose route was recorded

inner == <<entries, lru, nextToken, clock, dynamic>>
request == <<stage, asked, since, snapshot, ticket, applied>>
vars == <<inner, now, request>>

Init ==
  /\ entries = <<>>
  /\ lru = {}
  /\ nextToken = 1
  /\ clock = 0
  /\ dynamic = 0
  /\ now = 0
  /\ stage = [r \in Requests |-> "idle"]
  /\ asked = <<>>
  /\ since = [r \in Requests |-> 0]
  /\ snapshot = [r \in Requests |-> None]
  /\ ticket = <<>>
  /\ applied = {}

With(f, x, v) == [y \in DOMAIN f \cup {x} |-> IF y = x THEN v ELSE f[y]]

-----------------------------------------------------------------------------
(* Expiry, eviction and the index                                            *)

NoRoute == [by |-> NoHint, bytes |-> 0]

RecordOf(k, e) == [access |-> e.access, order |-> e.order, key |-> k]

Older(a, b) ==
  \/ a.access < b.access
  \/ a.access = b.access /\ a.order < b.order

\* The keys of the n records of S that were used the longest time ago.
Oldest(S, n) ==
  {x.key : x \in {y \in S : Cardinality({z \in S : Older(z, y)}) < n}}

Expired(access, t) == t - access >= IdleTtl

\* purge_expired_bounded
Purged(t) ==
  {k \in Oldest(lru, MaintenanceBatch) :
     \E x \in lru : x.key = k /\ Expired(x.access, t)}

\* What a request finds expired of its own scope.
ExpiredAt(k, t) == {j \in DOMAIN entries : j = k /\ Expired(entries[j].access, t)}

Kept(gone) == [k \in DOMAIN entries \ gone |-> entries[k]]

\* Mutant: an entry is removed from the map alone.
UnlistedNever(gone) == lru

Unlisted(gone) == lru \ {RecordOf(k, entries[k]) : k \in gone}

Freed(gone) == SumFunction([k \in gone |-> entries[k].route.bytes])

\* Mutant: there is room when the store fits its budget before the value.
FitsBefore(gone, moreEntries, moreBytes) ==
  (Cardinality(DOMAIN entries \ gone) + moreEntries) * EntryBytes
    + dynamic - Freed(gone) <= Budget

\* The store fits its budget without the keys in gone and with more added.
Fits(gone, moreEntries, moreBytes) ==
  (Cardinality(DOMAIN entries \ gone) + moreEntries) * EntryBytes
    + dynamic - Freed(gone) + moreBytes <= Budget

\* The numbers of evictions after which there is room.
Enough(gone, kept, moreEntries, moreBytes) ==
  LET S == {x \in Unlisted(gone) : x.key \notin kept}
  IN  {n \in 0..EvictionBatch : Fits(gone \cup Oldest(S, n), moreEntries, moreBytes)}

\* make_room_for_insert and make_room_for_value: the least recently used entries
\* go until there is room; when there is none in the end, they are gone as well.
Evicted(gone, kept, moreEntries, moreBytes) ==
  LET S == {x \in Unlisted(gone) : x.key \notin kept}
      enough == Enough(gone, kept, moreEntries, moreBytes)
  IN  Oldest(S, IF enough = {} THEN EvictionBatch + 1 ELSE Min(enough))

RemoveEntries(gone) ==
  /\ entries' = Kept(gone)
  /\ lru' = Unlisted(gone)
  /\ dynamic' = dynamic - Freed(gone)

-----------------------------------------------------------------------------
(* begin                                                                     *)

SnapshotOf(e) ==
  [token |-> e.token, cycle |-> e.cycle, revision |-> e.revision,
   instructions |-> e.instructions, history |-> e.history]

\* The first time under the mutex; t is the time the caller read before.
Look(r, prompt, t) ==
  LET gone == Purged(t) \cup ExpiredAt(prompt.key, t)
  IN  /\ stage[r] = "idle"
      /\ stage' = [stage EXCEPT ![r] = "measuring"]
      /\ asked' = With(asked, r, prompt)
      /\ since' = [since EXCEPT ![r] = t]
      /\ snapshot' = [snapshot EXCEPT ![r] =
           IF prompt.key \in DOMAIN entries \ gone
           THEN SnapshotOf(entries[prompt.key]) ELSE None]
      /\ RemoveEntries(gone)
      /\ UNCHANGED <<nextToken, clock, now, ticket, applied>>

\* Mutant: the entry is the same one, whatever happened to it meanwhile.
UnchangedToken(r) ==
  LET k == asked[r].key
  IN  /\ k \in DOMAIN entries \ ExpiredAt(k, since[r])
      /\ snapshot[r].token = entries[k].token

\* The scope is still what the request saw before it measured its history.
Unchanged(r) ==
  LET k == asked[r].key
  IN  /\ k \in DOMAIN entries \ ExpiredAt(k, since[r])
      /\ snapshot[r] = SnapshotOf(entries[k])

Absent(r) ==
  LET k == asked[r].key
  IN  k \notin DOMAIN entries \ ExpiredAt(k, since[r])

\* The request is routed without a ticket.
Unrouted(r) ==
  /\ stage' = [stage EXCEPT ![r] = "done"]
  /\ snapshot' = [snapshot EXCEPT ![r] = None]
  /\ UNCHANGED <<asked, since, ticket, applied>>

\* Another request won the scope, or the entry is gone.
Contended(r) ==
  /\ stage[r] = "measuring"
  /\ IF snapshot[r] = None THEN ~Absent(r) ELSE ~Unchanged(r)
  /\ RemoveEntries(ExpiredAt(asked[r].key, since[r]))
  /\ Unrouted(r)
  /\ UNCHANGED <<nextToken, clock, now>>

\* The prefix of the history that is as long as the history seen has its digest.
Continues(r) ==
  LET seen == snapshot[r].history
      shown == asked[r].history
  IN  /\ asked[r].instructions = snapshot[r].instructions
      /\ Len(shown) >= Len(seen)
      /\ SubSeq(shown, 1, Len(seen)) = seen

Ticket(e, hint) ==
  [token |-> e.token, cycle |-> e.cycle, version |-> e.version, hint |-> hint]

\* The entry takes the history of the request and is the last one used.
Touch(r, e) ==
  LET k == asked[r].key
      touched == [e EXCEPT !.revision = @ + 1, !.instructions = asked[r].instructions,
                           !.history = asked[r].history, !.access = since[r],
                           !.order = clock + 1]
  IN  /\ entries' = [entries EXCEPT ![k] = touched]
      /\ lru' = (lru \ {RecordOf(k, e)}) \cup {RecordOf(k, touched)}
      /\ clock' = clock + 1
      /\ dynamic' = dynamic - entries[k].route.bytes + e.route.bytes

Routed(r, t) ==
  /\ stage' = [stage EXCEPT ![r] = "routed"]
  /\ snapshot' = [snapshot EXCEPT ![r] = None]
  /\ since' = [since EXCEPT ![r] = now]
  /\ ticket' = With(ticket, r, t)
  /\ UNCHANGED <<asked, applied>>

Continue(r) ==
  LET e == entries[asked[r].key]
  IN  /\ stage[r] = "measuring"
      /\ snapshot[r] # None
      /\ Unchanged(r)
      /\ Continues(r)
      /\ Touch(r, e)
      /\ Routed(r, Ticket(e, e.route.by))
      /\ UNCHANGED <<nextToken, now>>

\* A history that does not continue opens a new cycle and forgets the route.
Restart(r) ==
  LET e == [entries[asked[r].key] EXCEPT !.cycle = @ + 1, !.version = @ + 1,
                                         !.route = NoRoute]
  IN  /\ stage[r] = "measuring"
      /\ snapshot[r] # None
      /\ Unchanged(r)
      /\ ~Continues(r)
      /\ Touch(r, e)
      /\ Routed(r, Ticket(e, NoHint))
      /\ UNCHANGED <<nextToken, now>>

\* Mutant: the token is handed out again.
AllocateTokenTwice == UNCHANGED nextToken

\* allocate_entry_token
AllocateToken == nextToken' = nextToken + 1

\* A new entry; should the evictions not make room, the request has no ticket.
Insert(r) ==
  LET k == asked[r].key
      gone == ExpiredAt(k, since[r])
      all == gone \cup Evicted(gone, {}, 1, 0)
      e == [token |-> nextToken, cycle |-> 1, revision |-> 1, version |-> 0,
            instructions |-> asked[r].instructions, history |-> asked[r].history,
            route |-> NoRoute, access |-> since[r], order |-> clock + 1]
  IN  /\ stage[r] = "measuring"
      /\ snapshot[r] = None
      /\ Absent(r)
      /\ AllocateToken
      /\ clock' = clock + 1
      /\ IF Enough(gone, {}, 1, 0) = {}
         THEN RemoveEntries(all) /\ Unrouted(r)
         ELSE /\ entries' = With(Kept(all), k, e)
              /\ lru' = Unlisted(all) \cup {RecordOf(k, e)}
              /\ dynamic' = dynamic - Freed(all)
              /\ Routed(r, Ticket(e, NoHint))
      /\ UNCHANGED now

-----------------------------------------------------------------------------
(* complete                                                                  *)

\* Mutant: a route recorded since does not matter.
ValidAnyVersion(r, gone) ==
  LET k == asked[r].key
  IN  /\ k \in DOMAIN entries \ gone
      /\ entries[k].token = ticket[r].token
      /\ entries[k].cycle = ticket[r].cycle

\* The entry is the one the ticket was given for, and nobody recorded a route
\* or opened a new cycle since.
Valid(r, gone) ==
  LET k == asked[r].key
  IN  /\ k \in DOMAIN entries \ gone
      /\ entries[k].token = ticket[r].token
      /\ entries[k].cycle = ticket[r].cycle
      /\ entries[k].version = ticket[r].version

\* The answer was complete at t and took a route of so many bytes.
Complete(r, bytes, t) ==
  LET k == asked[r].key
      gone == Purged(t) \cup ExpiredAt(k, t)
      more == bytes - entries[k].route.bytes
      all == gone \cup Evicted(gone, {k}, 0, more)
  IN  /\ stage[r] = "routed"
      /\ stage' = [stage EXCEPT ![r] = "done"]
      /\ IF ~Valid(r, gone)
         THEN RemoveEntries(gone) /\ UNCHANGED applied
         ELSE IF Enough(gone, {k}, 0, more) = {}
              THEN RemoveEntries(all) /\ UNCHANGED applied
              ELSE /\ entries' = [Kept(all) EXCEPT
                        ![k].route = [by |-> r, bytes |-> bytes],
                        ![k].version = @ + 1]
                   /\ lru' = Unlisted(all)
                   /\ dynamic' = dynamic - Freed(all) + more
                   /\ applied' = applied \cup {r}
      /\ UNCHANGED <<nextToken, clock, now, asked, since, snapshot, ticket>>

-----------------------------------------------------------------------------
Tick ==
  /\ now < MaxTime
  /\ now' = now + 1
  /\ UNCHANGED <<inner, request>>

Next ==
  \/ Tick
  \/ \E r \in Requests :
       \/ \E prompt \in Prompts, t \in 0..now : Look(r, prompt, t)
       \/ Contended(r) \/ Continue(r) \/ Restart(r) \/ Insert(r)
       \/ \E bytes \in RouteBytes, t \in since[r]..now : Complete(r, bytes, t)

Spec == Init /\ [][Next]_vars

-----------------------------------------------------------------------------
(* Properties                                                                *)

\* Type invariant of the store and of the requests.
TypeOK ==
  /\ \A k \in DOMAIN entries :
       /\ k \in {p.key : p \in Prompts}
       /\ entries[k].token \in 1..(nextToken - 1)
       /\ entries[k].order \in 1..clock
       /\ entries[k].access \in 0..now
       /\ entries[k].route.by \in Requests \cup {NoHint}
  /\ stage \in [Requests -> {"idle", "measuring", "routed", "done"}]
  /\ \A r \in DOMAIN asked : asked[r] \in Prompts
  /\ DOMAIN ticket \subseteq DOMAIN asked
  /\ applied \subseteq DOMAIN ticket

\* The index and the account agree with the entries: every path that adds, moves
\* or removes an entry does so in the map, in the index and in dynamic_bytes.
IndexAgrees ==
  /\ lru = {RecordOf(k, entries[k]) : k \in DOMAIN entries}
  /\ dynamic = Freed(DOMAIN entries)

\* The store stays within its budget.
WithinBudget == Fits({}, 0, 0)

\* The hint a request is given is the route of a request of its own scope whose
\* history, under the same instructions, is the beginning of its own: the
\* checkpoint revision and the ticket keep routes of other branches out.
HintOfThisHistory ==
  \A r \in DOMAIN ticket : LET q == ticket[r].hint IN
    q # NoHint =>
      /\ asked[q].key = asked[r].key
      /\ asked[q].instructions = asked[r].instructions
      /\ IsPrefix(asked[q].history, asked[r].history)

\* The requests whose ticket the entry of a scope would still accept.
Open(k) ==
  {r \in DOMAIN ticket :
     /\ asked[r].key = k
     /\ ticket[r].token = entries[k].token
     /\ ticket[r].cycle = entries[k].cycle
     /\ ticket[r].version = entries[k].version}

Holds ==
  [k \in DOMAIN entries |->
     [instructions |-> entries[k].instructions, history |-> entries[k].history,
      route |-> entries[k].route.by, open |-> Open(k)]]

Hints == [r \in DOMAIN ticket |-> ticket[r].hint]

Promise == INSTANCE ContextHold WITH holds <- Holds, hint <- Hints

\* The store implements the promise of the holds: entering a scope is atomic at
\* its second lock, and the first complete answer of those that entered wins.
ImplementsHolds == Promise!HoldSpec
=============================================================================
