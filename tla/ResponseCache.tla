---------------------------- MODULE ResponseCache ---------------------------
(***************************************************************************)
(* typesafecache: an interceptor with a memory tier (lru), a disk tier and *)
(* a map from the alias that requests name to the model it last resolved   *)
(* to.  Lookups, live calls and stores of concurrent requesters interleave *)
(* at every point where the code gives up its mutex or touches the disk.   *)
(*                                                                         *)
(* One alias is modelled; models are the versions it moves through.  Steps *)
(* of the cache itself take less than a tick, and a live call's answer is  *)
(* at most Latency ticks on its way.                                       *)
(***************************************************************************)
EXTENDS Integers, SequencesExt

CONSTANTS
    Requesters,   \* goroutines that use the client
    Contents,     \* states and questions, all that a key hashes but the model
    Asks,         \* the contents that each requester asks for
    Versions,     \* how many models the alias resolves to, one after another
    TTL,          \* ticks an entry or a mapping stays fresh
    MaxEntries,   \* capacity of the memory tier
    DiskMax,      \* capacity of the disk tier, in entries
    Latency,      \* most ticks between the evaluation and its answer
    Horizon       \* bound on the clock

ASSUME CacheAssumption ==
    /\ {TTL, MaxEntries, DiskMax, Versions} \subseteq Nat \ {0}
    /\ {Latency, Horizon} \subseteq Nat
    /\ Contents # {}
    /\ Asks \in [Requesters -> SUBSET Contents]

VARIABLES
    now,        \* the clock
    current,    \* the version the alias resolves to at the service
    movedAt,    \* when the service left each earlier version
    alias,      \* the learned mapping; version 0 is none
    lru,        \* memory tier, most recently used first
    disk,       \* disk tier, oldest file first
    closed,
    task        \* what each requester is doing

service == <<current, movedAt>>
vars == <<now, service, alias, lru, disk, closed, task>>

Models == 1..Versions
Times == 0..Horizon
Keys == Models \X Contents
Answer == [model: Models, content: Contents, at: Times]
NoAnswer == [model |-> 1, content |-> CHOOSE s \in Contents : TRUE, at |-> 0]
Entry == [key: Keys, answer: Answer, added: Times]
Phase == {"idle", "memory", "disk", "expired", "promote", "hit", "call",
          "answered", "store", "write", "prune"}

TaskState == [pc: Phase, model: Models, content: Contents, answer: Answer]

Unique(entries) ==
    \A i, j \in DOMAIN entries : entries[i].key = entries[j].key => i = j

(* Types; the memory tier is within its bound and neither tier holds a key  *)
(* twice.                                                                   *)
TypeOK ==
    /\ now \in Times
    /\ current \in Models
    /\ movedAt \in [Models -> Times]
    /\ alias \in [model: Models \cup {0}, at: Times]
    /\ lru \in Seq(Entry) /\ Len(lru) <= MaxEntries /\ Unique(lru)
    /\ disk \in Seq(Entry) /\ Unique(disk)
    /\ closed \in BOOLEAN
    /\ task \in [Requesters -> TaskState]

Idle == [pc |-> "idle", model |-> 1, content |-> NoAnswer.content,
         answer |-> NoAnswer]
Nothing == [model |-> 0, at |-> 0]

Init ==
    /\ now = 0
    /\ current = 1
    /\ movedAt = [m \in Models |-> 0]
    /\ alias = Nothing
    /\ lru = <<>> /\ disk = <<>>
    /\ closed = FALSE
    /\ task = [r \in Requesters |-> Idle]

-----------------------------------------------------------------------------
At(r, pc) == task[r].pc = pc
Goto(r, pc) == task' = [task EXCEPT ![r].pc = pc]
Hold(r, pc, answer) ==
    task' = [task EXCEPT ![r].pc = pc, ![r].answer = answer]
Miss(r) == task' = [task EXCEPT ![r].pc = "call", ![r].model = Idle.model]
Finish(r) == task' = [task EXCEPT ![r] = Idle]

Key(r) == <<task[r].model, task[r].content>>
Fresh(added) == now - added <= TTL
Entered(key, answer) == [key |-> key, answer |-> answer, added |-> now]

(* The entry of a key, at the most one in a tier, and the tier without it.  *)
Holds(entries, key) == \E i \in DOMAIN entries : entries[i].key = key
Place(entries, key) == CHOOSE i \in DOMAIN entries : entries[i].key = key
Found(entries, key) == entries[Place(entries, key)]
Without(entries, key) ==
    IF Holds(entries, key) THEN RemoveAt(entries, Place(entries, key))
    ELSE entries

(* lru.put: to the front, and the back is evicted when the tier is over.    *)
LruPut(key, answer) ==
    LET all == <<Entered(key, answer)>> \o Without(lru, key)
    IN  lru' = SubSeq(all, 1, IF Len(all) > MaxEntries THEN MaxEntries
                              ELSE Len(all))

-----------------------------------------------------------------------------
(* keyFor: without a fresh mapping nothing can be looked up.                *)
ResolvedForever == alias.model # 0
Resolved == alias.model # 0 /\ Fresh(alias.at)

Lookup(r) ==
    /\ At(r, "idle")
    /\ \E content \in Asks[r] :
          task' = [task EXCEPT ![r] =
             IF Resolved
             THEN [Idle EXCEPT !.pc = "memory", !.model = alias.model,
                               !.content = content]
             ELSE [Idle EXCEPT !.pc = "call", !.content = content]]
    /\ UNCHANGED <<now, service, alias, lru, disk, closed>>

(* lru.get moves what it finds to the front; it does not renew it.          *)
Renewed(entry) == [entry EXCEPT !.added = now]
Touched(entry) == entry

(* get, its memory part.                                                    *)
MemoryGet(r) ==
    /\ At(r, "memory")
    /\ LET found == Found(lru, Key(r))
       IN  \/ /\ closed
              /\ Miss(r)
              /\ UNCHANGED lru
           \/ /\ ~closed /\ Holds(lru, Key(r)) /\ Fresh(found.added)
              /\ lru' = <<Touched(found)>> \o Without(lru, Key(r))
              /\ Hold(r, "hit", found.answer)
           \/ /\ ~closed /\ Holds(lru, Key(r)) /\ ~Fresh(found.added)
              /\ lru' = Without(lru, Key(r))
              /\ Goto(r, "disk")
           \/ /\ ~closed /\ ~Holds(lru, Key(r))
              /\ Goto(r, "disk")
              /\ UNCHANGED lru
    /\ UNCHANGED <<now, service, alias, disk, closed>>

(* disk.get reads the file; an expired one is to be removed.                *)
DiskGet(r) ==
    /\ At(r, "disk")
    /\ LET found == Found(disk, Key(r))
       IN  \/ ~Holds(disk, Key(r)) /\ Miss(r)
           \/ /\ Holds(disk, Key(r)) /\ ~Fresh(found.added)
              /\ Goto(r, "expired")
           \/ /\ Holds(disk, Key(r)) /\ Fresh(found.added)
              /\ Hold(r, "promote", found.answer)
    /\ UNCHANGED <<now, service, alias, lru, disk, closed>>

(* It removes by name, whatever the file holds by now.                      *)
DiskRemove(r) ==
    /\ At(r, "expired")
    /\ disk' = Without(disk, Key(r))
    /\ Miss(r)
    /\ UNCHANGED <<now, service, alias, lru, closed>>

(* get puts a disk hit into memory, whether or not Close came in between.   *)
Promote(r) ==
    /\ At(r, "promote")
    /\ LruPut(Key(r), task[r].answer)
    /\ Goto(r, "hit")
    /\ UNCHANGED <<now, service, alias, disk, closed>>

(* The caller gets the cached answer.                                       *)
ServeHit(r) ==
    /\ At(r, "hit")
    /\ Finish(r)
    /\ UNCHANGED <<now, service, alias, lru, disk, closed>>

(* The service evaluates the request with the model of the moment.          *)
Evaluate(r) ==
    /\ At(r, "call")
    /\ task' = [task EXCEPT ![r].pc = "answered", ![r].answer =
                   [model |-> current, content |-> task[r].content, at |-> now]]
    /\ UNCHANGED <<now, service, alias, lru, disk, closed>>

(* The call fails; failures are not cached.                                 *)
CallFails(r) ==
    /\ At(r, "call")
    /\ Finish(r)
    /\ UNCHANGED <<now, service, alias, lru, disk, closed>>

(* learnAlias, with the time the answer arrived.                            *)
Learn(r) ==
    /\ At(r, "answered")
    /\ alias' = [model |-> task[r].answer.model, at |-> now]
    /\ Goto(r, "store")
    /\ UNCHANGED <<now, service, lru, disk, closed>>

(* The key an answer is stored under: its own model, not what the alias     *)
(* resolves to by now.                                                      *)
AliasKey(r) == <<alias.model, task[r].content>>
StoreKey(r) == <<task[r].answer.model, task[r].content>>

(* put, its memory part.                                                    *)
Store(r) ==
    /\ At(r, "store")
    /\ \/ closed /\ Finish(r) /\ UNCHANGED lru
       \/ /\ ~closed
          /\ LruPut(StoreKey(r), task[r].answer)
          /\ Goto(r, "write")
    /\ UNCHANGED <<now, service, alias, disk, closed>>

(* disk.put writes a temporary file and renames it into place, or fails:    *)
(* a purge, say, took the temporary file.                                   *)
Write(r) ==
    /\ At(r, "write")
    /\ \/ /\ disk' = Append(Without(disk, StoreKey(r)),
                            Entered(StoreKey(r), task[r].answer))
          /\ Goto(r, "prune")
       \/ Finish(r) /\ UNCHANGED disk
    /\ UNCHANGED <<now, service, alias, lru, closed>>

(* prune deletes the oldest files until the rest fits.                      *)
Prune(r) ==
    /\ At(r, "prune")
    /\ disk' = IF Len(disk) > DiskMax
               THEN SubSeq(disk, Len(disk) - DiskMax + 1, Len(disk)) ELSE disk
    /\ Finish(r)
    /\ UNCHANGED <<now, service, alias, lru, closed>>

-----------------------------------------------------------------------------
Purge ==
    /\ lru' = <<>>
    /\ UNCHANGED <<now, service, alias, disk, closed, task>>

ForgetAliases ==
    /\ alias' = Nothing
    /\ UNCHANGED <<now, service, lru, disk, closed, task>>

PurgeDisk ==
    /\ disk' = <<>>
    /\ UNCHANGED <<now, service, alias, lru, closed, task>>

Close ==
    /\ closed' = TRUE
    /\ lru' = <<>>
    /\ UNCHANGED <<now, service, alias, disk, task>>

(* The process dies and is started again on the same directory.             *)
Restart ==
    /\ alias' = Nothing
    /\ lru' = <<>>
    /\ closed' = FALSE
    /\ task' = [r \in Requesters |-> Idle]
    /\ UNCHANGED <<now, service, disk>>

(* The alias moves on at the service.                                       *)
AliasMoves ==
    /\ current < Versions
    /\ current' = current + 1
    /\ movedAt' = [movedAt EXCEPT ![current] = now]
    /\ UNCHANGED <<now, alias, lru, disk, closed, task>>

Tick ==
    /\ now < Horizon
    /\ \A r \in Requesters :
          \/ task[r].pc \in {"idle", "call"}
          \/ At(r, "answered") /\ now < task[r].answer.at + Latency
    /\ now' = now + 1
    /\ UNCHANGED <<service, alias, lru, disk, closed, task>>

Next ==
    \/ \E r \in Requesters :
          \/ Lookup(r) \/ MemoryGet(r) \/ DiskGet(r) \/ DiskRemove(r)
          \/ Promote(r) \/ ServeHit(r)
          \/ Evaluate(r) \/ CallFails(r) \/ Learn(r)
          \/ Store(r) \/ Write(r) \/ Prune(r)
    \/ Purge \/ ForgetAliases \/ PurgeDisk \/ Close \/ Restart
    \/ AliasMoves
    \/ Tick

Spec == Init /\ [][Next]_vars

-----------------------------------------------------------------------------
(* A hit answers the question that was asked, with the model that the       *)
(* lookup resolved the alias to, whichever answers were stored meanwhile.   *)
HitMatchesLookup ==
    \A r \in Requesters : At(r, "hit") =>
        <<task[r].answer.model, task[r].answer.content>> = Key(r)

(* An alias move goes unnoticed for the TTL of the mapping, plus the time   *)
(* an answer of the old model may be under way: no longer, whatever tier    *)
(* the answer comes from and in whatever order answers arrive.              *)
MoveNoticed ==
    \A r \in Requesters :
        At(r, "hit") /\ task[r].answer.model < current =>
            now <= movedAt[task[r].answer.model] + TTL + Latency

(* No answer is served once two lifetimes have passed: promotion from disk  *)
(* to memory grants a second one, but not a third.                          *)
ServedWithinTwoTTLs ==
    \A r \in Requesters :
        At(r, "hit") => now <= task[r].answer.at + Latency + 2 * TTL

(* What the documentation of WithDisk says: disk entries respect the same   *)
(* TTL as memory, so that an answer is served for one lifetime.             *)
EntriesExpire ==
    \A r \in Requesters :
        At(r, "hit") => now <= task[r].answer.at + Latency + TTL
=============================================================================
