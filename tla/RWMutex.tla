------------------------------ MODULE RWMutex ------------------------------
(***************************************************************************)
(* Go's sync.RWMutex as operators on its value, the record                 *)
(*   writer  : {} or {w}: the goroutine inside, or waiting for readers in, *)
(*             a call of Lock (it holds the inner mutex and is announced)  *)
(*   readers : the goroutines that hold the read lock                      *)
(*   waiting : the goroutines blocked in RLock behind an announced writer  *)
(*                                                                         *)
(* Two facts of the Go implementation matter to the callers: an announced  *)
(* writer keeps NEW readers out (writers do not starve), and Unlock grants *)
(* the read lock to every blocked reader before the next writer can        *)
(* announce itself (readers do not starve).                                *)
(***************************************************************************)

Unlocked == [writer |-> {}, readers |-> {}, waiting |-> {}]

MutexType(Writers, Readers) ==
    [writer : SUBSET Writers, readers : SUBSET Readers, waiting : SUBSET Readers]

\* Lock, first half: take the inner mutex and announce the writer.
CanAnnounce(m) == m.writer = {}
Announce(m, w) == [m EXCEPT !.writer = {w}]

\* Lock, second half: it returns when the readers that were inside have left.
Exclusive(m, w) == m.writer = {w} /\ m.readers = {}

Unlock(m) == [writer |-> {}, readers |-> m.waiting, waiting |-> {}]

RLock(m, r) ==
    IF m.writer = {}
    THEN [m EXCEPT !.readers = @ \cup {r}]
    ELSE [m EXCEPT !.waiting = @ \cup {r}]

Shared(m, r) == r \in m.readers

RUnlock(m, r) == [m EXCEPT !.readers = @ \ {r}]

=============================================================================
