------------------------------ MODULE PcQueue ------------------------------
(***************************************************************************)
(* The PC's queue of packets to send (pc_terminal/queue.c): a ring under a *)
(* mutex.  Both operations run with the mutex held, so each is one action. *)
(***************************************************************************)
EXTENDS Integers, Sequences

CONSTANTS
  capacity,     \* 100 in pc_terminal.c
  Packets       \* the packets the PC sends: records of a command and a value

ASSUME CapacityAssumption == capacity \in Nat \ {0}

VARIABLES elements, first, last, size     \* the fields of *queue

queueVars == <<elements, first, last, size>>

Blank == [command |-> 0, value |-> 0]     \* malloc'ed memory, never read

Slots == 0..(capacity - 1)

createQueue ==
  /\ elements = [slot \in Slots |-> Blank]
  /\ first = 0 /\ last = -1 /\ size = 0

Wrap(index) == IF index = capacity THEN 0 ELSE index

\* Mutant of Insert: last wraps one element late, the element past the end being lost.
InsertUnwrapped(packet) ==
  /\ size' = size + 1
  /\ last' = IF last = capacity THEN 0 ELSE last + 1
  /\ elements' = [elements EXCEPT ![last'] = packet]
  /\ UNCHANGED first

Insert(packet) ==
  /\ size' = size + 1
  /\ last' = Wrap(last + 1)
  /\ elements' = [elements EXCEPT ![last'] = packet]
  /\ UNCHANGED first

\* A packet that finds the queue full is dropped without a word.
enqueue(packet) ==
  IF size < capacity THEN Insert(packet) ELSE UNCHANGED queueVars

\* Mutant of dequeue: the queue counts as empty one packet early.
dequeueAllButOne ==
  /\ size > 1
  /\ size' = size - 1
  /\ first' = Wrap(first + 1)
  /\ UNCHANGED <<elements, last>>

\* The element taken is elements[first].
dequeue ==
  /\ size > 0
  /\ size' = size - 1
  /\ first' = Wrap(first + 1)
  /\ UNCHANGED <<elements, last>>

-----------------------------------------------------------------------------
\* The waiting packets in order: position i is in slot Slot(i).
Slot(i) == IF first + i - 1 < capacity THEN first + i - 1 ELSE first + i - 1 - capacity

Contents == [i \in 1..size |-> elements[Slot(i)]]

=============================================================================
