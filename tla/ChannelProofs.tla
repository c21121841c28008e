--------------------------- MODULE ChannelProofs ---------------------------
(* Proofs about the channel, for any threads, any calls they make and a     *)
(* ring of any size: types, even when two threads hold the lock at once, and *)
(* that the exchange is right for as long as the lock excluded.             *)
EXTENDS Channel, TLAPS

(* Who can be where, and what a thread knows of the count it read. *)
Working == {"index", "slot", "advance", "number"}

Types == /\ TypeOK
         /\ sent \in Seq(Messages) /\ received \in Seq(Messages)

Roles ==
    \A t \in Threads :
        /\ pc[t] \in Working \cup {"count", "retry"} => t \notin Closers
        /\ pc[t] \in {"closed", "quit"} => t \in Receivers
        /\ pc[t] = "flag" => t \in Closers
        /\ pc[t] \in Working => IF t \in Senders THEN n[t] < Cap ELSE n[t] > 0

Busy(t) == pc[t] \notin {"idle", "test"}

(* The lock, as long as it excludes: one thread has seen it free, and while *)
(* that thread is inside the lock is taken.                                 *)
Exclusive ==
    /\ \A t, u \in Threads : Busy(t) /\ Busy(u) => t = u
    /\ Inside # {} => lock = 1

(* The ring from h up to e holds what was sent and not yet received. *)
Holds(h, e) ==
    /\ e = (h + count) % Cap
    /\ Len(sent) = Len(received) + count
    /\ \A k \in 1 .. Len(received) : sent[k] = received[k]
    /\ \A k \in 1 .. count : sent[Len(received) + k] = buf[(h + k - 1) % Cap]

(* What the thread inside read is still so, and what it changed so far. *)
Agrees(t) ==
    /\ pc[t] \in Working => n[t] = count
    /\ pc[t] \in {"slot", "advance"} => i[t] = IF t \in Senders THEN tail ELSE head
    /\ pc[t] \in {"advance", "number"} => v[t] = buf[i[t]]
    /\ pc[t] = "number" =>
          IF t \in Senders THEN Holds(head, i[t]) /\ tail = NextIndex(i[t])
                           ELSE Holds(i[t], tail) /\ head = NextIndex(i[t])
    /\ pc[t] = "closed" => count = 0
    /\ pc[t] = "quit" => closed = 1 /\ Len(received) >= due

Ring == (\A t \in Threads : pc[t] # "number") => Holds(head, tail)

Drained == over # {} => closed = 1 /\ Len(received) >= due

Sound == Exclusive /\ (\A t \in Threads : Agrees(t)) /\ Ring /\ Drained

IInv == Types /\ Roles /\ (~raced => Sound)

-----------------------------------------------------------------------------
(* Indices of the ring: sums of an index and a count stay below 2 * Cap. *)

LEMMA Small == ASSUME NEW x \in 0 .. Cap - 1 PROVE x % Cap = x
BY ChannelAssumption

LEMMA Wraps == ASSUME NEW x \in Cap .. 2 * Cap - 1 PROVE x % Cap = x - Cap
BY ChannelAssumption

LEMMA InRange == ASSUME NEW x \in Nat PROVE x % Cap \in 0 .. Cap - 1
BY ChannelAssumption

LEMMA Sum ==
    ASSUME NEW x \in 0 .. Cap - 1, NEW y \in 0 .. Cap
    PROVE  (x + y) % Cap = IF x + y < Cap THEN x + y ELSE x + y - Cap
<1>1. Cap \in Nat \ {0}
  BY ChannelAssumption
<1>2. CASE x + y < Cap
  BY <1>1, <1>2, Small
<1>3. CASE ~(x + y < Cap)
  <2>1. x + y \in Cap .. 2 * Cap - 1
    BY <1>1, <1>3
  <2> QED BY <1>1, <1>3, <2>1, Wraps
<1> QED BY <1>2, <1>3

(* Fewer than Cap steps from an index lead to as many different places. *)
LEMMA Apart ==
    ASSUME NEW h \in 0 .. Cap - 1, NEW j \in 0 .. Cap - 1, NEW k \in 0 .. Cap - 1, j < k
    PROVE  (h + j) % Cap # (h + k) % Cap
<1>1. Cap \in Nat \ {0} /\ j \in 0 .. Cap /\ k \in 0 .. Cap
  BY ChannelAssumption
<1>2. (h + j) % Cap = IF h + j < Cap THEN h + j ELSE h + j - Cap
  BY <1>1, Sum
<1>3. (h + k) % Cap = IF h + k < Cap THEN h + k ELSE h + k - Cap
  BY <1>1, Sum
<1> QED BY <1>1, <1>2, <1>3

(* One step further is the next index, across the wrap. *)
LEMMA Further ==
    ASSUME NEW h \in 0 .. Cap - 1, NEW j \in 0 .. Cap - 1
    PROVE  /\ NextIndex((h + j) % Cap) = (h + (j + 1)) % Cap
           /\ (NextIndex(h) + j) % Cap = (h + (j + 1)) % Cap
<1> DEFINE a == (h + j) % Cap
           b == (h + (j + 1)) % Cap
           c == (h + 1) % Cap
           d == (a + 1) % Cap
           e == (c + j) % Cap
<1>1. Cap \in Nat \ {0} /\ {j, j + 1, 1} \subseteq 0 .. Cap
  BY ChannelAssumption
<1>2. a \in 0 .. Cap - 1 /\ c \in 0 .. Cap - 1
  BY <1>1, InRange
<1>3. a = IF h + j < Cap THEN h + j ELSE h + j - Cap
  BY <1>1, Sum
<1>4. b = IF h + (j + 1) < Cap THEN h + (j + 1) ELSE h + (j + 1) - Cap
  BY <1>1, Sum
<1>5. c = IF h + 1 < Cap THEN h + 1 ELSE h + 1 - Cap
  BY <1>1, Sum
<1> HIDE DEF a, b, c
<1>6. d = IF a + 1 < Cap THEN a + 1 ELSE a + 1 - Cap
  BY <1>1, <1>2, Sum
<1>7. e = IF c + j < Cap THEN c + j ELSE c + j - Cap
  BY <1>1, <1>2, Sum
<1> HIDE DEF d, e
<1>8. d = b /\ e = b
  BY <1>1, <1>3, <1>4, <1>5, <1>6, <1>7
<1> QED BY <1>8 DEF a, b, c, d, e, NextIndex

-----------------------------------------------------------------------------
(* Types and roles, races or not. *)

LEMMA Parties ==
    ASSUME NEW t \in Threads
    PROVE  /\ t \in Senders => t \notin Receivers /\ t \notin Closers
           /\ t \in Receivers => t \notin Closers
           /\ t \in Senders \/ t \in Receivers \/ t \in Closers
BY ChannelAssumption DEF Threads

LEMMA Puts ==
    ASSUME NEW s \in Seq(Messages), NEW x \in Messages
    PROVE  /\ Append(s, x) \in Seq(Messages) /\ Len(Append(s, x)) = Len(s) + 1
           /\ \A k \in DOMAIN Append(s, x) : Append(s, x)[k] \in Messages
           /\ \A k \in 1 .. Len(s) : Append(s, x)[k] = s[k]
           /\ Append(s, x)[Len(s) + 1] = x
OBVIOUS

LEMMA RolesKept ==
    ASSUME Types, Roles, NEW t \in Threads, Call(t) \/ Step(t)
    PROVE  Roles'
<1> SUFFICES ASSUME NEW u \in Threads
    PROVE  (/\ pc[u] \in Working \cup {"count", "retry"} => u \notin Closers
            /\ pc[u] \in {"closed", "quit"} => u \in Receivers
            /\ pc[u] = "flag" => u \in Closers
            /\ pc[u] \in Working => IF u \in Senders THEN n[u] < Cap ELSE n[u] > 0)'
  BY DEF Roles
<1> USE DEF Types, TypeOK, Roles, Goto, Working, Unlock
<1>0. CASE u # t
  <2>1. pc'[u] = pc[u] /\ n'[u] = n[u]
    BY <1>0 DEF Call, Step, TestLock, SetLock, ReadCount, ReadIndex, WriteSlot, ReadSlot,
                Advance, WriteCount, ReadClosed, WriteClosed, Return, Quit, Retry, locals
  <2> QED BY <2>1
<1> SUFFICES ASSUME u = t
    PROVE  (/\ pc[t] \in Working \cup {"count", "retry"} => t \notin Closers
            /\ pc[t] \in {"closed", "quit"} => t \in Receivers
            /\ pc[t] = "flag" => t \in Closers
            /\ pc[t] \in Working => IF t \in Senders THEN n[t] < Cap ELSE n[t] > 0)'
  BY <1>0
<1>1. CASE Call(t)
  BY <1>1 DEF Call
<1>2. CASE TestLock(t)
  BY <1>2 DEF TestLock
<1>3. CASE SetLock(t)
  BY <1>3, Parties DEF SetLock
<1>4. CASE ReadCount(t)
  BY <1>4, Parties DEF ReadCount
<1>5. CASE ReadIndex(t)
  BY <1>5 DEF ReadIndex
<1>6. CASE WriteSlot(t) \/ ReadSlot(t)
  BY <1>6, Parties DEF WriteSlot, ReadSlot, locals
<1>7. CASE Advance(t)
  BY <1>7 DEF Advance, locals
<1>8. CASE WriteCount(t)
  BY <1>8 DEF WriteCount
<1>9. CASE ReadClosed(t)
  BY <1>9, Parties DEF ReadClosed
<1>10. CASE WriteClosed(t)
  BY <1>10 DEF WriteClosed
<1>11. CASE Return(t) \/ Quit(t) \/ Retry(t)
  BY <1>11 DEF Return, Quit, Retry
<1> QED BY <1>1, <1>2, <1>3, <1>4, <1>5, <1>6, <1>7, <1>8, <1>9, <1>10, <1>11 DEF Step

LEMMA TypesKept ==
    ASSUME Types, Roles, NEW t \in Threads, Call(t) \/ Step(t)
    PROVE  Types'
<1>0. Cap \in Nat \ {0} /\ 0 \in 0 .. Cap - 1 /\ Junk \in Messages
  BY ChannelAssumption DEF Messages
<1> USE DEF Types, TypeOK, Goto
<1>1. CASE Call(t)
  <2>1. t \in Senders => <<t, calls[t]>> \in Messages
    BY DEF Messages
  <2> QED BY <1>0, <1>1, <2>1 DEF Call, shared, history
<1>2. CASE TestLock(t)
  BY <1>2 DEF TestLock, shared, locals
<1>3. CASE SetLock(t)
  BY <1>3 DEF SetLock, locals, history
<1>4. CASE ReadCount(t)
  BY <1>4 DEF ReadCount, shared, history
<1>5. CASE ReadIndex(t)
  BY <1>5 DEF ReadIndex, shared, history
<1>6. CASE WriteSlot(t)
  BY <1>6 DEF WriteSlot, locals, history
<1>7. CASE ReadSlot(t)
  BY <1>7 DEF ReadSlot, shared, history
<1>8. CASE Advance(t)
  <2>1. i[t] + 1 \in Nat
    BY <1>0
  <2>2. NextIndex(i[t]) \in 0 .. Cap - 1
    BY <2>1, InRange DEF NextIndex
  <2> QED BY <1>8, <2>2 DEF Advance, locals, history
<1>9. CASE WriteCount(t)
  <2>1. CASE t \in Senders
    <3>1. n[t] + 1 \in 0 .. Cap
      BY <1>0, <1>9, <2>1 DEF WriteCount, Roles, Working
    <3>2. /\ count' = n[t] + 1 /\ sent' = Append(sent, v[t]) /\ received' = received
          /\ pc' = [pc EXCEPT ![t] = "unlock"]
          /\ UNCHANGED <<lock, head, tail, closed, buf, locals, calls, due, over, raced>>
      BY <1>9, <2>1, Parties DEF WriteCount
    <3>3. sent' \in Seq(Messages) /\ Len(sent') = Len(sent) + 1
          /\ \A k \in DOMAIN sent' : sent'[k] \in Messages
      BY <3>2, Puts
    <3>4. due' \in 0 .. Len(sent')
      BY <3>2, <3>3
    <3> QED BY <3>1, <3>2, <3>3, <3>4 DEF locals
  <2>2. CASE t \in Receivers
    <3>1. n[t] - 1 \in 0 .. Cap
      BY <1>0, <1>9, <2>2, Parties DEF WriteCount, Roles, Working
    <3>2. /\ count' = n[t] - 1 /\ received' = Append(received, v[t]) /\ sent' = sent
          /\ pc' = [pc EXCEPT ![t] = "unlock"]
          /\ UNCHANGED <<lock, head, tail, closed, buf, locals, calls, due, over, raced>>
      BY <1>9, <2>2, Parties DEF WriteCount
    <3>3. received' \in Seq(Messages) /\ \A k \in DOMAIN received' : received'[k] \in Messages
      BY <3>2, Puts
    <3> QED BY <3>1, <3>2, <3>3 DEF locals
  <2> QED BY <1>9, <2>1, <2>2 DEF WriteCount
<1>10. CASE ReadClosed(t)
  BY <1>10 DEF ReadClosed, shared, locals, history
<1>11. CASE WriteClosed(t)
  BY <1>11 DEF WriteClosed, locals
<1>12. CASE Return(t)
  BY <1>0, <1>12 DEF Return, Unlock
<1>13. CASE Quit(t)
  BY <1>0, <1>13 DEF Quit, Unlock, Roles
<1>14. CASE Retry(t)
  BY <1>0, <1>14 DEF Retry, Unlock
<1> QED BY <1>1, <1>2, <1>3, <1>4, <1>5, <1>6, <1>7, <1>8, <1>9, <1>10, <1>11, <1>12, <1>13,
           <1>14 DEF Step

-----------------------------------------------------------------------------
(* As long as the lock excluded: a step of the one thread that is busy. *)

LEMMA Alone ==
    ASSUME IInv, ~raced, NEW t \in Threads, Busy(t), NEW to, pc' = [pc EXCEPT ![t] = to],
           lock' = 1 \/ (lock' = lock /\ pc[t] # "set") \/ to \in {"idle", "test"}
    PROVE  /\ Exclusive'
           /\ \A u \in Threads : u # t => pc'[u] \in {"idle", "test"}
           /\ pc'[t] = to
<1>1. /\ \A u \in Threads : u # t => pc'[u] = pc[u]
      /\ pc'[t] = to
  BY DEF IInv, Types, TypeOK
<1>2. /\ \A u \in Threads : u # t => ~Busy(u)
      /\ Inside # {} => lock = 1
  BY DEF IInv, Sound, Exclusive
<1>3. \A u \in Threads : u # t => pc'[u] \in {"idle", "test"}
  BY <1>1, <1>2 DEF Busy
<1>4. \A u, w \in Threads : Busy(u)' /\ Busy(w)' => u = w
  BY <1>3 DEF Busy
<1>5. Inside' # {} => lock' = 1
  <2> SUFFICES ASSUME Inside' # {} PROVE lock' = 1
    OBVIOUS
  <2>1. to \notin {"idle", "test"}
    BY <1>1, <1>3 DEF Inside
  <2>2. pc[t] # "set" => t \in Inside
    BY DEF Inside, Busy
  <2> QED BY <1>2, <2>1, <2>2
<1> QED BY <1>1, <1>3, <1>4, <1>5 DEF Exclusive

LEMMA AloneKeeps ==
    ASSUME IInv, ~raced, NEW t \in Threads, Busy(t), NEW to, pc' = [pc EXCEPT ![t] = to],
           lock' = 1 \/ (lock' = lock /\ pc[t] # "set") \/ to \in {"idle", "test"},
           Agrees(t)', Drained', to # "number" => Holds(head, tail)'
    PROVE  Sound'
<1>1. /\ Exclusive'
      /\ \A u \in Threads : u # t => pc'[u] \in {"idle", "test"}
      /\ pc'[t] = to
  BY Alone
<1>2. \A u \in Threads : u # t => Agrees(u)'
  BY <1>1 DEF Agrees, Working
<1>3. Ring'
  BY <1>1 DEF Ring
<1> QED BY <1>1, <1>2, <1>3 DEF Sound

(* Between two counts the ring is whole. *)
LEMMA Whole ==
    ASSUME IInv, ~raced, NEW t \in Threads, Busy(t), pc[t] # "number"
    PROVE  Holds(head, tail) /\ Agrees(t) /\ Drained
<1>1. \A u \in Threads : u # t => pc[u] \in {"idle", "test"}
  BY DEF IInv, Sound, Exclusive, Busy
<1> QED BY <1>1 DEF IInv, Sound, Ring

(* The value a sender puts goes where nothing is buffered. *)
LEMMA PutKeeps ==
    ASSUME IInv, Holds(head, tail), count < Cap, NEW x,
           buf' = [buf EXCEPT ![tail] = x],
           UNCHANGED <<count, head, tail, sent, received>>
    PROVE  Holds(head, tail)' /\ buf'[tail] = x
<1>1. /\ Cap \in Nat \ {0} /\ count \in 0 .. Cap - 1
      /\ head \in 0 .. Cap - 1 /\ tail \in 0 .. Cap - 1
      /\ DOMAIN buf = 0 .. Cap - 1
  BY ChannelAssumption DEF IInv, Types, TypeOK
<1>2. ASSUME NEW k \in 1 .. count
      PROVE  buf'[(head + k - 1) % Cap] = buf[(head + k - 1) % Cap]
  <2>1. k - 1 \in 0 .. Cap - 1 /\ k - 1 < count /\ head + (k - 1) = head + k - 1
        /\ head + (k - 1) \in Nat
    BY <1>1
  <2>2. (head + (k - 1)) % Cap # (head + count) % Cap
    BY <1>1, <2>1, Apart
  <2>3. (head + (k - 1)) % Cap # tail
    BY <2>2 DEF Holds
  <2> QED BY <1>1, <2>1, <2>3, InRange
<1> QED BY <1>1, <1>2 DEF Holds

(* The count a sender stores takes its value in. *)
LEMMA SentKeeps ==
    ASSUME IInv, NEW t \in Threads, count < Cap, Holds(head, i[t]), tail = NextIndex(i[t]),
           v[t] = buf[i[t]], count' = count + 1, sent' = Append(sent, v[t]),
           UNCHANGED <<head, tail, buf, received>>
    PROVE  Holds(head, tail)' /\ Len(sent') = Len(sent) + 1
<1>1. /\ count \in 0 .. Cap - 1 /\ head \in 0 .. Cap - 1
      /\ Len(sent) \in Nat /\ Len(received) \in Nat
      /\ sent \in Seq(Messages) /\ v[t] \in Messages
  BY ChannelAssumption DEF IInv, Types, TypeOK
<1>2. /\ Len(sent') = Len(sent) + 1
      /\ \A k \in 1 .. Len(sent) : sent'[k] = sent[k]
      /\ sent'[Len(sent) + 1] = v[t]
  BY <1>1, Puts
<1>3. /\ i[t] = (head + count) % Cap
      /\ Len(sent) = Len(received) + count
      /\ \A k \in 1 .. Len(received) : sent[k] = received[k]
      /\ \A k \in 1 .. count : sent[Len(received) + k] = buf[(head + k - 1) % Cap]
  BY DEF Holds
<1>4. tail = (head + (count + 1)) % Cap
  BY <1>1, <1>3, Further
<1>5. \A k \in 1 .. Len(received) : sent'[k] = received[k]
  BY <1>1, <1>2, <1>3
<1>6. ASSUME NEW k \in 1 .. count + 1
      PROVE  sent'[Len(received) + k] = buf[(head + k - 1) % Cap]
  <2>1. CASE k \in 1 .. count
    <3>1. Len(received) + k \in 1 .. Len(sent)
      BY <1>1, <1>3, <2>1
    <3> QED BY <1>2, <1>3, <2>1, <3>1
  <2>2. CASE k = count + 1
    <3>1. Len(received) + k = Len(sent) + 1
      BY <1>1, <1>3, <2>2
    <3>2. head + k - 1 = head + count
      BY <1>1, <2>2
    <3>3. buf[(head + k - 1) % Cap] = buf[(head + count) % Cap]
      BY <3>2
    <3>4. sent'[Len(received) + k] = v[t]
      BY <1>2, <3>1
    <3>5. v[t] = buf[(head + count) % Cap]
      BY <1>3
    <3> QED BY <3>3, <3>4, <3>5
  <2>3. k \in 1 .. count \/ k = count + 1
    BY <1>1
  <2> QED BY <2>1, <2>2, <2>3
<1>7. /\ tail' = (head' + count') % Cap
      /\ Len(sent') = Len(received') + count'
      /\ \A k \in 1 .. Len(received') : sent'[k] = received'[k]
  BY <1>1, <1>2, <1>3, <1>4, <1>5
<1>8. \A k \in 1 .. count' : sent'[Len(received') + k] = buf'[(head' + k - 1) % Cap]
  BY <1>6
<1> QED BY <1>2, <1>7, <1>8 DEF Holds

(* The count a receiver stores takes the oldest value out. *)
LEMMA ReceivedKeeps ==
    ASSUME IInv, NEW t \in Threads, count > 0, Holds(i[t], tail), head = NextIndex(i[t]),
           v[t] = buf[i[t]], count' = count - 1, received' = Append(received, v[t]),
           UNCHANGED <<head, tail, buf, sent>>
    PROVE  Holds(head, tail)' /\ Len(received') = Len(received) + 1
<1> DEFINE h == i[t]
<1>1. /\ Cap \in Nat \ {0} /\ count \in 1 .. Cap /\ h \in 0 .. Cap - 1
      /\ Len(sent) \in Nat /\ Len(received) \in Nat
      /\ received \in Seq(Messages) /\ v[t] \in Messages
  BY ChannelAssumption DEF IInv, Types, TypeOK
<1>2. /\ Len(received') = Len(received) + 1
      /\ \A k \in 1 .. Len(received) : received'[k] = received[k]
      /\ received'[Len(received) + 1] = v[t]
  BY <1>1, Puts
<1>3. /\ tail = (h + count) % Cap
      /\ Len(sent) = Len(received) + count
      /\ \A k \in 1 .. Len(received) : sent[k] = received[k]
      /\ \A k \in 1 .. count : sent[Len(received) + k] = buf[(h + k - 1) % Cap]
      /\ head = NextIndex(h) /\ v[t] = buf[h]
  BY DEF Holds
<1> HIDE DEF h
<1>4. \A j \in 0 .. Cap - 1 : (head + j) % Cap = (h + (j + 1)) % Cap
  BY <1>1, <1>3, Further
<1>5. tail = (head + (count - 1)) % Cap
  <2>1. count - 1 \in 0 .. Cap - 1 /\ (count - 1) + 1 = count
    BY <1>1
  <2> QED BY <1>3, <1>4, <2>1
<1>6. ASSUME NEW k \in 1 .. Len(received) + 1 PROVE sent[k] = received'[k]
  <2>1. CASE k \in 1 .. Len(received)
    BY <1>2, <1>3, <2>1
  <2>2. CASE k = Len(received) + 1
    <3>1. 1 \in 1 .. count /\ h + 1 - 1 = h /\ h % Cap = h
      BY <1>1, Small
    <3>2. sent[Len(received) + 1] = buf[(h + 1 - 1) % Cap]
      BY <1>3, <3>1
    <3> QED BY <1>2, <1>3, <2>2, <3>1, <3>2
  <2> QED BY <1>1, <2>1, <2>2
<1>7. ASSUME NEW k \in 1 .. count - 1
      PROVE  sent[Len(received') + k] = buf[(head + k - 1) % Cap]
  <2>0. Cap \in Nat /\ count \in 1 .. Cap /\ h \in Nat /\ Len(received) \in Nat
    BY <1>1
  <2>1. /\ k + 1 \in 1 .. count /\ k - 1 \in 0 .. Cap - 1
        /\ Len(received') + k = Len(received) + (k + 1)
        /\ h + (k + 1) - 1 = h + ((k - 1) + 1)
    BY <1>2, <2>0
  <2>2. head \in Int /\ head + k - 1 = head + (k - 1)
    BY <1>1, <1>3, InRange DEF NextIndex
  <2>3. sent[Len(received) + (k + 1)] = buf[(h + (k + 1) - 1) % Cap]
    BY <1>3, <2>1
  <2>4. (head + (k - 1)) % Cap = (h + ((k - 1) + 1)) % Cap
    BY <1>4, <2>1
  <2> QED BY <2>1, <2>2, <2>3, <2>4
<1>8. /\ tail' = (head' + count') % Cap
      /\ Len(sent') = Len(received') + count'
      /\ \A k \in 1 .. Len(received') : sent'[k] = received'[k]
  BY <1>1, <1>2, <1>3, <1>5, <1>6
<1>9. \A k \in 1 .. count' : sent'[Len(received') + k] = buf'[(head' + k - 1) % Cap]
  BY <1>7
<1> QED BY <1>2, <1>8, <1>9 DEF Holds

LEMMA SoundKept ==
    ASSUME IInv, NEW t \in Threads, Call(t) \/ Step(t), ~raced'
    PROVE  Sound'
<1>0. ~raced /\ Sound
  <2>1. CASE TestLock(t)
    BY <2>1 DEF TestLock, IInv
  <2>2. CASE ~TestLock(t)
    <3>1. UNCHANGED raced
      BY <2>2 DEF Call, Step, SetLock, ReadCount, ReadIndex, WriteSlot, ReadSlot, Advance,
                  WriteCount, ReadClosed, WriteClosed, Return, Quit, Retry, Unlock, history
    <3> QED BY <3>1 DEF IInv
  <2> QED BY <2>1, <2>2
<1>1. CASE Call(t)
  <2>1. /\ pc[t] = "idle" /\ pc' = [pc EXCEPT ![t] = "test"]
        /\ \A u \in Threads : u # t => v'[u] = v[u]
        /\ UNCHANGED <<lock, count, head, tail, closed, buf, n, i, sent, received, due, over>>
    BY <1>1 DEF Call, Goto, shared, history, IInv, Types, TypeOK
  <2>2. pc'[t] = "test" /\ \A u \in Threads : u # t => pc'[u] = pc[u]
    BY <2>1 DEF IInv, Types, TypeOK
  <2>3. \A u \in Threads : Agrees(u)'
    <3> SUFFICES ASSUME NEW u \in Threads PROVE Agrees(u)'
      OBVIOUS
    <3>1. CASE u = t
      BY <2>2, <3>1 DEF Agrees, Working
    <3>2. CASE u # t
      <4>1. Agrees(u) /\ pc'[u] = pc[u] /\ v'[u] = v[u]
        BY <1>0, <2>1, <2>2, <3>2 DEF Sound
      <4> QED BY <2>1, <4>1 DEF Agrees, Holds, NextIndex
    <3> QED BY <3>1, <3>2
  <2>4. Exclusive'
    <3>1. \A u \in Threads : Busy(u)' => Busy(u)
      BY <2>2 DEF Busy
    <3>2. Inside' \subseteq Inside
      BY <2>2 DEF Inside
    <3> QED BY <1>0, <2>1, <3>1, <3>2 DEF Sound, Exclusive
  <2>5. Ring'
    <3>1. (\A u \in Threads : pc'[u] # "number") => \A u \in Threads : pc[u] # "number"
      BY <2>1, <2>2
    <3> QED BY <1>0, <2>1, <3>1 DEF Sound, Ring, Holds
  <2>6. Drained'
    BY <1>0, <2>1 DEF Sound, Drained
  <2> QED BY <2>3, <2>4, <2>5, <2>6 DEF Sound
<1>2. CASE TestLock(t)
  <2>1. /\ lock = 0 /\ pc[t] = "test" /\ pc' = [pc EXCEPT ![t] = "set"]
        /\ \A u \in Threads : pc[u] # "set"
        /\ UNCHANGED <<lock, count, head, tail, closed, buf, n, i, v, sent, received, due, over>>
    BY <1>2 DEF TestLock, Goto, shared, locals
  <2>2. \A u \in Threads : ~Busy(u)
    BY <1>0, <2>1 DEF Sound, Exclusive, Inside, Busy
  <2>3. pc'[t] = "set" /\ \A u \in Threads : u # t => pc'[u] \in {"idle", "test"}
    BY <2>1, <2>2 DEF Busy, IInv, Types, TypeOK
  <2>4. Exclusive' /\ \A u \in Threads : Agrees(u)'
    BY <2>3 DEF Exclusive, Busy, Inside, Agrees, Working
  <2>5. Holds(head, tail)'
    BY <1>0, <2>1, <2>2 DEF Sound, Ring, Busy, Holds
  <2> QED BY <1>0, <2>1, <2>4, <2>5 DEF Sound, Ring, Drained
<1>3. CASE SetLock(t)
  <2> DEFINE to == IF t \in Closers THEN "flag" ELSE "count"
  <2>1. /\ pc[t] = "set" /\ pc' = [pc EXCEPT ![t] = to] /\ lock' = 1
        /\ UNCHANGED <<count, head, tail, closed, buf, n, i, v, sent, received, due, over>>
    BY <1>3 DEF SetLock, Goto, locals, history
  <2>2. Busy(t) /\ to \in {"flag", "count"} /\ pc'[t] = to
    BY <2>1 DEF Busy, IInv, Types, TypeOK
  <2>3. Holds(head, tail) /\ Drained
    BY <1>0, <2>1, <2>2, Whole
  <2>4. Agrees(t)'
    BY <2>2 DEF Agrees, Working
  <2>5. Holds(head, tail)' /\ Drained'
    BY <2>1, <2>3 DEF Holds, Drained
  <2> HIDE DEF to
  <2> QED BY <1>0, <2>1, <2>2, <2>4, <2>5, AloneKeeps
<1>4. CASE ReadCount(t)
  <2>1. PICK to :
           /\ pc[t] = "count" /\ pc' = [pc EXCEPT ![t] = to]
           /\ to \in {"index", "retry"} \/ (to = "closed" /\ ~(count > 0))
           /\ n' = [n EXCEPT ![t] = count]
           /\ UNCHANGED <<lock, count, head, tail, closed, buf, i, v, sent, received, due, over>>
    BY <1>4 DEF ReadCount, Goto, shared, history
  <2>2. Busy(t) /\ pc'[t] = to /\ n'[t] = count
    BY <2>1 DEF Busy, IInv, Types, TypeOK
  <2>3. Holds(head, tail) /\ Drained
    BY <1>0, <2>1, <2>2, Whole
  <2>4. to = "closed" => count = 0
    BY <2>1 DEF IInv, Types, TypeOK
  <2>5. Agrees(t)'
    BY <2>1, <2>2, <2>4 DEF Agrees, Working
  <2>6. Holds(head, tail)' /\ Drained'
    BY <2>1, <2>3 DEF Holds, Drained
  <2> QED BY <1>0, <2>1, <2>2, <2>5, <2>6, AloneKeeps
<1>5. CASE ReadIndex(t)
  <2>1. /\ pc[t] = "index" /\ pc' = [pc EXCEPT ![t] = "slot"]
        /\ i' = [i EXCEPT ![t] = IF t \in Senders THEN tail ELSE head]
        /\ UNCHANGED <<lock, count, head, tail, closed, buf, n, v, sent, received, due, over>>
    BY <1>5 DEF ReadIndex, Goto, shared, history
  <2>2. /\ Busy(t) /\ pc'[t] = "slot" /\ i'[t] = IF t \in Senders THEN tail ELSE head
    BY <2>1 DEF Busy, IInv, Types, TypeOK
  <2>3. Holds(head, tail) /\ Drained /\ Agrees(t)
    BY <1>0, <2>1, <2>2, Whole
  <2>4. Agrees(t)'
    BY <2>1, <2>2, <2>3 DEF Agrees, Working
  <2>5. Holds(head, tail)' /\ Drained'
    BY <2>1, <2>3 DEF Holds, Drained
  <2> QED BY <1>0, <2>1, <2>2, <2>4, <2>5, AloneKeeps
<1>6. CASE WriteSlot(t)
  <2>1. /\ t \in Senders /\ pc[t] = "slot" /\ pc' = [pc EXCEPT ![t] = "advance"]
        /\ buf' = [buf EXCEPT ![i[t]] = v[t]]
        /\ UNCHANGED <<lock, count, head, tail, closed, n, i, v, sent, received, due, over>>
    BY <1>6 DEF WriteSlot, Goto, locals, history
  <2>2. Busy(t) /\ pc'[t] = "advance"
    BY <2>1 DEF Busy, IInv, Types, TypeOK
  <2>3. Holds(head, tail) /\ Drained /\ Agrees(t)
    BY <1>0, <2>1, <2>2, Whole
  <2>4. i[t] = tail /\ n[t] = count /\ count < Cap
    BY <2>1, <2>3 DEF Agrees, Working, IInv, Roles
  <2>5. Holds(head, tail)' /\ buf'[tail] = v[t]
    BY <2>1, <2>3, <2>4, PutKeeps
  <2>6. Agrees(t)' /\ Drained'
    BY <2>1, <2>2, <2>3, <2>4, <2>5 DEF Agrees, Working, Drained
  <2> QED BY <1>0, <2>1, <2>2, <2>5, <2>6, AloneKeeps
<1>7. CASE ReadSlot(t)
  <2>1. /\ t \in Receivers /\ pc[t] = "slot" /\ pc' = [pc EXCEPT ![t] = "advance"]
        /\ v' = [v EXCEPT ![t] = buf[i[t]]]
        /\ UNCHANGED <<lock, count, head, tail, closed, buf, n, i, sent, received, due, over>>
    BY <1>7 DEF ReadSlot, Goto, shared, history
  <2>2. Busy(t) /\ pc'[t] = "advance" /\ v'[t] = buf[i[t]]
    BY <2>1 DEF Busy, IInv, Types, TypeOK
  <2>3. Holds(head, tail) /\ Drained /\ Agrees(t)
    BY <1>0, <2>1, <2>2, Whole
  <2>4. Agrees(t)'
    BY <2>1, <2>2, <2>3 DEF Agrees, Working
  <2>5. Holds(head, tail)' /\ Drained'
    BY <2>1, <2>3 DEF Holds, Drained
  <2> QED BY <1>0, <2>1, <2>2, <2>4, <2>5, AloneKeeps
<1>8. CASE Advance(t)
  <2>1. /\ pc[t] = "advance" /\ pc' = [pc EXCEPT ![t] = "number"]
        /\ IF t \in Senders THEN tail' = NextIndex(i[t]) /\ head' = head
                            ELSE head' = NextIndex(i[t]) /\ tail' = tail
        /\ UNCHANGED <<lock, count, closed, buf, n, i, v, sent, received, due, over>>
    BY <1>8 DEF Advance, Goto, locals, history
  <2>2. Busy(t) /\ pc'[t] = "number"
    BY <2>1 DEF Busy, IInv, Types, TypeOK
  <2>3. Holds(head, tail) /\ Drained /\ Agrees(t)
    BY <1>0, <2>1, <2>2, Whole
  <2>4. /\ n[t] = count /\ v[t] = buf[i[t]]
        /\ i[t] = IF t \in Senders THEN tail ELSE head
    BY <2>1, <2>3 DEF Agrees, Working
  <2>5. CASE t \in Senders
    <3>1. Holds(head, i[t])' /\ tail' = NextIndex(i'[t])
      BY <2>1, <2>3, <2>4, <2>5 DEF Holds
    <3> QED BY <1>0, <2>1, <2>2, <2>3, <2>4, <2>5, <3>1, AloneKeeps DEF Agrees, Working, Drained,
               NextIndex
  <2>6. CASE t \notin Senders
    <3>1. Holds(i[t], tail)' /\ head' = NextIndex(i'[t])
      BY <2>1, <2>3, <2>4, <2>6 DEF Holds
    <3> QED BY <1>0, <2>1, <2>2, <2>3, <2>4, <2>6, <3>1, AloneKeeps DEF Agrees, Working, Drained,
               NextIndex
  <2> QED BY <2>5, <2>6
<1>9. CASE WriteCount(t)
  <2>1. /\ pc[t] = "number" /\ pc' = [pc EXCEPT ![t] = "unlock"] /\ Busy(t)
        /\ UNCHANGED <<lock, head, tail, closed, buf, n, i, v, due, over>>
    BY <1>9 DEF WriteCount, Goto, locals, Busy
  <2>2. pc'[t] = "unlock"
    BY <2>1 DEF IInv, Types, TypeOK
  <2>3. /\ Agrees(t) /\ Drained /\ n[t] = count /\ v[t] = buf[i[t]]
        /\ IF t \in Senders THEN Holds(head, i[t]) /\ tail = NextIndex(i[t])
                            ELSE Holds(i[t], tail) /\ head = NextIndex(i[t])
    BY <1>0, <2>1 DEF Sound, Agrees, Working
  <2>4. Agrees(t)'
    BY <2>2 DEF Agrees, Working
  <2>5. due \in Nat /\ Len(sent) \in Nat /\ Len(received) \in Nat
    BY DEF IInv, Types, TypeOK
  <2>6. CASE t \in Senders
    <3>1. /\ count < Cap /\ count' = count + 1 /\ sent' = Append(sent, v[t])
          /\ received' = received
      BY <1>9, <2>1, <2>3, <2>6, Parties DEF WriteCount, IInv, Roles, Working
    <3>2. Holds(head, tail)'
      BY <2>1, <2>3, <2>6, <3>1, SentKeeps
    <3>3. Drained'
      BY <2>1, <2>3, <3>1 DEF Drained
    <3> QED BY <1>0, <2>1, <2>4, <3>2, <3>3, AloneKeeps
  <2>7. CASE t \in Receivers
    <3>1. /\ count > 0 /\ count' = count - 1 /\ received' = Append(received, v[t])
          /\ sent' = sent /\ t \notin Senders
      BY <1>9, <2>1, <2>3, <2>7, Parties DEF WriteCount, IInv, Roles, Working
    <3>2. Holds(head, tail)' /\ Len(received') = Len(received) + 1
      BY <2>1, <2>3, <3>1, ReceivedKeeps
    <3>3. Drained'
      BY <2>1, <2>3, <2>5, <3>2 DEF Drained
    <3> QED BY <1>0, <2>1, <2>4, <3>2, <3>3, AloneKeeps
  <2> QED BY <1>9, <2>6, <2>7 DEF WriteCount
<1>10. CASE ReadClosed(t)
  <2> DEFINE to == IF closed = 1 THEN "quit" ELSE "retry"
  <2>1. /\ pc[t] = "closed" /\ pc' = [pc EXCEPT ![t] = to]
        /\ UNCHANGED <<lock, count, head, tail, closed, buf, n, i, v, sent, received, due, over>>
    BY <1>10 DEF ReadClosed, Goto, shared, locals, history
  <2>2. /\ Busy(t) /\ pc'[t] = to /\ to \in {"quit", "retry"} /\ (to = "quit" => closed = 1)
    BY <2>1 DEF Busy, IInv, Types, TypeOK
  <2>3. Holds(head, tail) /\ Drained /\ Agrees(t)
    BY <1>0, <2>1, <2>2, Whole
  <2>4. Len(received) >= due
    <3>1. /\ count = 0 /\ Len(sent) = Len(received) + count
          /\ due \in 0 .. Len(sent) /\ Len(received) \in Nat
      BY <2>1, <2>3 DEF Agrees, Holds, IInv, Types, TypeOK
    <3> QED BY <3>1
  <2> HIDE DEF to
  <2>5. Agrees(t)'
    BY <2>1, <2>2, <2>4 DEF Agrees, Working
  <2>6. Holds(head, tail)' /\ Drained'
    BY <2>1, <2>3 DEF Holds, Drained
  <2> QED BY <1>0, <2>1, <2>2, <2>5, <2>6, AloneKeeps
<1>11. CASE WriteClosed(t)
  <2>1. /\ pc[t] = "flag" /\ pc' = [pc EXCEPT ![t] = "unlock"] /\ closed' = 1
        /\ (closed = 1 => due' = due)
        /\ UNCHANGED <<lock, count, head, tail, buf, n, i, v, sent, received, over>>
    BY <1>11 DEF WriteClosed, Goto, locals
  <2>2. Busy(t) /\ pc'[t] = "unlock"
    BY <2>1 DEF Busy, IInv, Types, TypeOK
  <2>3. Holds(head, tail) /\ Drained
    BY <1>0, <2>1, <2>2, Whole
  <2>4. Agrees(t)'
    BY <2>2 DEF Agrees, Working
  <2>5. Holds(head, tail)' /\ Drained'
    BY <2>1, <2>3 DEF Holds, Drained
  <2> QED BY <1>0, <2>1, <2>2, <2>4, <2>5, AloneKeeps
<1>12. CASE Return(t) \/ Retry(t)
  <2>1. PICK to \in {"idle", "test"} :
           /\ pc[t] \in {"unlock", "retry"} /\ pc' = [pc EXCEPT ![t] = to]
           /\ UNCHANGED <<count, head, tail, closed, buf, sent, received, due, over>>
    BY <1>12 DEF Return, Retry, Unlock, Goto
  <2>2. Busy(t) /\ pc[t] # "number" /\ pc'[t] = to
    BY <2>1 DEF Busy, IInv, Types, TypeOK
  <2>3. Holds(head, tail) /\ Drained
    BY <1>0, <2>1, <2>2, Whole
  <2>4. Agrees(t)'
    BY <2>2 DEF Agrees, Working
  <2>5. Holds(head, tail)' /\ Drained'
    BY <2>1, <2>3 DEF Holds, Drained
  <2> QED BY <1>0, <2>1, <2>2, <2>4, <2>5, AloneKeeps
<1>13. CASE Quit(t)
  <2>1. /\ pc[t] = "quit" /\ pc' = [pc EXCEPT ![t] = "idle"]
        /\ UNCHANGED <<count, head, tail, closed, buf, sent, received, due>>
    BY <1>13 DEF Quit, Unlock, Goto
  <2>2. Busy(t) /\ pc'[t] = "idle"
    BY <2>1 DEF Busy, IInv, Types, TypeOK
  <2>3. Holds(head, tail) /\ Agrees(t)
    BY <1>0, <2>1, <2>2, Whole
  <2>4. Agrees(t)'
    BY <2>2 DEF Agrees, Working
  <2>5. Holds(head, tail)' /\ Drained'
    BY <2>1, <2>3 DEF Holds, Drained, Agrees
  <2> QED BY <1>0, <2>1, <2>2, <2>4, <2>5, AloneKeeps
<1> QED BY <1>1, <1>2, <1>3, <1>4, <1>5, <1>6, <1>7, <1>8, <1>9, <1>10, <1>11, <1>12, <1>13
        DEF Step

-----------------------------------------------------------------------------

LEMMA Starts == ASSUME Init PROVE IInv
<1>1. Cap \in Nat \ {0} /\ 0 \in 0 .. Cap - 1 /\ Junk \in Messages
  BY ChannelAssumption DEF Messages
<1>2. calls \in [Threads -> Nat]
  BY ChannelAssumption DEF Init, Threads
<1>3. <<>> \in Seq(Messages) /\ Len(<<>>) = 0 /\ DOMAIN <<>> = {}
  OBVIOUS
<1>4. Types
  <2>1. /\ lock \in {0, 1} /\ closed \in {0, 1} /\ count \in 0 .. Cap
        /\ head \in 0 .. Cap - 1 /\ tail \in 0 .. Cap - 1
        /\ n \in [Threads -> 0 .. Cap] /\ i \in [Threads -> 0 .. Cap - 1]
    BY <1>1 DEF Init
  <2>2. /\ buf \in [0 .. Cap - 1 -> Messages] /\ v \in [Threads -> Messages]
        /\ calls \in [Threads -> Nat]
    BY <1>1, <1>2 DEF Init
  <2>3. /\ sent \in Seq(Messages) /\ received \in Seq(Messages) /\ due \in 0 .. Len(sent)
        /\ over \subseteq Receivers
        /\ \A k \in DOMAIN sent : sent[k] \in Messages
        /\ \A k \in DOMAIN received : received[k] \in Messages
    BY <1>3 DEF Init
  <2>4. pc \in [Threads -> {"idle", "test", "set", "count", "index", "slot", "advance",
                            "number", "closed", "flag", "unlock", "quit", "retry"}]
    BY DEF Init
  <2>5. raced \in BOOLEAN
    BY DEF Init
  <2> QED BY <2>1, <2>2, <2>3, <2>4, <2>5 DEF Types, TypeOK
<1>5. Roles
  BY DEF Init, Roles, Working
<1>6. Exclusive /\ \A t \in Threads : Agrees(t)
  BY DEF Init, Exclusive, Busy, Inside, Agrees, Working
<1>7. Ring
  <2>1. (0 + 0) % Cap = 0
    BY <1>1, Small
  <2> QED BY <1>3, <2>1 DEF Init, Ring, Holds
<1>8. Drained
  BY DEF Init, Drained
<1> QED BY <1>4, <1>5, <1>6, <1>7, <1>8 DEF IInv, Sound

LEMMA Keeps == ASSUME IInv, [Next]_vars PROVE IInv'
<1>1. CASE Next
  <2>1. PICK t \in Threads : Call(t) \/ Step(t)
    BY <1>1 DEF Next
  <2>2. Types' /\ Roles'
    BY <2>1, TypesKept, RolesKept DEF IInv
  <2>3. ~raced' => Sound'
    BY <2>1, SoundKept
  <2> QED BY <2>2, <2>3 DEF IInv
<1>2. CASE UNCHANGED vars
  <2> USE <1>2 DEF vars, shared, locals, history
  <2>1. Types' /\ Roles'
    BY DEF IInv, Types, TypeOK, Roles, Working
  <2>2. raced' = raced
    OBVIOUS
  <2>3. Exclusive' <=> Exclusive
    BY DEF Exclusive, Busy, Inside
  <2>4. \A t \in Threads : Agrees(t)' <=> Agrees(t)
    BY DEF Agrees, Working, Holds, NextIndex
  <2>5. (Ring' <=> Ring) /\ (Drained' <=> Drained)
    BY DEF Ring, Holds, Drained
  <2> QED BY <2>1, <2>2, <2>3, <2>4, <2>5 DEF IInv, Sound
<1> QED BY <1>1, <1>2

LEMMA Joins ==
    ASSUME NEW a \in Seq(Messages), NEW b \in Seq(Messages)
    PROVE  /\ a \o b \in Seq(Messages) /\ Len(a \o b) = Len(a) + Len(b)
           /\ \A k \in 1 .. Len(a) : (a \o b)[k] = a[k]
           /\ \A k \in 1 .. Len(b) : (a \o b)[Len(a) + k] = b[k]
OBVIOUS

(* What the pointwise ring says of the two sequences. *)
LEMMA Delivered == IInv => Delivers
<1> SUFFICES ASSUME IInv, ~raced
             PROVE  Exchange /\ (over # {} => Len(received) >= due)
  BY DEF Delivers, KeepsOrder, DrainedBeforeOver
<1>1. over # {} => Len(received) >= due
  BY DEF IInv, Sound, Drained
<1>2. ASSUME Inside = {} PROVE received \o Buffered = sent
  <2>1. Holds(head, tail)
    <3>1. \A t \in Threads : pc[t] # "number"
      BY <1>2 DEF Inside
    <3> QED BY <3>1 DEF IInv, Sound, Ring
  <2>2. /\ Cap \in Nat \ {0} /\ count \in Nat /\ head \in 0 .. Cap - 1
        /\ buf \in [0 .. Cap - 1 -> Messages]
        /\ sent \in Seq(Messages) /\ received \in Seq(Messages)
    BY ChannelAssumption DEF IInv, Types, TypeOK
  <2>3. \A k \in 1 .. count : Buffered[k] = buf[(head + k - 1) % Cap]
    BY DEF Buffered
  <2>4. Buffered \in Seq(Messages) /\ Len(Buffered) = count
    <3>1. ASSUME NEW k \in 1 .. count PROVE buf[(head + k - 1) % Cap] \in Messages
      <4>1. head + k - 1 \in Nat
        BY <2>2
      <4> QED BY <2>2, <4>1, InRange
    <3> QED BY <2>2, <3>1 DEF Buffered
  <2> HIDE DEF Buffered
  <2>5. /\ received \o Buffered \in Seq(Messages)
        /\ Len(received \o Buffered) = Len(received) + count
        /\ \A k \in 1 .. Len(received) : (received \o Buffered)[k] = received[k]
        /\ \A k \in 1 .. count : (received \o Buffered)[Len(received) + k] = Buffered[k]
    BY <2>2, <2>4, Joins
  <2>6. /\ Len(sent) = Len(received) + count
        /\ \A k \in 1 .. Len(received) : sent[k] = received[k]
        /\ \A k \in 1 .. count : sent[Len(received) + k] = buf[(head + k - 1) % Cap]
    BY <2>1 DEF Holds
  <2>7. ASSUME NEW k \in 1 .. Len(sent) PROVE (received \o Buffered)[k] = sent[k]
    <3>1. CASE k \in 1 .. Len(received)
      BY <2>5, <2>6, <3>1
    <3>2. CASE k \notin 1 .. Len(received)
      <4> DEFINE j == k - Len(received)
      <4>1. j \in 1 .. count /\ k = Len(received) + j
        BY <2>2, <2>6, <3>2
      <4> HIDE DEF j
      <4> QED BY <2>3, <2>5, <2>6, <4>1
    <3> QED BY <3>1, <3>2
  <2> DEFINE both == received \o Buffered
  <2>8. /\ both \in Seq(Messages) /\ Len(both) = Len(sent)
        /\ \A k \in 1 .. Len(sent) : both[k] = sent[k]
    BY <2>5, <2>6, <2>7
  <2> HIDE DEF both
  <2>9. both = sent
    BY <2>2, <2>8
  <2> QED BY <2>9 DEF both
<1> QED BY <1>1, <1>2 DEF Exchange

(* The inductive invariant of the channel: what every thread read under the *)
(* lock is still so while the lock excluded, and the ring holds what was    *)
(* sent and not received, also between the index and the count it stores.   *)
THEOREM ChannelStaysSound == Spec => []IInv
<1>1. Init => IInv
  BY Starts
<1>2. IInv /\ [Next]_vars => IInv'
  BY Keeps
<1> QED BY <1>1, <1>2, PTL DEF Spec

(* TypeOK for every set of threads and every ring, also after two threads   *)
(* held the lock at once: no count or index ever leaves the ring.           *)
THEOREM TypeCorrect == Spec => []TypeOK
<1>1. IInv => TypeOK
  BY DEF IInv, Types
<1> QED BY <1>1, ChannelStaysSound, PTL

(* channel_send, channel_recv and channel_close while the lock excluded:    *)
(* what was received followed by what is buffered is what was sent, and a   *)
(* receiver is told 0 only after everything sent before the close.          *)
THEOREM ChannelDelivers == Spec => []Delivers
<1> QED BY Delivered, ChannelStaysSound, PTL

=============================================================================
