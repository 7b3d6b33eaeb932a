--------------------------- MODULE GameSyncProofs ---------------------------
(***************************************************************************)
(* Proofs about module GameSync, for any intervals, cache, threads and     *)
(* bounds: what a diff is based on, whose contents the client's cache      *)
(* holds, and that the client only moves forward through states the server *)
(* had.                                                                    *)
(***************************************************************************)
EXTENDS GameSync, SequenceTheorems, WellFoundedInduction, TLAPS

TaskMessages ==
  Messages \cup [kind : {"confirm"}] \cup [kind : {"ack"}, id : Nat]
    \cup [kind : {"ping"}, ready : BOOLEAN]

Stores == UNION {[D -> Nat] : D \in SUBSET Nat}

Clients ==
  [stage : {"preload", "loading", "late", "running"}, bases : SUBSET Nat,
   stored : Stores, shown : Nat \X Nat, born : Nat, due : Nat, heard : SUBSET Nat,
   missed : BOOLEAN, refused : SUBSET (Nat \X Nat)]

(* TypeOK, with the types of the queues and of the client's record. *)
TypeInv ==
  /\ stage \in {"waiting", "running"}
  /\ org \in [row : BOOLEAN, state : {"Unknown", "Connected", "Disconnected"},
              ready : BOOLEAN, acked : Nat, paused : BOOLEAN]
  /\ game \in {"acks", "state", "send"}
  /\ net \in [healthy : BOOLEAN, ready : BOOLEAN, acked : Nat,
              full : 0..FullEvery + 1, diff : 0..DiffEvery + 1]
  /\ sent \in [next : Nat, ids : SUBSET Nat]
  /\ latest \in Nat \X Nat
  /\ tasks \in Seq(TaskMessages)
  /\ connected \in BOOLEAN
  /\ wire \in Seq(Messages)
  /\ client \in Clients

(* The stored snapshots are those from some id on, which is no later than  *)
(* the last ack unless the player was found missing in this frame.         *)
From(p) == sent.ids = p..(sent.next - 1)

SentInv ==
  /\ ~(game = "send" /\ ~net.healthy) => \E p \in 0..net.acked : From(p)
  /\ ~net.healthy /\ game # "send" => sent = NoSession
  /\ sent.next # 0 => latest[1] > 0 /\ sent.next = latest[2] + 1

(* A message is of a session, and the server had that state.               *)
Published(m) == m.of[1] > 0 /\ ~Before(latest, m.of)

MessageInv ==
  /\ \A i \in DOMAIN tasks : tasks[i].kind \in {"full", "diff"} => Published(tasks[i])
  /\ \A i \in DOMAIN wire : Published(wire[i])

(* What the cache holds is from sessions the client has heard of.  What a  *)
(* client that has heard of one only holds under an id is what the server  *)
(* took under it.                                                          *)
MixtureConfused ==
  (\E i \in DOMAIN client.stored : client.stored[i] = Mixture) => Confused

CacheInv ==
  /\ \A i \in DOMAIN client.stored : client.stored[i] \in client.heard \cup {Mixture}
  /\ Mixture \notin client.heard
  /\ MixtureConfused
  /\ Confused \/ ~Before(latest, client.shown)

SyncInv == TypeInv /\ SentInv /\ MessageInv /\ CacheInv

-----------------------------------------------------------------------------
(* Sequences and caches *)

LEMMA AppendElements ==
  ASSUME NEW S, NEW q \in Seq(S), NEW e \in S
  PROVE  /\ Append(q, e) \in Seq(S)
         /\ Len(Append(q, e)) = Len(q) + 1
         /\ Append(q, e)[Len(q) + 1] = e
         /\ \A j \in DOMAIN Append(q, e) :
              Append(q, e)[j] = e \/ (j \in DOMAIN q /\ Append(q, e)[j] = q[j])
OBVIOUS

LEMMA TailElements ==
  ASSUME NEW S, NEW q \in Seq(S), q # <<>>
  PROVE  /\ Tail(q) \in Seq(S) /\ Head(q) = q[1] /\ 1 \in DOMAIN q
         /\ \A j \in DOMAIN Tail(q) : j + 1 \in DOMAIN q /\ Tail(q)[j] = q[j + 1]
OBVIOUS

(* Taking out one element moves up those behind it.                        *)
LEMMA RemoveAtOrder ==
  ASSUME NEW S, NEW q \in Seq(S), NEW i \in 1..Len(q)
  PROVE  /\ RemoveAt(q, i) \in Seq(S)
         /\ Len(RemoveAt(q, i)) = Len(q) - 1
         /\ \A j \in 1..(Len(q) - 1) :
              RemoveAt(q, i)[j] = IF j < i THEN q[j] ELSE q[j + 1]
<1> DEFINE a == SubSeq(q, 1, i - 1)
           b == SubSeq(q, i + 1, Len(q))
<1>1. /\ a \in Seq(S) /\ Len(a) = i - 1
      /\ \A j \in 1..(i - 1) : a[j] = q[j]
  BY SubSeqProperties
<1>2. /\ b \in Seq(S) /\ Len(b) = Len(q) - i
      /\ \A j \in 1..(Len(q) - i) : b[j] = q[i + j]
  BY SubSeqProperties
<1> HIDE DEF a, b
<1>3. /\ a \o b \in Seq(S) /\ Len(a \o b) = Len(a) + Len(b)
      /\ \A j \in 1..Len(a) + Len(b) :
           (a \o b)[j] = IF j <= Len(a) THEN a[j] ELSE b[j - Len(a)]
  BY <1>1, <1>2, ConcatProperties
<1>4. ASSUME NEW j \in 1..(Len(q) - 1)
      PROVE  (a \o b)[j] = IF j < i THEN q[j] ELSE q[j + 1]
  <2>0. Len(q) \in Nat /\ j \in 1..Len(a) + Len(b)
    BY <1>1, <1>2
  <2>1. CASE j < i
    BY <1>1, <1>3, <2>0, <2>1
  <2>2. CASE ~(j < i)
    <3>1. (a \o b)[j] = b[j - (i - 1)] /\ j - (i - 1) \in 1..(Len(q) - i)
      BY <1>1, <1>2, <1>3, <2>0, <2>2, SMTT(30)
    <3>2. b[j - (i - 1)] = q[j + 1]
      BY <1>2, <2>0, <3>1
    <3>3. QED
      BY <2>2, <3>1, <3>2
  <2>3. QED
    BY <2>1, <2>2
<1>5. RemoveAt(q, i) = a \o b
  BY DEF RemoveAt, a, b
<1>6. a \o b \in Seq(S) /\ Len(a \o b) = Len(q) - 1
  BY <1>1, <1>2, <1>3
<1> QED
  BY ONLY <1>4, <1>5, <1>6

LEMMA RemoveAtElements ==
  ASSUME NEW S, NEW q \in Seq(S), NEW i \in 1..Len(q)
  PROVE  /\ RemoveAt(q, i) \in Seq(S)
         /\ \A j \in DOMAIN RemoveAt(q, i) :
              \E k \in DOMAIN q : RemoveAt(q, i)[j] = q[k]
<1>1. DOMAIN RemoveAt(q, i) = 1..(Len(q) - 1) /\ DOMAIN q = 1..Len(q)
  BY RemoveAtOrder
<1>2. ASSUME NEW j \in 1..(Len(q) - 1)
      PROVE  \E k \in DOMAIN q : RemoveAt(q, i)[j] = q[k]
  <2>1. RemoveAt(q, i)[j] = IF j < i THEN q[j] ELSE q[j + 1]
    BY RemoveAtOrder
  <2>2. j \in DOMAIN q /\ j + 1 \in DOMAIN q
    BY <1>1
  <2>3. QED
    BY <2>1, <2>2
<1>3. QED
  BY <1>1, <1>2, RemoveAtOrder

(* The caches are those of module GameSync, whatever the id that is least. *)
LEMMA EmplaceStores ==
  ASSUME NEW c \in Stores, NEW id \in Nat, NEW x \in Nat
  PROVE  /\ Emplace(c, id, x) \in Stores
         /\ DOMAIN Emplace(c, id, x) = DOMAIN c \cup {id}
         /\ \A j \in DOMAIN c \cup {id} :
              Emplace(c, id, x)[j] = x \/ (j \in DOMAIN c /\ Emplace(c, id, x)[j] = c[j])
         /\ Emplace(c, id, x)[id] \in Nat
<1>1. PICK D \in SUBSET Nat : c \in [D -> Nat]
  BY DEF Stores
<1>2. Emplace(c, id, x) \in [D \cup {id} -> Nat]
  BY <1>1 DEF Emplace
<1>3. D \cup {id} \in SUBSET Nat
  BY <1>1
<1>4. QED
  BY <1>1, <1>2, <1>3 DEF Stores, Emplace

LEMMA PurgedStores ==
  ASSUME NEW c \in Stores, NEW oldest
  PROVE  /\ Purged(c, oldest) \in Stores
         /\ DOMAIN Purged(c, oldest) \subseteq DOMAIN c
         /\ \A j \in DOMAIN Purged(c, oldest) : Purged(c, oldest)[j] = c[j]
<1>1. PICK D \in SUBSET Nat : c \in [D -> Nat]
  BY DEF Stores
<1> DEFINE K == {i \in DOMAIN c :
                   \/ i >= oldest
                   \/ Cardinality({j \in DOMAIN c : j < i}) % 2 = 1}
<1>2. K \in SUBSET D
  BY <1>1
<1>3. Purged(c, oldest) = [i \in K |-> c[i]]
  BY DEF Purged
<1> HIDE DEF K
<1>4. Purged(c, oldest) \in [K -> Nat]
  BY <1>1, <1>2, <1>3
<1>5. K \in SUBSET Nat
  BY <1>2
<1>6. QED
  BY <1>1, <1>2, <1>3, <1>4, <1>5 DEF Stores

-----------------------------------------------------------------------------
(* The game thread *)

(* With an ack and something kept, everything from the ack on is kept.     *)
LEMMA KeptFromAck ==
  ASSUME TypeInv, NEW p \in 0..net.acked, From(p)
  PROVE  /\ Kept = net.acked..(sent.next - 1)
         /\ Kept # {} => Least(Kept) = net.acked
<1>1. net.acked \in Nat /\ sent.next \in Nat /\ p \in Nat
  BY DEF TypeInv
<1>2. Kept = net.acked..(sent.next - 1)
  BY <1>1 DEF From, Kept
<1>3. ASSUME Kept # {} PROVE Least(Kept) = net.acked
  <2>1. net.acked \in Kept /\ \A j \in Kept : net.acked <= j
    BY <1>1, <1>2, <1>3
  <2>2. \A i \in Kept : (\A j \in Kept : i <= j) => i = net.acked
    BY <1>1, <1>2, <2>1
  <2>3. QED
    BY <2>1, <2>2 DEF Least
<1>4. QED
  BY <1>2, <1>3

(* The four ways the game thread can go; when it takes a snapshot, it      *)
(* takes the next one, and stores it above what it kept.                   *)
Takes(m, p) ==
  /\ m \in Messages /\ m.of = Taken
  /\ latest' = Taken
  /\ tasks' = Append(tasks, m)
  /\ sent'.next = sent.next + 1
  /\ sent' \in [next : Nat, ids : SUBSET Nat]
  /\ p \in 0..net.acked /\ sent'.ids = p..sent.next

LEMMA TakenIs ==
  ASSUME TypeInv, SentInv
  PROVE  /\ Taken \in Nat \X Nat /\ Taken[1] > 0 /\ Taken[2] = sent.next
         /\ \/ latest[1] > 0 /\ Taken = <<latest[1], latest[2] + 1>>
            \/ Taken = <<latest[1] + 1, 0>>
BY DEF TypeInv, SentInv, Taken

LEMMA SendIs ==
  ASSUME TypeInv, SentInv, game = "send", FrameSend
  PROVE  \/ \E m \in Messages, p \in 0..net.acked :
              /\ Takes(m, p)
              /\ m.kind = "diff" => /\ m.base = net.acked /\ m.base < sent.next
                                    /\ m.base \in sent.ids
         \/ /\ latest' = latest /\ tasks' = tasks /\ net' = net
            /\ sent' = NoSession /\ (~net.healthy \/ ~net.ready)
         \/ /\ latest' = latest /\ tasks' = tasks /\ net' = net
            /\ sent' = [sent EXCEPT !.ids = net.acked..(sent.next - 1)]
            /\ net.healthy
<1>0. net.acked \in Nat /\ sent.next \in Nat
  BY DEF TypeInv
<1>1. CASE SendNothing
  BY <1>1 DEF SendNothing
<1>2. ASSUME net.healthy
      PROVE  /\ Kept = net.acked..(sent.next - 1)
             /\ Kept # {} => Least(Kept) = net.acked
             /\ Kept \in SUBSET Nat
  BY <1>0, <1>2, KeptFromAck DEF SentInv
<1>3. CASE net.healthy /\ SendPeriodicFull
  <2> DEFINE m == [kind |-> "full", of |-> Taken]
  <2>1. m \in Messages
    BY TakenIs DEF Messages
  <2>2. /\ latest' = Taken /\ tasks' = Append(tasks, m)
        /\ sent' = [next |-> sent.next + 1, ids |-> Kept \cup {sent.next}]
    BY <1>3 DEF SendPeriodicFull, SendFull, Take
  <2>3. \E p \in 0..net.acked : Kept \cup {sent.next} = p..sent.next
    <3>1. CASE net.acked <= sent.next
      <4>1. Kept \cup {sent.next} = net.acked..sent.next
        BY <1>0, <1>2, <1>3, <3>1
      <4>2. QED
        BY <1>0, <4>1
    <3>2. CASE ~(net.acked <= sent.next)
      <4>1. Kept \cup {sent.next} = sent.next..sent.next
        BY <1>0, <1>2, <1>3, <3>2
      <4>2. QED
        BY <1>0, <3>2, <4>1
    <3>3. QED
      BY <3>1, <3>2
  <2>4. PICK p \in 0..net.acked : Kept \cup {sent.next} = p..sent.next
    BY <2>3
  <2>5. sent' \in [next : Nat, ids : SUBSET Nat]
    BY <1>0, <1>2, <1>3, <2>2
  <2>6. Takes(m, p)
    BY <2>1, <2>2, <2>4, <2>5 DEF Takes
  <2>7. QED
    BY <2>1, <2>6
<1>4. CASE net.healthy /\ SendDiffOrFull /\ Kept = {}
  <2> DEFINE m == [kind |-> "full", of |-> Taken]
  <2>1. m \in Messages
    BY TakenIs DEF Messages
  <2>2. /\ latest' = Taken /\ tasks' = Append(tasks, m)
        /\ sent' = [next |-> sent.next + 1, ids |-> {} \cup {sent.next}]
    BY <1>4 DEF SendDiffOrFull, SendFull, Take
  <2>3. sent.next \in 0..net.acked /\ {} \cup {sent.next} = sent.next..sent.next
    BY <1>0, <1>2, <1>4
  <2>4. sent' \in [next : Nat, ids : SUBSET Nat]
    BY <1>0, <2>2
  <2>5. Takes(m, sent.next)
    BY <2>1, <2>2, <2>3, <2>4 DEF Takes
  <2>6. QED
    BY <2>1, <2>3, <2>5
<1>5. CASE net.healthy /\ SendDiffOrFull /\ Kept # {}
  <2> DEFINE m == [kind |-> "diff", of |-> Taken, base |-> Least(Kept)]
  <2>0. Least(Kept) = net.acked /\ net.acked < sent.next
        /\ net.acked \in sent.ids
    <3>1. Least(Kept) = net.acked /\ net.acked < sent.next /\ net.acked \in Kept
      BY <1>0, <1>2, <1>5
    <3>2. QED
      BY <3>1 DEF Kept
  <2>1. /\ m \in Messages /\ m.base = net.acked /\ m.base < sent.next
        /\ m.base \in sent.ids
    BY <1>0, <2>0, TakenIs DEF Messages
  <2>2. /\ latest' = Taken /\ tasks' = Append(tasks, m)
        /\ sent' = [next |-> sent.next + 1, ids |-> Kept \cup {sent.next}]
    BY <1>5 DEF SendDiffOrFull, SendDiff, Take
  <2>3. net.acked \in 0..net.acked /\ Kept \cup {sent.next} = net.acked..sent.next
    BY <1>0, <1>2, <1>5
  <2>4. sent' \in [next : Nat, ids : SUBSET Nat]
    BY <1>0, <1>2, <1>5, <2>2
  <2>5. Takes(m, net.acked)
    BY <2>1, <2>2, <2>3, <2>4 DEF Takes
  <2>6. QED
    BY <2>1, <2>3, <2>5
<1>6. CASE net.healthy /\ SendNotYet
  BY <1>2, <1>6 DEF SendNotYet
<1>7. QED
  BY <1>1, <1>3, <1>4, <1>5, <1>6 DEF FrameSend

-----------------------------------------------------------------------------
(* Types *)

(* What the client does with a message leaves it a client; the stored      *)
(* contents are those it had, and the new one.                             *)
LEMMA HeardIs ==
  ASSUME TypeInv, NEW i \in DOMAIN wire
  PROVE  /\ Heard(i) \in Clients
         /\ Heard(i).heard = client.heard \cup {wire[i].of[1]}
         /\ Heard(i).stored = client.stored
         /\ Heard(i).shown = client.shown
         /\ wire[i] \in Messages
<1>1. wire[i] \in Messages
  BY DEF TypeInv
<1>2. wire[i].of[1] \in Nat
  BY <1>1 DEF Messages
<1>3. QED
  BY <1>1, <1>2 DEF TypeInv, Clients, Heard

LEMMA StoreFullIs ==
  ASSUME NEW c \in Clients, NEW x \in Nat, NEW id \in Nat
  PROVE  /\ StoreFull(c, x, id) \in Clients
         /\ StoreFull(c, x, id).heard = c.heard
         /\ StoreFull(c, x, id).shown = c.shown
         /\ \A j \in DOMAIN StoreFull(c, x, id).stored :
              \/ StoreFull(c, x, id).stored[j] = x
              \/ /\ j \in DOMAIN c.stored
                 /\ StoreFull(c, x, id).stored[j] = c.stored[j]
<1>0. c.stored \in Stores /\ c.bases \in SUBSET Nat
  BY DEF Clients
<1>1. CASE c.bases # {} /\ (id <= Least(c.bases) \/ id \in c.bases)
  BY <1>1 DEF StoreFull
<1>2. CASE ~(c.bases # {} /\ (id <= Least(c.bases) \/ id \in c.bases))
  <2> DEFINE full  == Cardinality(c.bases) = CacheSize
             bases == {id} \cup IF full THEN c.bases \ {Least(c.bases)}
                                ELSE c.bases
             purged == Purged(c.stored, Least(bases))
  <2>1. StoreFull(c, x, id) = [c EXCEPT !.bases = bases, !.stored = Emplace(purged, id, x)]
    BY <1>2 DEF StoreFull
  <2>2. bases \in SUBSET Nat
    BY <1>0
  <2>3. /\ purged \in Stores
        /\ DOMAIN purged \subseteq DOMAIN c.stored
        /\ \A j \in DOMAIN purged : purged[j] = c.stored[j]
    BY <1>0, PurgedStores
  <2> HIDE DEF bases, purged
  <2>4. /\ Emplace(purged, id, x) \in Stores
        /\ DOMAIN Emplace(purged, id, x) = DOMAIN purged \cup {id}
        /\ \A j \in DOMAIN purged \cup {id} :
              \/ Emplace(purged, id, x)[j] = x
              \/ j \in DOMAIN purged /\ Emplace(purged, id, x)[j] = purged[j]
    BY <2>3, EmplaceStores
  <2>5. /\ StoreFull(c, x, id) \in Clients
        /\ StoreFull(c, x, id).heard = c.heard
        /\ StoreFull(c, x, id).shown = c.shown
        /\ StoreFull(c, x, id).stored = Emplace(purged, id, x)
    BY <2>1, <2>2, <2>4 DEF Clients
  <2>6. QED
    BY <2>3, <2>4, <2>5
<1>3. QED
  BY <1>1, <1>2

LEMMA StoreDiffIs ==
  ASSUME NEW c \in Clients, NEW x \in Nat, NEW id \in Nat,
         NEW b \in DOMAIN c.stored
  PROVE  /\ StoreDiff(c, x, id, b) \in Clients
         /\ StoreDiff(c, x, id, b).heard = c.heard
         /\ StoreDiff(c, x, id, b).shown = c.shown
         /\ \A j \in DOMAIN StoreDiff(c, x, id, b).stored :
              \/ StoreDiff(c, x, id, b).stored[j] = x
              \/ StoreDiff(c, x, id, b).stored[j] = Mixture /\ c.stored[b] # x
              \/ /\ j \in DOMAIN c.stored
                 /\ StoreDiff(c, x, id, b).stored[j] = c.stored[j]
         /\ StoreDiff(c, x, id, b).stored[id] \in Nat
<1> DEFINE y == IF c.stored[b] = x THEN x ELSE Mixture
<1>1. c.stored \in Stores /\ y \in Nat
  BY DEF Clients, Mixture
<1>2. StoreDiff(c, x, id, b) = [c EXCEPT !.stored = Emplace(@, id, y)]
  BY DEF StoreDiff
<1>3. y = x \/ (y = Mixture /\ c.stored[b] # x)
  OBVIOUS
<1> HIDE DEF y
<1>4. /\ Emplace(c.stored, id, y) \in Stores
      /\ DOMAIN Emplace(c.stored, id, y) = DOMAIN c.stored \cup {id}
      /\ \A j \in DOMAIN c.stored \cup {id} :
           \/ Emplace(c.stored, id, y)[j] = y
           \/ j \in DOMAIN c.stored /\ Emplace(c.stored, id, y)[j] = c.stored[j]
      /\ Emplace(c.stored, id, y)[id] \in Nat
  BY <1>1, EmplaceStores
<1>5. /\ StoreDiff(c, x, id, b) \in Clients
      /\ StoreDiff(c, x, id, b).heard = c.heard
      /\ StoreDiff(c, x, id, b).shown = c.shown
      /\ StoreDiff(c, x, id, b).stored = Emplace(c.stored, id, y)
  BY <1>2, <1>4 DEF Clients
<1>6. QED
  BY <1>3, <1>4, <1>5

LEMMA ShowIs ==
  ASSUME NEW c \in Clients, NEW x \in Nat, NEW id \in Nat
  PROVE  /\ Show(c, x, id) \in Clients
         /\ Show(c, x, id).heard = c.heard
         /\ Show(c, x, id).stored = c.stored
         /\ \/ Show(c, x, id).shown = c.shown
            \/ Show(c, x, id).shown = <<x, id>> /\ Before(c.shown, <<x, id>>)
BY DEF Show, Clients

LEMMA NewClientIs ==
  ASSUME TypeInv
  PROVE  /\ NewClient \in Clients /\ DOMAIN NewClient.stored = {}
         /\ NewClient.heard = {} /\ NewClient.shown = Nothing
<1>1. <<>> \in Stores /\ DOMAIN <<>> = {}
  <2>1. <<>> \in [{} -> Nat]
    OBVIOUS
  <2>2. QED
    BY <2>1 DEF Stores
<1>2. latest[1] \in Nat /\ Nothing \in Nat \X Nat
  BY DEF TypeInv, Nothing
<1>3. QED
  BY <1>1, <1>2 DEF NewClient, Clients

(* What the client does with the message at i: it hears of its session,    *)
(* and stores and shows what the message gives it, or nothing.             *)
Hears(i) ==
  LET m == wire[i] IN
  /\ client' \in Clients
  /\ client'.heard = client.heard \cup {m.of[1]}
  /\ \/ client'.shown = client.shown
     \/ \E y \in Nat :
          /\ client'.shown = <<y, m.of[2]>> /\ Before(client.shown, <<y, m.of[2]>>)
          /\ y = m.of[1] \/ \E k \in DOMAIN client'.stored : client'.stored[k] = y
  /\ \A j \in DOMAIN client'.stored :
       \/ client'.stored[j] = m.of[1]
       \/ client'.stored[j] = Mixture
            /\ \E k \in DOMAIN client.stored : client.stored[k] # m.of[1]
       \/ j \in DOMAIN client.stored /\ client'.stored[j] = client.stored[j]

LEMMA ReceiveIs ==
  ASSUME TypeInv, NEW i \in 1..Parsers,
         Receive(i, "full") \/ Receive(i, "diff")
  PROVE  /\ i \in DOMAIN wire /\ i \in 1..Len(wire)
         /\ wire' \in Seq(Messages)
         /\ \A j \in DOMAIN wire' : \E k \in DOMAIN wire : wire'[j] = wire[k]
<1>1. i \in 1..Len(wire) /\ wire \in Seq(Messages) /\ i \in DOMAIN wire
  BY DEF TypeInv, Receive
<1>2. wire' = RemoveAt(wire, i)
  BY DEF Receive
<1>3. QED
  BY <1>1, <1>2, RemoveAtElements


LEMMA EarlyHears ==
  ASSUME TypeInv, NEW i \in 1..Parsers, ReceiveEarly(i) \/ RefuseDiff(i)
  PROVE  Hears(i) /\ tasks' = tasks
<1>1. i \in DOMAIN wire
  BY ReceiveIs DEF ReceiveEarly, RefuseDiff
<1>2. \/ client' = [Heard(i) EXCEPT !.missed = TRUE]
      \/ client' = [Heard(i) EXCEPT !.refused = @ \cup {wire[i].of}]
  BY DEF ReceiveEarly, RefuseDiff
<1>3. /\ client' \in Clients /\ client'.heard = Heard(i).heard
      /\ client'.stored = Heard(i).stored /\ client'.shown = Heard(i).shown
  <2>1. wire[i].of \in Nat \X Nat
    BY <1>1, HeardIs DEF Messages
  <2>2. PICK h \in Clients : h = Heard(i)
    BY <1>1, HeardIs
  <2>3. CASE client' = [h EXCEPT !.missed = TRUE]
    BY <2>2, <2>3 DEF Clients
  <2>4. CASE client' = [h EXCEPT !.refused = @ \cup {wire[i].of}]
    <3>1. h.refused \cup {wire[i].of} \in SUBSET (Nat \X Nat)
      BY <2>1 DEF Clients
    <3>2. QED
      BY <2>2, <2>4, <3>1 DEF Clients
  <2>5. QED
    BY <1>2, <2>2, <2>3, <2>4
<1>4. QED
  BY <1>1, <1>3, HeardIs DEF Hears, ReceiveEarly, RefuseDiff

LEMMA FullHears ==
  ASSUME TypeInv, NEW i \in 1..Parsers, ReceiveFull(i)
  PROVE  Hears(i)
<1>1. i \in DOMAIN wire
  BY ReceiveIs DEF ReceiveFull
<1>2. PICK x \in Nat, id \in Nat : wire[i].of = <<x, id>>
  BY <1>1, HeardIs DEF Messages
<1>3. wire[i].of[1] = x /\ wire[i].of[2] = id
  BY <1>2
<1> DEFINE c == StoreFull(Heard(i), x, id)
<1>4. client' = Show(c, x, id)
  BY <1>3 DEF ReceiveFull
<1>5. /\ c \in Clients /\ c.heard = client.heard \cup {x}
      /\ c.shown = client.shown
      /\ \A j \in DOMAIN c.stored :
           c.stored[j] = x \/ (j \in DOMAIN client.stored /\ c.stored[j] = client.stored[j])
  <2>1. PICK h \in Clients : h = Heard(i)
    BY <1>1, HeardIs
  <2>2. /\ h.heard = client.heard \cup {x}
        /\ h.stored = client.stored /\ h.shown = client.shown
    BY <1>1, <1>3, <2>1, HeardIs
  <2>3. c = StoreFull(h, x, id)
    BY <2>1
  <2> HIDE DEF c
  <2>4. /\ c \in Clients /\ c.heard = h.heard /\ c.shown = h.shown
        /\ \A j \in DOMAIN c.stored :
             \/ c.stored[j] = x
             \/ j \in DOMAIN h.stored /\ c.stored[j] = h.stored[j]
    <3>1. /\ StoreFull(h, x, id) \in Clients
          /\ StoreFull(h, x, id).heard = h.heard
          /\ StoreFull(h, x, id).shown = h.shown
          /\ \A j \in DOMAIN StoreFull(h, x, id).stored :
               \/ StoreFull(h, x, id).stored[j] = x
               \/ /\ j \in DOMAIN h.stored
                  /\ StoreFull(h, x, id).stored[j] = h.stored[j]
      BY ONLY StoreFullIs, h \in Clients, x \in Nat, id \in Nat
    <3>2. QED
      BY ONLY <2>3, <3>1
  <2>5. QED
    BY <2>2, <2>4
<1> HIDE DEF c
<1>6. /\ client' \in Clients /\ client'.heard = c.heard
      /\ client'.stored = c.stored
      /\ \/ client'.shown = c.shown
         \/ client'.shown = <<x, id>> /\ Before(c.shown, <<x, id>>)
  BY <1>4, <1>5, ShowIs
<1>7. QED
  BY <1>3, <1>5, <1>6 DEF Hears

LEMMA DiffHears ==
  ASSUME TypeInv, NEW i \in 1..Parsers, ReceiveDiff(i)
  PROVE  Hears(i)
<1>1. i \in DOMAIN wire
  BY ReceiveIs DEF ReceiveDiff
<1>2. PICK x \in Nat, id \in Nat : wire[i].of = <<x, id>>
  BY <1>1, HeardIs DEF Messages
<1>3. wire[i].of[1] = x /\ wire[i].of[2] = id
  BY <1>2
<1> DEFINE c == StoreDiff(Heard(i), x, id, wire[i].base)
<1>4. client' = Show(c, c.stored[id], id) /\ wire[i].base \in DOMAIN client.stored
  BY <1>3 DEF ReceiveDiff
<1>5. /\ c \in Clients /\ c.heard = client.heard \cup {x}
      /\ c.shown = client.shown
      /\ c.stored[id] \in Nat
      /\ \A j \in DOMAIN c.stored :
           \/ c.stored[j] = x
           \/ c.stored[j] = Mixture
                /\ \E k \in DOMAIN client.stored : client.stored[k] # x
           \/ j \in DOMAIN client.stored /\ c.stored[j] = client.stored[j]
  <2>1. PICK h \in Clients : h = Heard(i)
    BY <1>1, HeardIs
  <2>2. /\ h.heard = client.heard \cup {x}
        /\ h.stored = client.stored /\ h.shown = client.shown
    BY <1>1, <1>3, <2>1, HeardIs
  <2>3. PICK b \in DOMAIN h.stored : b = wire[i].base
    BY <1>4, <2>2
  <2>4. c = StoreDiff(h, x, id, b)
    BY <2>1, <2>3
  <2> HIDE DEF c
  <2>5. /\ c \in Clients /\ c.heard = h.heard /\ c.shown = h.shown
        /\ c.stored[id] \in Nat
        /\ \A j \in DOMAIN c.stored :
             \/ c.stored[j] = x
             \/ c.stored[j] = Mixture /\ h.stored[b] # x
             \/ j \in DOMAIN h.stored /\ c.stored[j] = h.stored[j]
    <3>1. /\ StoreDiff(h, x, id, b) \in Clients
          /\ StoreDiff(h, x, id, b).heard = h.heard
          /\ StoreDiff(h, x, id, b).shown = h.shown
          /\ StoreDiff(h, x, id, b).stored[id] \in Nat
          /\ \A j \in DOMAIN StoreDiff(h, x, id, b).stored :
               \/ StoreDiff(h, x, id, b).stored[j] = x
               \/ StoreDiff(h, x, id, b).stored[j] = Mixture /\ h.stored[b] # x
               \/ /\ j \in DOMAIN h.stored
                  /\ StoreDiff(h, x, id, b).stored[j] = h.stored[j]
      BY ONLY <2>1, <2>3, StoreDiffIs, h \in Clients, x \in Nat, id \in Nat,
              b \in DOMAIN h.stored
    <3>2. QED
      BY ONLY <2>4, <3>1
  <2>6. QED
    BY <2>2, <2>3, <2>5
<1>6. id \in DOMAIN c.stored
  BY <1>1, <1>4, HeardIs DEF StoreDiff, Emplace, Clients
<1> HIDE DEF c
<1>7. /\ client' \in Clients /\ client'.heard = c.heard
      /\ client'.stored = c.stored
      /\ \/ client'.shown = c.shown
         \/ client'.shown = <<c.stored[id], id>> /\ Before(c.shown, <<c.stored[id], id>>)
  BY <1>4, <1>5, ShowIs
<1>8. PICK y \in Nat : y = c.stored[id]
  BY <1>5
<1>9. QED
  BY <1>3, <1>5, <1>6, <1>7, <1>8 DEF Hears

-----------------------------------------------------------------------------
(* The inductive invariant *)

LEMMA SyncInvInit == Init => SyncInv
<1> SUFFICES ASSUME Init PROVE SyncInv
  OBVIOUS
<1> USE GameSyncAssumption
<1>1. latest = Nothing /\ latest \in Nat \X Nat /\ latest[1] = 0
  BY DEF Init, Nothing
<1>2. client = NewClient
  BY DEF Init
<1>3. client \in Clients /\ DOMAIN client.stored = {} /\ client.heard = {}
      /\ client.shown = Nothing
  <2>1. <<>> \in Stores
    <3>1. <<>> \in [{} -> Nat]
      OBVIOUS
    <3>2. QED
      BY <3>1 DEF Stores
  <2>2. QED
    BY <1>1, <1>2, <2>1 DEF NewClient, Clients, Nothing
<1>4. TypeInv
  <2>1. org \in [row : BOOLEAN, state : {"Unknown", "Connected", "Disconnected"},
                ready : BOOLEAN, acked : Nat, paused : BOOLEAN]
    BY DEF Init
  <2>2. net \in [healthy : BOOLEAN, ready : BOOLEAN, acked : Nat,
                full : 0..FullEvery + 1, diff : 0..DiffEvery + 1]
    <3>1. FullEvery + 1 \in 0..FullEvery + 1 /\ DiffEvery + 1 \in 0..DiffEvery + 1
      BY GameSyncAssumption
    <3>2. net = [healthy |-> FALSE, ready |-> FALSE, acked |-> 0,
                 full |-> FullEvery + 1, diff |-> DiffEvery + 1]
      BY DEF Init
    <3>3. QED
      BY <3>1, <3>2
  <2>3. sent \in [next : Nat, ids : SUBSET Nat]
    BY DEF Init, NoSession
  <2>4. tasks \in Seq(TaskMessages) /\ wire \in Seq(Messages)
    BY DEF Init
  <2>5. /\ stage \in {"waiting", "running"} /\ game \in {"acks", "state", "send"}
        /\ connected \in BOOLEAN
    BY DEF Init
  <2>6. QED
    BY <1>1, <1>3, <2>1, <2>2, <2>3, <2>4, <2>5 DEF TypeInv
<1>5. SentInv
  BY DEF Init, SentInv, NoSession, From
<1>6. MessageInv
  BY DEF Init, MessageInv
<1>7. CacheInv
  BY <1>1, <1>3 DEF CacheInv, MixtureConfused, Before, Nothing, Confused
<1>8. QED
  BY <1>4, <1>5, <1>6, <1>7 DEF SyncInv

(* The message a task takes from the task list. *)
LEMMA TaskIs ==
  ASSUME TypeInv, NEW kinds, TaskReady(kinds)
  PROVE  /\ tasks' \in Seq(TaskMessages) /\ 1 \in DOMAIN tasks
         /\ Head(tasks) = tasks[1] /\ Head(tasks) \in TaskMessages
         /\ Head(tasks).kind \in kinds
         /\ \A j \in DOMAIN tasks' : j + 1 \in DOMAIN tasks /\ tasks'[j] = tasks[j + 1]
<1>1. tasks \in Seq(TaskMessages) /\ tasks # <<>> /\ tasks' = Tail(tasks)
  BY DEF TypeInv, TaskReady
<1>2. QED
  BY <1>1, TailElements DEF TaskReady

(* The message SendMessage passes on. *)
LEMMA SendMessageIs ==
  ASSUME TypeInv, SendMessage
  PROVE  /\ wire' \in Seq(Messages)
         /\ Head(tasks) = tasks[1] /\ 1 \in DOMAIN tasks
         /\ tasks[1].kind \in {"full", "diff"}
         /\ \A j \in DOMAIN wire' :
              wire'[j] = tasks[1] \/ \E k \in DOMAIN wire : wire'[j] = wire[k]
<1>1. TaskReady({"full", "diff"})
  BY DEF SendMessage
<1>2. Head(tasks) \in Messages
  BY <1>1, TaskIs DEF TaskMessages
<1>3. wire \in Seq(Messages)
  BY DEF TypeInv
<1>4. Head(tasks) = tasks[1] /\ 1 \in DOMAIN tasks /\ tasks[1].kind \in {"full", "diff"}
  BY <1>1, TaskIs
<1>5. PICK m \in Messages : m = tasks[1]
  BY <1>2, <1>4
<1>6. CASE wire' = Append(wire, m)
  <2>1. /\ Append(wire, m) \in Seq(Messages)
        /\ \A j \in DOMAIN Append(wire, m) :
             \/ Append(wire, m)[j] = m
             \/ j \in DOMAIN wire /\ Append(wire, m)[j] = wire[j]
    BY <1>3, AppendElements
  <2>2. QED
    BY <1>4, <1>5, <1>6, <2>1
<1>7. CASE wire' = wire
  BY <1>3, <1>4, <1>7
<1>8. QED
  BY <1>4, <1>5, <1>6, <1>7 DEF SendMessage

(* What the game thread does to the player's entity in the last step.      *)
LEMMA SendNet ==
  ASSUME TypeInv, FrameSend
  PROVE  /\ net' \in [healthy : BOOLEAN, ready : BOOLEAN, acked : Nat,
                      full : 0..FullEvery + 1, diff : 0..DiffEvery + 1]
         /\ net'.acked = net.acked /\ net'.healthy = net.healthy
<1>1. \/ net' = net
      \/ net' = [net EXCEPT !.full = 0]
      \/ net' = [net EXCEPT !.diff = 0]
      \/ net' = [net EXCEPT !.full = 0, !.diff = 0]
  BY DEF FrameSend, SendNothing, SendPeriodicFull, SendDiffOrFull, SendNotYet
<1>2. /\ net \in [healthy : BOOLEAN, ready : BOOLEAN, acked : Nat,
                  full : 0..FullEvery + 1, diff : 0..DiffEvery + 1]
      /\ 0 \in 0..FullEvery + 1 /\ 0 \in 0..DiffEvery + 1
  BY GameSyncAssumption DEF TypeInv
<1>3. CASE net' = net
  BY <1>2, <1>3
<1>4. CASE net' = [net EXCEPT !.full = 0]
  BY <1>2, <1>4
<1>5. CASE net' = [net EXCEPT !.diff = 0]
  BY <1>2, <1>5
<1>6. CASE net' = [net EXCEPT !.full = 0, !.diff = 0]
  BY <1>2, <1>6
<1>7. QED
  BY <1>1, <1>3, <1>4, <1>5, <1>6

(* Ids and pings are appended to the task list. *)
LEMMA AppendTask ==
  ASSUME TypeInv, NEW e \in TaskMessages, tasks' = Append(tasks, e)
  PROVE  /\ tasks' \in Seq(TaskMessages)
         /\ \A j \in DOMAIN tasks' :
              tasks'[j] = e \/ (j \in DOMAIN tasks /\ tasks'[j] = tasks[j])
BY AppendElements DEF TypeInv

LEMMA PingIs ==
  ASSUME TypeInv, NEW ready \in BOOLEAN, SendPing(ready)
  PROVE  /\ tasks' \in Seq(TaskMessages)
         /\ \A j \in DOMAIN tasks' :
              \/ tasks'[j].kind = "ping"
              \/ j \in DOMAIN tasks /\ tasks'[j] = tasks[j]
<1>1. [kind |-> "ping", ready |-> ready] \in TaskMessages
  BY DEF TaskMessages
<1>2. tasks' = Append(tasks, [kind |-> "ping", ready |-> ready])
  BY DEF SendPing
<1>3. QED
  BY <1>1, <1>2, AppendTask

LEMMA AcknowledgeIs ==
  ASSUME TypeInv, NEW id \in Nat, Acknowledge(id)
  PROVE  /\ tasks' \in Seq(TaskMessages)
         /\ \A j \in DOMAIN tasks' :
              \/ tasks'[j].kind = "ack"
              \/ j \in DOMAIN tasks /\ tasks'[j] = tasks[j]
<1>1. [kind |-> "ack", id |-> id] \in TaskMessages
  BY DEF TaskMessages
<1>2. CASE tasks' = Append(tasks, [kind |-> "ack", id |-> id])
  BY <1>1, <1>2, AppendTask
<1>3. CASE tasks' = tasks
  BY <1>3 DEF TypeInv
<1>4. QED
  BY <1>2, <1>3 DEF Acknowledge

(* The client receives a message, in one of the four ways. *)
Receives(i) == ReceiveEarly(i) \/ ReceiveFull(i) \/ ReceiveDiff(i) \/ RefuseDiff(i)

LEMMA ReceivesIs ==
  ASSUME TypeInv, NEW i \in 1..Parsers, Receives(i)
  PROVE  /\ Hears(i) /\ i \in DOMAIN wire /\ wire[i] \in Messages
         /\ wire' \in Seq(Messages)
         /\ \A j \in DOMAIN wire' : \E k \in DOMAIN wire : wire'[j] = wire[k]
         /\ tasks' \in Seq(TaskMessages)
         /\ \A j \in DOMAIN tasks' :
              \/ tasks'[j].kind = "ack"
              \/ j \in DOMAIN tasks /\ tasks'[j] = tasks[j]
         /\ UNCHANGED <<serverVars, org, connected, conns>>
<1>1. Receive(i, "full") \/ Receive(i, "diff")
  BY DEF Receives, ReceiveEarly, ReceiveFull, ReceiveDiff, RefuseDiff
<1>2. /\ i \in DOMAIN wire /\ wire[i] \in Messages
      /\ wire' \in Seq(Messages)
      /\ \A j \in DOMAIN wire' : \E k \in DOMAIN wire : wire'[j] = wire[k]
  BY <1>1, ReceiveIs, HeardIs
<1>3. Hears(i)
  BY EarlyHears, FullHears, DiffHears DEF Receives
<1>4. wire[i].of[2] \in Nat
  BY <1>2 DEF Messages
<1>5. tasks' = tasks \/ Acknowledge(wire[i].of[2])
  BY EarlyHears DEF Receives, ReceiveFull, ReceiveDiff
<1>6. /\ tasks' \in Seq(TaskMessages)
      /\ \A j \in DOMAIN tasks' :
           \/ tasks'[j].kind = "ack"
           \/ j \in DOMAIN tasks /\ tasks'[j] = tasks[j]
  BY <1>4, <1>5, AcknowledgeIs DEF TypeInv
<1>7. UNCHANGED <<serverVars, org, connected, conns>>
  BY <1>1 DEF Receive
<1>8. QED
  BY <1>2, <1>3, <1>6, <1>7

ClientMoves == PreloadDone \/ LoadDone \/ Ping \/ LatePing

LEMMA ClientMovesIs ==
  ASSUME TypeInv, ClientMoves
  PROVE  /\ client' \in Clients /\ client'.heard = client.heard
         /\ client'.stored = client.stored /\ client'.shown = client.shown
         /\ tasks' \in Seq(TaskMessages)
         /\ \A j \in DOMAIN tasks' :
              \/ tasks'[j].kind = "ping"
              \/ j \in DOMAIN tasks /\ tasks'[j] = tasks[j]
         /\ UNCHANGED <<serverVars, org, connVars>>
<1>1. CASE PreloadDone \/ LoadDone
  BY <1>1 DEF PreloadDone, LoadDone, ClientStage, TypeInv, Clients
<1>2. CASE Ping
  <2>1. (client.stage \in {"running", "late"}) \in BOOLEAN
    OBVIOUS
  <2>2. QED
    BY <1>2, <2>1, PingIs DEF Ping, SendPing, TypeInv
<1>3. CASE LatePing
  BY <1>3, PingIs DEF LatePing, SendPing, TypeInv, Clients
<1>4. QED
  BY <1>1, <1>2, <1>3 DEF ClientMoves

-----------------------------------------------------------------------------
(* The steps *)

(* Other names for the disjuncts of Next. *)
LEMMA NextIs ==
  ASSUME Next
  PROVE  \/ FrameAcks \/ FrameState \/ FrameSend
         \/ TryConnect \/ Confirm \/ SendMessage \/ RecvAck \/ RecvPing
         \/ Disconnect \/ ClientMoves
         \/ \E i \in 1..Parsers : Receives(i)
BY DEF Next, ClientMoves, Receives

LEMMA SendTypes ==
  ASSUME TypeInv, SentInv, FrameSend
  PROVE  /\ latest' \in Nat \X Nat
         /\ sent' \in [next : Nat, ids : SUBSET Nat]
         /\ tasks' \in Seq(TaskMessages)
<1>0. net.acked \in Nat /\ sent.next \in Nat /\ game = "send"
  BY DEF TypeInv, FrameSend
<1>1. CASE \E m \in Messages, p \in 0..net.acked : Takes(m, p)
  <2>1. PICK m \in Messages, p \in 0..net.acked : Takes(m, p)
    BY <1>1
  <2>2. m \in TaskMessages
    BY DEF TaskMessages
  <2>3. QED
    BY <2>1, <2>2, TakenIs, AppendTask DEF Takes
<1>2. CASE latest' = latest /\ tasks' = tasks
            /\ (sent' = NoSession
                 \/ sent' = [sent EXCEPT !.ids = net.acked..(sent.next - 1)])
  <2>1. net.acked..(sent.next - 1) \in SUBSET Nat
    BY <1>0
  <2>2. NoSession \in [next : Nat, ids : SUBSET Nat]
    BY DEF NoSession
  <2>3. QED
    BY <1>2, <2>1, <2>2 DEF TypeInv
<1>3. QED
  BY <1>0, <1>1, <1>2, SendIs

LEMMA TypesKept ==
  ASSUME TypeInv, SentInv, Next
  PROVE  TypeInv'
<1> USE DEF serverVars, connVars
<1>1. CASE FrameAcks
  <2>1. net' \in [healthy : BOOLEAN, ready : BOOLEAN, acked : Nat,
                  full : 0..FullEvery + 1, diff : 0..DiffEvery + 1]
    <3>1. /\ OneMore(net.full, FullEvery) \in 0..FullEvery + 1
          /\ OneMore(net.diff, DiffEvery) \in 0..DiffEvery + 1
          /\ Later(net.acked, org.acked) \in Nat
      <4>1. FullEvery \in Nat /\ DiffEvery \in Nat
        BY GameSyncAssumption
      <4>2. /\ net.full \in 0..FullEvery + 1 /\ net.diff \in 0..DiffEvery + 1
            /\ net.acked \in Nat /\ org.acked \in Nat
        BY DEF TypeInv
      <4>3. OneMore(net.full, FullEvery) \in 0..FullEvery + 1
        BY ONLY <4>1, <4>2 DEF OneMore
      <4>4. OneMore(net.diff, DiffEvery) \in 0..DiffEvery + 1
        BY ONLY <4>1, <4>2 DEF OneMore
      <4>5. QED
        BY ONLY <4>2, <4>3, <4>4 DEF Later
    <3>2. PICK a \in Nat :
            net' = [net EXCEPT !.full = OneMore(net.full, FullEvery),
                               !.diff = OneMore(net.diff, DiffEvery),
                               !.acked = a]
      <4>1. net.acked \in Nat
        BY DEF TypeInv
      <4>2. net' = [net EXCEPT !.full = OneMore(net.full, FullEvery),
                               !.diff = OneMore(net.diff, DiffEvery),
                               !.acked = IF stage = "running"
                                         THEN Later(net.acked, org.acked)
                                         ELSE net.acked]
        BY <1>1 DEF FrameAcks
      <4>3. QED
        BY <3>1, <4>1, <4>2
    <3>3. QED
      BY <3>1, <3>2 DEF TypeInv
  <2>2. QED
    BY <1>1, <2>1 DEF FrameAcks, TypeInv
<1>2. CASE FrameState
  <2>1. net' \in [healthy : BOOLEAN, ready : BOOLEAN, acked : Nat,
                  full : 0..FullEvery + 1, diff : 0..DiffEvery + 1]
    <3>1. FullEvery + 1 \in 0..FullEvery + 1 /\ DiffEvery + 1 \in 0..DiffEvery + 1
      BY GameSyncAssumption
    <3>2. org.ready \in BOOLEAN
      BY DEF TypeInv
    <3>3. CASE net' = [net EXCEPT !.healthy = TRUE, !.ready = org.ready]
      BY <3>2, <3>3 DEF TypeInv
    <3>4. CASE net' = [healthy |-> FALSE, ready |-> org.ready, acked |-> 0,
                       full |-> FullEvery + 1, diff |-> DiffEvery + 1]
      BY <3>1, <3>2, <3>4
    <3>5. QED
      BY <1>2, <3>3, <3>4 DEF FrameState
  <2>2. QED
    BY <1>2, <2>1 DEF FrameState, TypeInv
<1>3. CASE FrameSend
  <2>1. stage' \in {"waiting", "running"} /\ game' = "acks"
    BY <1>3 DEF FrameSend, TypeInv
  <2>2. QED
    BY <1>3, <2>1, SendTypes, SendNet DEF FrameSend, TypeInv
<1>4. CASE TryConnect
  <2>1. [kind |-> "confirm"] \in TaskMessages
    BY DEF TaskMessages
  <2>2. tasks' \in Seq(TaskMessages)
    BY <1>4, <2>1, AppendTask DEF TryConnect
  <2>3. QED
    BY <1>4, <2>2 DEF TryConnect, AddPlayer, TypeInv
<1>5. ASSUME NEW state \in {"Connected", "Disconnected"}, SetNetServerState(state)
      PROVE  org' \in [row : BOOLEAN, state : {"Unknown", "Connected", "Disconnected"},
                       ready : BOOLEAN, acked : Nat, paused : BOOLEAN]
  <2>1. (org.ready /\ state # "Disconnected") \in BOOLEAN
    BY DEF TypeInv
  <2>2. QED
    BY <1>5, <2>1 DEF SetNetServerState, TypeInv
<1>6. CASE Confirm
  <2>1. tasks' \in Seq(TaskMessages)
    BY <1>6, TaskIs DEF Confirm
  <2>2. wire' \in Seq(Messages) /\ connected' \in BOOLEAN
    BY <1>6 DEF Confirm
  <2>3. QED
    BY <1>5, <1>6, <2>1, <2>2, NewClientIs DEF Confirm, TypeInv
<1>7. CASE Disconnect
  <2>1. wire' \in Seq(Messages) /\ connected' \in BOOLEAN /\ tasks' = tasks
    <3>1. wire' \in Seq(Messages)
      BY <1>7 DEF Disconnect
    <3>2. ~connected'
      BY <1>7 DEF Disconnect
    <3>3. connected' \in BOOLEAN /\ tasks' = tasks
      BY <1>7, <3>2 DEF Disconnect
    <3>4. QED
      BY <3>1, <3>3
  <2>2. QED
    BY <1>5, <1>7, <2>1, NewClientIs DEF Disconnect, TypeInv
<1>8. CASE SendMessage
  <2>1. tasks' \in Seq(TaskMessages)
    BY <1>8, TaskIs DEF SendMessage
  <2>2. QED
    BY <1>8, <2>1, SendMessageIs DEF SendMessage, TypeInv
<1>9. CASE RecvAck
  <2>1. tasks' \in Seq(TaskMessages)
    BY <1>9, TaskIs DEF RecvAck
  <2>2. Head(tasks).id \in Nat
    <3>1. Head(tasks) \in TaskMessages /\ Head(tasks).kind = "ack"
      BY <1>9, TaskIs DEF RecvAck
    <3>2. QED
      BY <3>1 DEF TaskMessages, Messages
  <2>3. Later(org.acked, Head(tasks).id) \in Nat
    BY <2>2 DEF Later, TypeInv
  <2>4. QED
    BY <1>9, <2>1, <2>3 DEF RecvAck, SnapshotReceived, TypeInv
<1>10. CASE RecvPing
  <2>1. tasks' \in Seq(TaskMessages)
    BY <1>10, TaskIs DEF RecvPing
  <2>2. Head(tasks).ready \in BOOLEAN
    <3>1. Head(tasks) \in TaskMessages /\ Head(tasks).kind = "ping"
      BY <1>10, TaskIs DEF RecvPing
    <3>2. QED
      BY <3>1 DEF TaskMessages, Messages
  <2>3. QED
    BY <1>10, <2>1, <2>2 DEF RecvPing, HandlePing, TypeInv
<1>11. CASE ClientMoves
  BY <1>11, ClientMovesIs DEF TypeInv
<1>12. CASE \E i \in 1..Parsers : Receives(i)
  <2>1. PICK i \in 1..Parsers : Receives(i)
    BY <1>12
  <2>2. QED
    BY <2>1, ReceivesIs DEF TypeInv, Hears
<1>13. QED
  BY <1>1, <1>2, <1>3, <1>4, <1>6, <1>7, <1>8, <1>9, <1>10, <1>11, <1>12, NextIs

LEMMA SentKept ==
  ASSUME TypeInv, SentInv, Next
  PROVE  SentInv'
<1>0. net.acked \in Nat /\ sent.next \in Nat
  BY DEF TypeInv
<1>1. CASE FrameAcks
  <2>1. /\ net'.acked = IF stage = "running" THEN Later(net.acked, org.acked)
                        ELSE net.acked
        /\ net'.healthy = net.healthy /\ sent' = sent /\ latest' = latest
        /\ game = "acks" /\ game' = "state"
    BY <1>1 DEF FrameAcks, TypeInv
  <2>2. net'.acked >= net.acked /\ net'.acked \in Nat
    BY <1>0, <2>1 DEF Later, TypeInv
  <2>3. \E p \in 0..net'.acked : From(p)
    BY <1>0, <2>1, <2>2 DEF SentInv
  <2>4. QED
    BY <2>1, <2>3 DEF SentInv, From
<1>2. CASE FrameState
  <2>1. /\ sent' = sent /\ latest' = latest /\ game = "state" /\ game' = "send"
        /\ net'.healthy => net'.acked = net.acked
    BY <1>2 DEF FrameState, TypeInv
  <2>2. \E p \in 0..net.acked : From(p)
    BY <2>1 DEF SentInv
  <2>3. QED
    BY <2>1, <2>2 DEF SentInv, From
<1>3. CASE FrameSend
  <2>1. /\ net'.acked = net.acked /\ net'.healthy = net.healthy
        /\ game = "send" /\ game' = "acks"
    BY <1>3, SendNet DEF FrameSend
  <2>2. CASE \E m \in Messages, p \in 0..net.acked : Takes(m, p)
    <3>1. PICK m \in Messages, p \in 0..net.acked : Takes(m, p)
      BY <2>2
    <3>2. From(p)'
      BY <1>0, <3>1 DEF Takes, From
    <3>3. sent'.next = latest'[2] + 1 /\ latest'[1] > 0
      BY <1>0, <3>1, TakenIs DEF Takes
    <3>4. CASE net.healthy
      BY <2>1, <3>1, <3>2, <3>3, <3>4 DEF SentInv
    <3>5. CASE ~net.healthy
      <4>1. latest' = latest
        BY <1>3, <3>5 DEF FrameSend, SendNothing
      <4>2. latest' # latest
        <5>1. PICK l1 \in Nat, l2 \in Nat : latest = <<l1, l2>>
          BY DEF TypeInv
        <5>2. Taken # <<l1, l2>>
          BY <5>1, TakenIs
        <5>3. QED
          BY <3>1, <5>1, <5>2 DEF Takes
      <4>3. QED
        BY <4>1, <4>2
    <3>6. QED
      BY <3>4, <3>5
  <2>3. CASE latest' = latest /\ sent' = NoSession
    <3>1. From(0)' /\ 0 \in 0..net.acked
      BY <1>0, <2>3 DEF NoSession, From
    <3>2. QED
      BY <2>1, <2>3, <3>1 DEF SentInv, NoSession
  <2>4. CASE /\ latest' = latest /\ net.healthy
             /\ sent' = [sent EXCEPT !.ids = net.acked..(sent.next - 1)]
    <3>1. sent'.next = sent.next /\ sent'.ids = net.acked..(sent.next - 1)
      BY <2>4 DEF TypeInv
    <3>2. From(net.acked)' /\ net.acked \in 0..net.acked
      BY <1>0, <2>1, <3>1 DEF From
    <3>3. QED
      BY <2>1, <2>4, <3>1, <3>2 DEF SentInv
  <2>5. QED
    BY <1>3, <2>1, <2>2, <2>3, <2>4, SendIs
<1>4. CASE UNCHANGED serverVars
  BY <1>4 DEF serverVars, SentInv, From
<1>5. QED
  BY <1>1, <1>2, <1>3, <1>4, NextIs, ReceivesIs, ClientMovesIs
     DEF TryConnect, Confirm, SendMessage, RecvAck, RecvPing, Disconnect

(* The order of the states, and that the server only goes forward.         *)
LEMMA BeforeIsOrder ==
  ASSUME NEW a \in Nat \X Nat, NEW b \in Nat \X Nat, NEW c \in Nat \X Nat
  PROVE  /\ ~Before(a, a)
         /\ Before(a, b) /\ Before(b, c) => Before(a, c)
         /\ Before(a, b) /\ ~Before(c, b) => Before(a, c)
BY DEF Before

PublishedNext(m) == m.of[1] > 0 /\ ~Before(latest', m.of)

LEMMA LatestGrows ==
  ASSUME TypeInv, SentInv, Next
  PROVE  /\ latest' \in Nat \X Nat
         /\ latest' = latest \/ Before(latest, latest')
         /\ \A m \in Messages : Published(m) => PublishedNext(m)
<1>1. latest' = latest \/ latest' = Taken
  BY NextIs, SendIs, ReceivesIs, ClientMovesIs
     DEF TryConnect, Confirm, SendMessage, RecvAck, RecvPing, Disconnect,
         FrameAcks, FrameState, FrameSend, Takes, serverVars
<1>2. latest \in Nat \X Nat /\ Taken \in Nat \X Nat /\ Before(latest, Taken)
  BY TakenIs DEF TypeInv, Before
<1>3. \A m \in Messages : m.of \in Nat \X Nat
  BY DEF Messages
<1>4. \A m \in Messages : ~Before(latest, m.of) => ~Before(latest', m.of)
  BY <1>1, <1>2, <1>3, BeforeIsOrder
<1>5. QED
  BY <1>1, <1>2, <1>4 DEF Published, PublishedNext

LEMMA MessagesKept ==
  ASSUME TypeInv, SentInv, MessageInv, Next
  PROVE  MessageInv'
<1> DEFINE Fine(m) == m.kind \in {"full", "diff"} => PublishedNext(m)
<1>1. /\ \A j \in DOMAIN tasks : Fine(tasks[j])
      /\ \A j \in DOMAIN wire : wire[j] \in Messages /\ PublishedNext(wire[j])
  <2>1. \A j \in DOMAIN tasks : tasks[j].kind \in {"full", "diff"} => tasks[j] \in Messages
    BY DEF TypeInv, TaskMessages, Messages
  <2>2. \A j \in DOMAIN wire : wire[j] \in Messages
    BY DEF TypeInv
  <2>3. QED
    BY <2>1, <2>2, LatestGrows DEF MessageInv
<1>2. \A j \in DOMAIN tasks' :
        \/ \E k \in DOMAIN tasks : tasks'[j] = tasks[k]
        \/ tasks'[j].kind \in {"ack", "ping", "confirm"}
        \/ FrameSend /\ tasks'[j] \in Messages /\ tasks'[j].of = latest' /\ latest'[1] > 0
  <2>1. CASE FrameSend
    <3>1. CASE \E m \in Messages, p \in 0..net.acked : Takes(m, p)
      <4>1. PICK m \in Messages, p \in 0..net.acked : Takes(m, p)
        BY <3>1
      <4>2. m \in TaskMessages
        BY DEF TaskMessages
      <4>3. \A j \in DOMAIN tasks' :
              tasks'[j] = m \/ (j \in DOMAIN tasks /\ tasks'[j] = tasks[j])
        BY <4>1, <4>2, AppendTask DEF Takes
      <4>4. QED
        BY <2>1, <4>1, <4>3, TakenIs DEF Takes
    <3>2. CASE tasks' = tasks
      BY <3>2
    <3>3. QED
      BY <2>1, <3>1, <3>2, SendIs DEF FrameSend
  <2>2. CASE TryConnect
    <3>1. [kind |-> "confirm"] \in TaskMessages
      BY DEF TaskMessages
    <3>2. QED
      BY <2>2, <3>1, AppendTask DEF TryConnect
  <2>3. ASSUME NEW kinds, TaskReady(kinds)
        PROVE  \A j \in DOMAIN tasks' : \E k \in DOMAIN tasks : tasks'[j] = tasks[k]
    BY <2>3, TaskIs
  <2>4. CASE Confirm \/ SendMessage \/ RecvAck \/ RecvPing
    BY <2>3, <2>4 DEF Confirm, SendMessage, RecvAck, RecvPing
  <2>5. CASE ClientMoves
    BY <2>5, ClientMovesIs
  <2>6. CASE \E i \in 1..Parsers : Receives(i)
    BY <2>6, ReceivesIs
  <2>7. CASE tasks' = tasks
    BY <2>7
  <2>8. QED
    BY <2>1, <2>2, <2>4, <2>5, <2>6, <2>7, NextIs
       DEF FrameAcks, FrameState, Disconnect
<1>3. ASSUME NEW m \in Messages, m.of = latest', latest'[1] > 0
      PROVE  PublishedNext(m)
  BY <1>3, LatestGrows, BeforeIsOrder DEF PublishedNext
<1>4. \A j \in DOMAIN tasks' : Fine(tasks'[j])
  BY <1>1, <1>2, <1>3
<1>5. \A j \in DOMAIN wire' :
        \/ \E k \in DOMAIN wire : wire'[j] = wire[k]
        \/ 1 \in DOMAIN tasks /\ wire'[j] = tasks[1] /\ tasks[1].kind \in {"full", "diff"}
  <2>1. CASE SendMessage
    BY <2>1, SendMessageIs
  <2>2. CASE Confirm \/ Disconnect
    BY <2>2 DEF Confirm, Disconnect
  <2>3. CASE \E i \in 1..Parsers : Receives(i)
    BY <2>3, ReceivesIs
  <2>4. CASE wire' = wire
    BY <2>4
  <2>5. QED
    BY <2>1, <2>2, <2>3, <2>4, NextIs, ClientMovesIs
       DEF FrameAcks, FrameState, FrameSend, TryConnect, RecvAck, RecvPing, connVars
<1>6. \A j \in DOMAIN wire' : PublishedNext(wire'[j])
  BY <1>1, <1>5
<1>7. QED
  BY <1>4, <1>6 DEF MessageInv, Published, PublishedNext

-----------------------------------------------------------------------------
(* The cache *)

(* After a message, the cache of a client that has heard of one session    *)
(* only is of this session, and so is what it shows.                       *)
LEMMA HearsContents ==
  ASSUME TypeInv, CacheInv, NEW i \in DOMAIN wire, wire[i] \in Messages,
         Published(wire[i]), Hears(i)
  PROVE  /\ \A j \in DOMAIN client'.stored :
              client'.stored[j] \in client'.heard \cup {Mixture}
         /\ Mixture \notin client'.heard
         /\ ~Confused' => /\ ~Confused
                          /\ \A j \in DOMAIN client'.stored :
                               client'.stored[j] = wire[i].of[1]
<1>1. PICK x \in Nat, id \in Nat : wire[i].of = <<x, id>>
  BY DEF Messages
<1>2. x = wire[i].of[1] /\ x # Mixture
  BY <1>1 DEF Published, Mixture
<1>3. client'.heard = client.heard \cup {x}
  BY <1>2 DEF Hears
<1>4. \A j \in DOMAIN client'.stored :
        \/ client'.stored[j] = x
        \/ client'.stored[j] = Mixture
             /\ \E k \in DOMAIN client.stored : client.stored[k] # x
        \/ j \in DOMAIN client.stored /\ client'.stored[j] = client.stored[j]
  BY <1>2 DEF Hears
<1>5. /\ \A j \in DOMAIN client.stored : client.stored[j] \in client.heard \cup {Mixture}
      /\ Mixture \notin client.heard
      /\ (\E j \in DOMAIN client.stored : client.stored[j] = Mixture) => Confused
  BY DEF CacheInv, MixtureConfused
<1>6. Confused => Confused'
  BY <1>3 DEF Confused
<1>7. ASSUME ~Confused' PROVE \A j \in DOMAIN client.stored : client.stored[j] = x
  <2>1. \A y \in client.heard : y = x
    BY <1>3, <1>7 DEF Confused
  <2>2. QED
    BY <1>5, <1>6, <1>7, <2>1
<1>8. QED
  BY <1>2, <1>3, <1>4, <1>5, <1>6, <1>7

LEMMA HearsShown ==
  ASSUME TypeInv, CacheInv, NEW i \in DOMAIN wire, wire[i] \in Messages,
         Published(wire[i]), Hears(i), ~Confused'
  PROVE  /\ ~Confused
         /\ \/ client'.shown = client.shown
            \/ /\ Before(client.shown, client'.shown)
               /\ ~Before(latest, client'.shown)
<1>1. PICK x \in Nat, id \in Nat : wire[i].of = <<x, id>>
  BY DEF Messages
<1>2. x = wire[i].of[1] /\ id = wire[i].of[2]
  BY <1>1
<1>3. ~Confused /\ \A j \in DOMAIN client'.stored : client'.stored[j] = x
  BY <1>2, HearsContents
<1>4. CASE client'.shown = client.shown
  BY <1>3, <1>4
<1>5. CASE client'.shown # client.shown
  <2>1. PICK y \in Nat :
          /\ client'.shown = <<y, id>> /\ Before(client.shown, <<y, id>>)
          /\ y = x \/ \E k \in DOMAIN client'.stored : client'.stored[k] = y
    BY <1>2, <1>5 DEF Hears
  <2>2. y = x
    BY <1>3, <2>1
  <2>3. ~Before(latest, <<x, id>>)
    BY <1>1 DEF Published
  <2>4. QED
    BY <1>3, <2>1, <2>2, <2>3
<1>6. QED
  BY <1>4, <1>5

LEMMA CachesKept ==
  ASSUME SyncInv, Next
  PROVE  CacheInv'
<1> USE DEF SyncInv
<1>1. CASE \E i \in 1..Parsers : Receives(i)
  <2>1. PICK i \in 1..Parsers : Receives(i)
    BY <1>1
  <2>2. /\ Hears(i) /\ i \in DOMAIN wire /\ wire[i] \in Messages
        /\ latest' = latest /\ Published(wire[i])
    BY <2>1, ReceivesIs DEF MessageInv, serverVars
  <2>3. /\ \A j \in DOMAIN client'.stored :
             client'.stored[j] \in client'.heard \cup {Mixture}
        /\ Mixture \notin client'.heard
    BY <2>2, HearsContents
  <2>4. MixtureConfused'
    <3>1. SUFFICES ASSUME ~Confused', NEW j \in DOMAIN client'.stored
                   PROVE  client'.stored[j] # Mixture
      BY DEF MixtureConfused
    <3>2. client'.stored[j] = wire[i].of[1] /\ wire[i].of[1] # Mixture
      BY <2>2, <3>1, HearsContents DEF Published, Mixture, Messages
    <3>3. QED
      BY <3>2
  <2>5. (Confused \/ ~Before(latest, client.shown))'
    <3>1. CASE ~Confused'
      <4>1. ~Confused /\ (\/ client'.shown = client.shown
                          \/ ~Before(latest, client'.shown))
        BY <2>2, <3>1, HearsShown
      <4>2. QED
        BY <2>2, <4>1 DEF CacheInv, Before
    <3>2. QED
      BY <3>1
  <2>6. QED
    BY <2>3, <2>4, <2>5 DEF CacheInv
<1>2. CASE client' = NewClient
  <2>1. DOMAIN client'.stored = {} /\ client'.heard = {} /\ client'.shown = Nothing
    BY <1>2, NewClientIs
  <2>2. ~Before(latest, Nothing)'
    BY LatestGrows DEF Before, Nothing
  <2>3. QED
    BY <2>1, <2>2 DEF CacheInv, MixtureConfused
<1>3. CASE /\ client'.heard = client.heard /\ client'.stored = client.stored
           /\ client'.shown = client.shown
  <2>1. Confused' = Confused
    BY <1>3 DEF Confused
  <2>2. ~Before(latest, client.shown) => ~Before(latest', client.shown)
    <3>1. client.shown \in Nat \X Nat /\ latest \in Nat \X Nat
      BY DEF TypeInv, Clients
    <3>2. QED
      BY <3>1, LatestGrows, BeforeIsOrder
  <2>3. QED
    BY <1>3, <2>1, <2>2 DEF CacheInv, MixtureConfused, Before
<1>4. QED
  BY <1>1, <1>2, <1>3, NextIs, ClientMovesIs
     DEF FrameAcks, FrameState, FrameSend, TryConnect, Confirm, SendMessage,
         RecvAck, RecvPing, Disconnect

(* The inductive invariant: where the stored snapshots begin, what the     *)
(* messages under way are, and whose contents the cache holds.             *)
THEOREM SyncInvariant == Spec => []SyncInv
<1>1. Init => SyncInv
  BY SyncInvInit
<1>2. SyncInv /\ [Next]_vars => SyncInv'
  <2> SUFFICES ASSUME SyncInv, [Next]_vars PROVE SyncInv'
    OBVIOUS
  <2>1. CASE Next
    BY <2>1, TypesKept, SentKept, MessagesKept, CachesKept DEF SyncInv
  <2>2. CASE UNCHANGED vars
    BY <2>2 DEF vars, serverVars, connVars, SyncInv, TypeInv, SentInv, From,
                MessageInv, Published, CacheInv, MixtureConfused,
                Confused, Before
  <2>3. QED
    BY <2>1, <2>2
<1>3. QED
  BY <1>1, <1>2, PTL DEF Spec

(* The base of a diff has the id of the last ack the game thread has seen  *)
(* (what QueueClientMessagesSystem takes is the least id that it kept),    *)
(* and is an earlier snapshot of the same session that is still stored.    *)
THEOREM SyncBases == Spec => BaseIsLastAck
<1> DEFINE Based == FrameSend /\ tasks' # tasks /\ Last(tasks').kind = "diff"
                      => /\ Last(tasks').base = net.acked
                         /\ net.acked \in sent.ids
                         /\ latest'[1] = latest[1] /\ net.acked < latest'[2]
<1>1. SyncInv /\ [Next]_vars => [Based]_vars
  <2> SUFFICES ASSUME SyncInv, FrameSend, tasks' # tasks, Last(tasks').kind = "diff"
               PROVE  /\ Last(tasks').base = net.acked
                      /\ net.acked \in sent.ids
                      /\ latest'[1] = latest[1] /\ net.acked < latest'[2]
    OBVIOUS
  <2>1. PICK m \in Messages :
          /\ tasks' = Append(tasks, m) /\ latest' = Taken
          /\ m.kind = "diff" => /\ m.base = net.acked /\ m.base < sent.next
                                /\ m.base \in sent.ids
    BY SendIs DEF SyncInv, FrameSend, Takes
  <2>2. m \in TaskMessages /\ tasks \in Seq(TaskMessages)
    BY DEF TaskMessages, SyncInv, TypeInv
  <2>3. Last(tasks') = m
    BY <2>1, <2>2, AppendElements DEF Last
  <2>4. net.acked \in Nat /\ sent.next \in Nat
    BY DEF SyncInv, TypeInv
  <2>5. latest'[1] = latest[1] /\ latest'[2] = sent.next
    BY <2>1, <2>3, <2>4 DEF Taken
  <2>6. QED
    BY <2>1, <2>3, <2>5
<1>2. QED
  BY <1>1, SyncInvariant, PTL DEF Spec, BaseIsLastAck

(* The last session that a client need not have begun.                     *)
Top == IF client.due # 0 THEN client.due ELSE client.born

(* While a client is connected and no ping takes the ready flag back, the  *)
(* server begins one more session at most, and the player stays what a     *)
(* session needs.                                                          *)
SessionInv ==
  /\ connected \/ (wire = <<>> /\ client.heard = {})
  /\ client.due \in {0, client.born + 1}
  /\ client.heard \subseteq 1..latest[1]
  /\ connected /\ ~org.paused =>
       /\ latest[1] > Top =>
            /\ latest[1] = Top + 1 /\ sent.next > 0
            /\ org.state = "Connected" /\ org.ready
            /\ game = "send" => net.healthy /\ net.ready
       /\ Beginning /\ latest[1] >= Top => org.state = "Connected" /\ org.ready

(* What the client does keeps the sessions it was born with.               *)
SameBirth == client'.born = client.born /\ client'.due = client.due

LEMMA ReceivesBirth ==
  ASSUME TypeInv, NEW i \in 1..Parsers, Receives(i)
  PROVE  SameBirth
<1>1. i \in DOMAIN wire /\ wire[i] \in Messages
  BY ReceivesIs
<1>2. PICK x \in Nat, id \in Nat : wire[i].of = <<x, id>>
  BY <1>1 DEF Messages
<1>3. wire[i].of[1] = x /\ wire[i].of[2] = id
  BY <1>2
<1>4. PICK h \in Clients : h = Heard(i)
  BY <1>1, HeardIs
<1>5. h.born = client.born /\ h.due = client.due /\ h.stored = client.stored
  BY <1>4 DEF Heard, TypeInv, Clients
<1>6. \A d \in Clients : \A y \in Nat :
        Show(d, y, id).born = d.born /\ Show(d, y, id).due = d.due
  BY DEF Show, Clients
<1>7. CASE ReceiveEarly(i) \/ RefuseDiff(i)
  <2>1. \/ client' = [h EXCEPT !.missed = TRUE]
        \/ client' = [h EXCEPT !.refused = @ \cup {wire[i].of}]
    BY <1>4, <1>7 DEF ReceiveEarly, RefuseDiff
  <2>2. QED
    BY <1>5, <2>1 DEF Clients, SameBirth
<1>8. CASE ReceiveFull(i)
  <2>1. client' = Show(StoreFull(h, x, id), x, id)
    BY <1>3, <1>4, <1>8 DEF ReceiveFull
  <2>2. StoreFull(h, x, id) \in Clients
    BY StoreFullIs
  <2>3. StoreFull(h, x, id).born = h.born /\ StoreFull(h, x, id).due = h.due
    BY DEF StoreFull, Clients
  <2>4. QED
    BY <1>5, <1>6, <2>1, <2>2, <2>3 DEF SameBirth
<1>9. CASE ReceiveDiff(i)
  <2>1. PICK b \in DOMAIN h.stored : b = wire[i].base
    BY <1>5, <1>9 DEF ReceiveDiff
  <2> DEFINE d == StoreDiff(h, x, id, b)
  <2>2. client' = Show(d, d.stored[id], id)
    BY <1>3, <1>4, <1>9, <2>1 DEF ReceiveDiff
  <2>3. d \in Clients /\ d.stored[id] \in Nat
    BY StoreDiffIs
  <2>4. d.born = h.born /\ d.due = h.due
    BY DEF StoreDiff, Clients
  <2> HIDE DEF d
  <2>5. QED
    BY <1>5, <1>6, <2>2, <2>3, <2>4 DEF SameBirth
<1>10. QED
  BY <1>7, <1>8, <1>9 DEF Receives

LEMMA SessionStep ==
  ASSUME SyncInv, SessionInv, [Next]_vars
  PROVE  SessionInv'
<1> USE DEF SyncInv, serverVars, connVars
<1>0. /\ latest \in Nat \X Nat /\ latest[1] \in Nat /\ sent.next \in Nat
      /\ client.born \in Nat /\ client.due \in Nat /\ Top \in Nat
      /\ connected \in BOOLEAN /\ client.heard \in SUBSET Nat
  BY DEF TypeInv, Clients, Top
<1>1. CASE /\ UNCHANGED <<latest, wire, connected, client, sent, org>>
           /\ ~Beginning' \/ (org.state = "Connected" /\ org.ready)
           /\ latest[1] > Top /\ game' = "send" /\ org.state = "Connected"
                 /\ org.ready => net'.healthy /\ net'.ready
  BY <1>1 DEF SessionInv, Top
<1>2. CASE FrameAcks
  BY <1>1, <1>2 DEF FrameAcks, Beginning
<1>3. CASE FrameState
  <2>1. /\ org.state = "Connected" => /\ net'.healthy = TRUE
                                      /\ net'.ready = org.ready
        /\ org.state # "Connected" => ~net'.healthy
    BY <1>3 DEF FrameState, TypeInv
  <2>2. org.ready \in BOOLEAN
    BY DEF TypeInv
  <2>3. QED
    BY <1>1, <1>3, <2>1, <2>2 DEF FrameState, Beginning
<1>4. CASE FrameSend
  <2>1. /\ game = "send" /\ game' = "acks"
        /\ UNCHANGED <<org, connected, wire, client>>
    BY <1>4 DEF FrameSend
  <2>2. Top' = Top /\ ~Beginning'
    BY <2>1 DEF Top, Beginning
  <2>3. CASE SendNothing
    <3>1. latest' = latest /\ (~net.healthy \/ ~net.ready)
      BY <2>3 DEF SendNothing
    <3>2. QED
      BY <2>1, <2>2, <3>1 DEF SessionInv
  <2>4. CASE net.healthy /\ net.ready /\ SendNotYet
    <3>1. latest' = latest /\ sent'.next = sent.next
      BY <2>4 DEF SendNotYet, TypeInv
    <3>2. QED
      BY <2>1, <2>2, <3>1 DEF SessionInv
  <2>5. CASE net.healthy /\ net.ready /\ (SendPeriodicFull \/ SendDiffOrFull)
    <3>1. latest' = Taken /\ sent'.next = sent.next + 1
      BY <2>5 DEF SendPeriodicFull, SendDiffOrFull, SendFull, SendDiff, Take
    <3>2. net.acked = 0 \/ net.full > FullEvery \/ net.diff > DiffEvery
      BY <2>5 DEF SendPeriodicFull, SendDiffOrFull
    <3>3. CASE sent.next = 0
      <4>1. Beginning
        BY <2>1, <2>5, <3>2, <3>3 DEF Beginning
      <4>2. latest'[1] = latest[1] + 1
        BY <3>1, <3>3 DEF Taken
      <4>3. client.heard \subseteq 1..latest'[1]
        BY <1>0, <4>2 DEF SessionInv
      <4>4. QED
        BY <1>0, <2>1, <2>2, <3>1, <3>3, <4>1, <4>2, <4>3 DEF SessionInv
    <3>4. CASE sent.next # 0
      <4>1. latest'[1] = latest[1]
        BY <3>1, <3>4 DEF Taken
      <4>2. QED
        BY <1>0, <2>1, <2>2, <3>1, <4>1 DEF SessionInv
    <3>5. QED
      BY <3>3, <3>4
  <2>6. QED
    BY <1>4, <2>3, <2>4, <2>5 DEF FrameSend
<1>5. CASE client' = NewClient /\ wire' = <<>> /\ UNCHANGED serverVars
  <2>1. /\ client'.born = latest[1] /\ client'.heard = {}
        /\ client'.due = IF Beginning THEN latest[1] + 1 ELSE 0
    BY <1>5 DEF NewClient
  <2>2. Beginning' = Beginning
    BY <1>5 DEF Beginning
  <2>3. Top' = IF Beginning THEN latest[1] + 1 ELSE latest[1]
    BY <1>0, <2>1 DEF Top
  <2>4. QED
    BY <1>0, <1>5, <2>1, <2>2, <2>3 DEF SessionInv
<1>6. CASE /\ UNCHANGED <<serverVars, connected, client>>
           /\ connected \/ wire' = wire
           /\ ~org'.paused => /\ ~org.paused
                              /\ org.state = "Connected" => org'.state = "Connected"
                              /\ org.ready => org'.ready
  <2>1. Beginning' = Beginning /\ Top' = Top
    BY <1>6 DEF Beginning, Top
  <2>2. QED
    BY <1>6, <2>1 DEF SessionInv
<1>7. CASE TryConnect
  BY <1>6, <1>7 DEF TryConnect, AddPlayer, TypeInv
<1>8. CASE SendMessage
  BY <1>6, <1>8 DEF SendMessage
<1>9. CASE RecvAck
  BY <1>6, <1>9 DEF RecvAck, SnapshotReceived, TypeInv
<1>10. CASE RecvPing
  <2>1. CASE org' = org
    BY <1>6, <1>10, <2>1 DEF RecvPing
  <2>2. CASE org' = [org EXCEPT !.ready = Head(tasks).ready,
                                !.paused = @ \/ (org.ready /\ ~Head(tasks).ready)]
    <3>1. /\ org'.state = org.state /\ org'.ready = Head(tasks).ready
          /\ org'.paused = (org.paused \/ (org.ready /\ ~Head(tasks).ready))
      BY <2>2 DEF TypeInv
    <3>2. QED
      BY <1>6, <1>10, <3>1 DEF RecvPing
  <2>3. QED
    BY <1>10, <2>1, <2>2 DEF RecvPing, HandlePing
<1>11. CASE ClientMoves
  <2>1. SameBirth
    BY <1>11
    DEF ClientMoves, PreloadDone, LoadDone, ClientStage, Ping, LatePing,
        TypeInv, Clients, SameBirth
  <2>2. client'.heard = client.heard /\ UNCHANGED <<serverVars, org, connVars>>
    BY <1>11, ClientMovesIs
  <2>3. Beginning' = Beginning /\ Top' = Top
    BY <2>1, <2>2 DEF Beginning, Top, SameBirth
  <2>4. QED
    BY <2>1, <2>2, <2>3 DEF SessionInv, SameBirth
<1>12. CASE \E i \in 1..Parsers : Receives(i)
  <2>1. PICK i \in 1..Parsers : Receives(i)
    BY <1>12
  <2>2. /\ UNCHANGED <<serverVars, org, connected>>
        /\ i \in DOMAIN wire /\ wire[i] \in Messages
        /\ client'.heard = client.heard \cup {wire[i].of[1]}
    BY <2>1, ReceivesIs DEF Hears
  <2>3. SameBirth
    BY <2>1, ReceivesBirth
  <2>4. Beginning' = Beginning /\ Top' = Top
    BY <2>2, <2>3 DEF Beginning, Top, SameBirth
  <2>5. connected
    BY <2>2 DEF SessionInv
  <2>6. wire[i].of[1] \in 1..latest[1]
    <3>1. wire[i].of[1] \in Nat /\ wire[i].of[2] \in Nat
      BY <2>2 DEF Messages
    <3>2. wire[i].of[1] > 0 /\ ~Before(latest, wire[i].of)
      BY <2>2 DEF MessageInv, Published
    <3>3. QED
      BY <1>0, <3>1, <3>2 DEF Before
  <2>7. QED
    BY <2>2, <2>3, <2>4, <2>5, <2>6 DEF SessionInv, SameBirth
<1>13. CASE UNCHANGED vars
  BY <1>6, <1>13 DEF vars
<1>14. QED
  BY <1>2, <1>3, <1>4, <1>5, <1>7, <1>8, <1>9, <1>10, <1>11, <1>12, <1>13, NextIs
  DEF Confirm, Disconnect

(* A client hears of two sessions only if one of them had begun before it  *)
(* was entered, or in that frame, or if a ping took the ready flag back    *)
(* (QueueClientMessagesSystem, set_net_server_state, handle_ping).         *)
THEOREM SyncSessions == Spec => []TwoSessionsExplained
<1>1. Init => SessionInv
  BY DEF Init, NewClient, SessionInv, Nothing, Beginning
<1>2. SyncInv /\ SessionInv /\ [Next]_vars => SessionInv'
  BY SessionStep
<1>3. SyncInv /\ SessionInv => TwoSessionsExplained
  <2> SUFFICES ASSUME SyncInv, SessionInv, ~org.paused,
                      NEW s \in client.heard, NEW t \in client.heard, s # t,
                      \A u \in client.heard : u > client.born /\ u # client.due
               PROVE  FALSE
    BY DEF TwoSessionsExplained, Confused, SyncInv, TypeInv, Clients
  <2>1. /\ client.born \in Nat /\ client.due \in {0, client.born + 1}
        /\ latest[1] \in Nat /\ s \in 1..latest[1] /\ t \in 1..latest[1]
        /\ connected
    BY DEF SyncInv, TypeInv, Clients, SessionInv
  <2>2. s > Top /\ t > Top /\ Top \in Nat
    BY <2>1 DEF Top
  <2>3. latest[1] = Top + 1
    BY <2>1, <2>2 DEF SessionInv
  <2> QED
    BY <2>1, <2>2, <2>3
<1>4. QED
  BY <1>1, <1>2, <1>3, SyncInvariant, PTL DEF Spec

(* What a client shows is a state the server had, and never one before     *)
(* another it has shown (register_server_snapshot), as long as it has      *)
(* heard of one session only.                                              *)
THEOREM SyncRefinement == Spec => ShowsServerStates
<1> DEFINE showing == IF Confused THEN Nothing ELSE client.shown
<1>1. Init => Shown!Init
  <2> SUFFICES ASSUME Init PROVE Shown!Init
    OBVIOUS
  <2>1. client.shown = Nothing /\ latest = Nothing
    BY DEF Init, NewClient
  <2>2. QED
    BY <2>1 DEF Shown!Init, Shown!Nothing, Nothing
<1>2. SyncInv /\ [Next]_vars => [Shown!Next]_(Shown!vars)
  <2> SUFFICES ASSUME SyncInv, [Next]_vars PROVE [Shown!Next]_(Shown!vars)
    OBVIOUS
  <2> USE DEF SyncInv
  <2>1. CASE FrameSend
    <3>1. client' = client
      BY <2>1 DEF FrameSend
    <3>2. showing' = showing
      BY <3>1 DEF Confused
    <3>3. CASE latest' = latest
      BY <3>2, <3>3 DEF Shown!vars
    <3>4. CASE latest' = Taken
      <4>1. PICK a \in Nat, b \in Nat : latest = <<a, b>>
        BY DEF TypeInv
      <4>2. (a > 0 /\ latest' = <<a, b + 1>>) \/ latest' = <<a + 1, 0>>
        BY <3>4, <4>1, TakenIs
      <4>3. Shown!Publish
        BY <3>2, <4>1, <4>2 DEF Shown!Publish
      <4>4. QED
        BY <4>3 DEF Shown!Next
    <3>5. QED
      BY <2>1, <3>3, <3>4, SendIs DEF FrameSend, Takes
  <2>2. CASE client' = NewClient /\ latest' = latest
    <3>1. client'.heard = {} /\ client'.shown = Nothing
      BY <2>2, NewClientIs
    <3>2. showing' = Nothing
      BY <3>1 DEF Confused
    <3>3. QED
      BY <2>2, <3>2 DEF Shown!Next, Shown!Replace, Shown!Nothing, Nothing
  <2>3. CASE \E i \in 1..Parsers : Receives(i)
    <3>1. PICK i \in 1..Parsers : Receives(i)
      BY <2>3
    <3>2. /\ Hears(i) /\ i \in DOMAIN wire /\ wire[i] \in Messages
          /\ latest' = latest /\ Published(wire[i])
      BY <3>1, ReceivesIs DEF MessageInv, serverVars
    <3>3. CASE Confused'
      BY <3>2, <3>3 DEF Shown!Next, Shown!Replace, Shown!Nothing, Nothing
    <3>4. CASE ~Confused'
      <4>1. /\ ~Confused
            /\ \/ client'.shown = client.shown
               \/ /\ Before(client.shown, client'.shown)
                  /\ ~Before(latest, client'.shown)
        BY <3>2, <3>4, HearsShown
      <4>2. showing = client.shown /\ showing' = client'.shown
        BY <3>4, <4>1
      <4>3. CASE client'.shown = client.shown
        BY <3>2, <4>2, <4>3 DEF Shown!vars
      <4>4. CASE Before(client.shown, client'.shown) /\ ~Before(latest, client'.shown)
        BY <3>2, <4>2, <4>4
           DEF Shown!Next, Shown!Show, Shown!Before, Before
      <4>5. QED
        BY <4>1, <4>3, <4>4
    <3>5. QED
      BY <3>3, <3>4
  <2>4. CASE latest' = latest /\ client'.heard = client.heard /\ client'.shown = client.shown
    <3>1. showing' = showing
      BY <2>4 DEF Confused
    <3>2. QED
      BY <2>4, <3>1 DEF Shown!vars
  <2>5. QED
    BY <2>1, <2>2, <2>3, <2>4, NextIs, ClientMovesIs
       DEF FrameAcks, FrameState, TryConnect, Confirm, SendMessage, RecvAck,
           RecvPing, Disconnect, vars, serverVars, connVars
<1>3. QED
  BY <1>1, <1>2, SyncInvariant, PTL DEF Spec, ShowsServerStates, Shown!Spec

(* The types of the variables. *)
THEOREM SyncTyped == Spec => []TypeOK
<1>1. SyncInv => TypeOK
  <2> SUFFICES ASSUME SyncInv PROVE TypeOK
    OBVIOUS
  <2>1. TypeInv
    BY DEF SyncInv
  <2>2. \A i \in DOMAIN wire : wire[i] \in Messages
    BY <2>1 DEF TypeInv
  <2>3. QED
    BY <2>1, <2>2 DEF TypeInv, TypeOK, Clients
<1>2. QED
  BY <1>1, SyncInvariant, PTL

-----------------------------------------------------------------------------
(* Why a diff is refused *)

(* What the client has of a session: an id that is stored or was dropped,  *)
(* or a diff that it refused.                                              *)
Has(c, id) == id \in DOMAIN c.stored \/ Dropped(c, id)

Knows(c, s, id) == Has(c, id) \/ <<s, id>> \in c.refused

(* One of the first n elements of a queue is that snapshot.                *)
Carries(q, n, s, id) ==
  \E j \in 1..n : q[j].kind \in {"full", "diff"} /\ q[j].of = <<s, id>>

(* A snapshot the server took after the client came is known to it, or     *)
(* under way: the base of a diff is ahead of the diff.                     *)
WireInv ==
  \A i \in 1..Len(wire) :
    wire[i].kind = "diff" /\ wire[i].of[1] > client.born =>
      \/ Knows(client, wire[i].of[1], wire[i].base)
      \/ Carries(wire, i - 1, wire[i].of[1], wire[i].base)

Ahead(w, t, n, s, id) == Carries(w, Len(w), s, id) \/ Carries(t, n, s, id)

TasksInv ==
  \A i \in 1..Len(tasks) :
    tasks[i].kind = "diff" /\ tasks[i].of[1] > client.born =>
      \/ Knows(client, tasks[i].of[1], tasks[i].base)
      \/ Ahead(wire, tasks, i - 1, tasks[i].of[1], tasks[i].base)

TakenInv ==
  latest[1] > client.born =>
    \A id \in 0..(sent.next - 1) :
      Knows(client, latest[1], id) \/ Ahead(wire, tasks, Len(tasks), latest[1], id)

DeliveryInv ==
  /\ client.bases \subseteq DOMAIN client.stored
  /\ ~connected => wire = <<>>
  /\ connected /\ ~client.missed => WireInv /\ TasksInv /\ TakenInv

LEMMA LeastIs ==
  ASSUME NEW S \in SUBSET Nat, S # {}
  PROVE  Least(S) \in S /\ \A j \in S : Least(S) <= j
<1> DEFINE Less == {ss \in Nat \X Nat : ss[1] < ss[2]}
<1>1. IsWellFoundedOn(Less, Nat)
  BY NatLessThanWellFounded DEF OpToRel
<1>2. PICK m \in S : \A y \in S : ~(<<y, m>> \in Less)
  <2> HIDE DEF Less
  <2> QED
    BY <1>1, WFMin
<1>3. ASSUME NEW y \in S PROVE m <= y
  <2>1. y \in Nat /\ m \in Nat /\ ~(<<y, m>> \in Less)
    BY <1>2
  <2>2. <<y, m>> \in Less <=> y < m
    BY <2>1
  <2> HIDE DEF Less
  <2>3. QED
    BY <2>1, <2>2
<1> HIDE DEF Less
<1>4. Least(S) \in S /\ \A j \in S : Least(S) <= j
  BY ONLY <1>3, m \in S DEF Least
<1>5. QED
  BY <1>4

LEMMA CarriesAppend ==
  ASSUME NEW S, NEW q \in Seq(S), NEW e \in S, NEW n \in 0..Len(q),
         NEW s, NEW id, Carries(q, n, s, id)
  PROVE  Carries(Append(q, e), n, s, id)
<1>1. \A j \in 1..n : Append(q, e)[j] = q[j]
  BY AppendProperties
<1>2. QED
  BY <1>1 DEF Carries

LEMMA CarriesFurther ==
  ASSUME NEW q, NEW m \in Nat, NEW n \in 0..m,
         NEW s, NEW id, Carries(q, n, s, id)
  PROVE  Carries(q, m, s, id)
BY DEF Carries

LEMMA CarriesTail ==
  ASSUME NEW S, NEW q \in Seq(S), q # <<>>, NEW n \in 0..Len(q),
         NEW s, NEW id, Carries(q, n, s, id)
  PROVE  \/ q[1].kind \in {"full", "diff"} /\ q[1].of = <<s, id>>
         \/ Carries(Tail(q), n - 1, s, id)
<1>1. PICK j \in 1..n : q[j].kind \in {"full", "diff"} /\ q[j].of = <<s, id>>
  BY DEF Carries
<1>2. CASE j = 1
  BY <1>1, <1>2
<1>3. CASE j # 1
  <2>1. j - 1 \in 1..(n - 1) /\ j - 1 \in 1..Len(Tail(q))
    BY <1>3
  <2>2. Tail(q)[j - 1] = q[j]
    BY <2>1
  <2>3. QED
    BY <1>1, <2>1, <2>2 DEF Carries
<1>4. QED
  BY <1>2, <1>3

LEMMA CarriesRemove ==
  ASSUME NEW S, NEW q \in Seq(S), NEW i \in 1..Len(q), NEW n \in 0..Len(q),
         NEW s, NEW id, Carries(q, n, s, id)
  PROVE  \/ q[i].of = <<s, id>>
         \/ Carries(RemoveAt(q, i), IF n < i THEN n ELSE n - 1, s, id)
<1>1. PICK j \in 1..n : q[j].kind \in {"full", "diff"} /\ q[j].of = <<s, id>>
  BY DEF Carries
<1>2. CASE j = i
  BY <1>1, <1>2
<1>3. CASE j < i
  <2>1. j \in 1..(Len(q) - 1) /\ j \in 1..(IF n < i THEN n ELSE n - 1)
    BY <1>3
  <2>2. RemoveAt(q, i)[j] = q[j]
    BY <1>3, <2>1, RemoveAtOrder
  <2>3. QED
    BY <1>1, <2>1, <2>2 DEF Carries
<1>4. CASE i < j
  <2>1. PICK k \in 1..(Len(q) - 1) : k = j - 1
    BY <1>4
  <2>2. ~(k < i) /\ k + 1 = j /\ k \in 1..(IF n < i THEN n ELSE n - 1)
    BY <1>4, <2>1
  <2>3. RemoveAt(q, i)[k] = q[k + 1]
    BY <2>2, RemoveAtOrder
  <2>4. QED
    BY <1>1, <2>2, <2>3 DEF Carries
<1>5. QED
  BY <1>2, <1>3, <1>4

(* What a full snapshot does to the cache: an id is dropped only when all  *)
(* full snapshots kept are later.                                          *)
LEMMA StoreFullKeeps ==
  ASSUME NEW c \in Clients, NEW x \in Nat, NEW id \in Nat,
         c.bases \subseteq DOMAIN c.stored, NEW d, d = StoreFull(c, x, id)
  PROVE  /\ d.bases \subseteq DOMAIN d.stored
         /\ Has(d, id)
         /\ \A k \in Nat : Has(c, k) => Has(d, k)
         /\ d.refused = c.refused /\ d.born = c.born /\ d.missed = c.missed
<1>0. c.stored \in Stores /\ c.bases \in SUBSET Nat
  BY DEF Clients
<1>1. c.bases # {} =>
        Least(c.bases) \in c.bases /\ \A j \in c.bases : Least(c.bases) <= j
  BY <1>0, LeastIs
<1>2. CASE c.bases # {} /\ (id <= Least(c.bases) \/ id \in c.bases)
  <2>1. d = c
    BY <1>2 DEF StoreFull
  <2>2. CASE id \in c.bases
    BY <2>1, <2>2 DEF Has
  <2>3. CASE id \notin c.bases
    <3>1. id < Least(c.bases) /\ Least(c.bases) \in Nat
      BY <1>0, <1>1, <1>2, <2>3
    <3>2. \A j \in c.bases : id < j
      BY <1>0, <1>1, <1>2, <3>1
    <3>3. QED
      BY <1>2, <2>1, <3>2 DEF Has, Dropped
  <2>4. QED
    BY <2>2, <2>3
<1>3. CASE ~(c.bases # {} /\ (id <= Least(c.bases) \/ id \in c.bases))
  <2> DEFINE full  == Cardinality(c.bases) = CacheSize
             bases == {id} \cup IF full THEN c.bases \ {Least(c.bases)}
                                ELSE c.bases
             purged == Purged(c.stored, Least(bases))
  <2>1. d = [c EXCEPT !.bases = bases, !.stored = Emplace(purged, id, x)]
    BY <1>3 DEF StoreFull
  <2>2. /\ bases \in SUBSET Nat /\ bases # {} /\ id \in bases
        /\ bases \subseteq c.bases \cup {id}
    BY <1>0
  <2>3. purged \in Stores
    BY <1>0, PurgedStores
  <2>4. \A k \in DOMAIN c.stored : k >= Least(bases) => k \in DOMAIN purged
    BY DEF Purged
  <2> HIDE DEF bases, purged
  <2>5. DOMAIN Emplace(purged, id, x) = DOMAIN purged \cup {id}
    BY <2>3, EmplaceStores
  <2>6. /\ d.bases = bases /\ DOMAIN d.stored = DOMAIN purged \cup {id}
        /\ d.refused = c.refused /\ d.born = c.born /\ d.missed = c.missed
    BY <2>1, <2>5 DEF Clients
  <2>7. Least(bases) \in bases /\ \A j \in bases : Least(bases) <= j
    BY <2>2, LeastIs
  <2>8. Least(bases) \in Nat
    BY <2>2, <2>7
  <2>9. \A k \in bases : k \in DOMAIN purged \cup {id}
    BY <2>2, <2>4, <2>7, <2>8
  <2>10. ASSUME NEW k \in Nat, Has(c, k) PROVE Has(d, k)
    <3>1. CASE k < Least(bases)
      <4>1. \A j \in bases : k < j
        BY <2>2, <2>7, <2>8, <3>1
      <4>2. QED
        BY <2>2, <2>6, <4>1 DEF Has, Dropped
    <3>2. CASE ~(k < Least(bases)) /\ k \in DOMAIN c.stored
      BY <2>4, <2>6, <2>8, <3>2 DEF Has
    <3>3. CASE ~(k < Least(bases)) /\ Dropped(c, k)
      <4>1. c.bases # {} /\ \A b \in c.bases : k < b
        BY <3>3 DEF Dropped
      <4>2. k < Least(c.bases) /\ Least(c.bases) < id
        BY <1>0, <1>1, <1>3, <4>1
      <4>3. k < id
        BY <1>0, <1>1, <4>1, <4>2
      <4>4. k < Least(bases)
        BY <2>2, <2>7, <4>1, <4>3
      <4>5. QED
        BY <3>3, <4>4
    <3>4. QED
      BY <2>10, <3>1, <3>2, <3>3 DEF Has
  <2>11. QED
    BY <2>6, <2>9, <2>10 DEF Has
<1>4. QED
  BY <1>2, <1>3

(* What the client learns from the message at i, unless it discards it.    *)
Learns(i) ==
  /\ client'.bases \subseteq DOMAIN client'.stored
  /\ client'.born = client.born
  /\ \/ client'.missed
     \/ /\ ~client.missed
        /\ Knows(client', wire[i].of[1], wire[i].of[2])
        /\ \A s, k \in Nat : Knows(client, s, k) => Knows(client', s, k)

LEMMA LearnsIs ==
  ASSUME TypeInv, client.bases \subseteq DOMAIN client.stored,
         NEW i \in 1..Parsers, Receives(i)
  PROVE  Learns(i)
<1>1. i \in DOMAIN wire /\ wire[i] \in Messages
  BY ReceivesIs
<1>2. PICK x \in Nat, id \in Nat : wire[i].of = <<x, id>>
  BY <1>1 DEF Messages
<1>3. wire[i].of[1] = x /\ wire[i].of[2] = id
  BY <1>2
<1>4. PICK h \in Clients : h = Heard(i)
  BY <1>1, HeardIs
<1>5. /\ h.bases = client.bases /\ h.stored = client.stored
      /\ h.born = client.born /\ h.missed = client.missed
      /\ h.refused = client.refused
  BY <1>4 DEF Heard, TypeInv, Clients
<1>6. \A k \in Nat : Has(h, k) <=> Has(client, k)
  BY <1>5 DEF Has, Dropped
<1>7. CASE ReceiveEarly(i)
  <2>1. client' = [h EXCEPT !.missed = TRUE]
    BY <1>4, <1>7 DEF ReceiveEarly
  <2>2. /\ client'.bases = h.bases /\ client'.stored = h.stored
        /\ client'.born = h.born /\ client'.missed
    BY <2>1 DEF Clients
  <2>3. QED
    BY <1>5, <2>2 DEF Learns
<1>8. CASE ReceiveFull(i)
  <2> DEFINE d == StoreFull(h, x, id)
  <2>1. client' = Show(d, x, id)
    BY <1>3, <1>4, <1>8 DEF ReceiveFull
  <2>2. d \in Clients
    BY StoreFullIs
  <2>3. /\ d.bases \subseteq DOMAIN d.stored
        /\ Has(d, id)
        /\ \A k \in Nat : Has(h, k) => Has(d, k)
        /\ d.refused = h.refused /\ d.born = h.born /\ d.missed = h.missed
    BY <1>5, StoreFullKeeps
  <2> HIDE DEF d
  <2>4. /\ client'.bases = d.bases /\ client'.stored = d.stored
        /\ client'.born = d.born /\ client'.missed = d.missed
        /\ client'.refused = d.refused
    BY <2>1, <2>2 DEF Show, Clients
  <2>5. \A k \in Nat : Has(client', k) <=> Has(d, k)
    BY <2>4 DEF Has, Dropped
  <2>6. \A s, k \in Nat : Knows(client, s, k) => Knows(client', s, k)
    BY <1>5, <1>6, <2>3, <2>4, <2>5 DEF Knows
  <2>7. QED
    BY <1>3, <1>5, <2>3, <2>4, <2>5, <2>6 DEF Learns, Knows, TypeInv, Clients
<1>9. CASE ReceiveDiff(i)
  <2>1. wire[i].base \in DOMAIN h.stored
    BY <1>5, <1>9 DEF ReceiveDiff
  <2>2. PICK b \in DOMAIN h.stored : b = wire[i].base
    BY <2>1
  <2> DEFINE d == StoreDiff(h, x, id, b)
  <2>3. client' = Show(d, d.stored[id], id)
    BY <1>3, <1>4, <1>9, <2>2 DEF ReceiveDiff
  <2>4. d \in Clients /\ d.stored[id] \in Nat
    BY StoreDiffIs
  <2>5. /\ d.bases = h.bases /\ DOMAIN d.stored = DOMAIN h.stored \cup {id}
        /\ d.refused = h.refused /\ d.born = h.born /\ d.missed = h.missed
    BY DEF StoreDiff, Emplace, Clients
  <2> HIDE DEF d
  <2>6. /\ client'.bases = d.bases /\ client'.stored = d.stored
        /\ client'.born = d.born /\ client'.missed = d.missed
        /\ client'.refused = d.refused
    BY <2>3, <2>4 DEF Show, Clients
  <2>7. /\ Has(client', id)
        /\ \A k \in Nat : Has(h, k) => Has(client', k)
    BY <2>5, <2>6 DEF Has, Dropped
  <2>8. \A s, k \in Nat : Knows(client, s, k) => Knows(client', s, k)
    BY <1>5, <1>6, <2>5, <2>6, <2>7 DEF Knows
  <2>9. QED
    BY <1>3, <1>5, <2>5, <2>6, <2>7, <2>8 DEF Learns, Knows, TypeInv, Clients
<1>10. CASE RefuseDiff(i)
  <2>1. client' = [h EXCEPT !.refused = @ \cup {wire[i].of}]
    BY <1>4, <1>10 DEF RefuseDiff
  <2>2. /\ client'.bases = h.bases /\ client'.stored = h.stored
        /\ client'.born = h.born /\ client'.missed = h.missed
        /\ client'.refused = h.refused \cup {<<x, id>>}
    BY <1>2, <2>1 DEF Clients
  <2>3. \A k \in Nat : Has(client, k) => Has(client', k)
    BY <1>5, <2>2 DEF Has, Dropped
  <2>4. \A s, k \in Nat : Knows(client, s, k) => Knows(client', s, k)
    BY <1>5, <2>2, <2>3 DEF Knows
  <2>5. QED
    BY <1>3, <1>5, <2>2, <2>4 DEF Learns, Knows, TypeInv, Clients
<1>11. QED
  BY <1>7, <1>8, <1>9, <1>10 DEF Receives

LEMMA DiffIs ==
  ASSUME NEW m \in TaskMessages, m.kind \in {"full", "diff"}
  PROVE  /\ m \in Messages /\ m.of[1] \in Nat /\ m.of[2] \in Nat
         /\ m.of = <<m.of[1], m.of[2]>>
         /\ m.kind = "diff" => m.base \in Nat
<1>1. m \in Messages
  BY DEF TaskMessages
<1>2. m.of \in Nat \X Nat /\ (m.kind = "diff" => m.base \in Nat)
  BY <1>1 DEF Messages
<1>3. QED
  BY <1>1, <1>2

(* What is appended to the task list changes nothing of what is ahead.     *)
Appends ==
  \/ tasks' = tasks
  \/ \E e \in TaskMessages : e.kind # "diff" /\ tasks' = Append(tasks, e)

LEMMA AppendsIs ==
  ASSUME TypeInv, Appends
  PROVE  /\ Len(tasks) \in Nat /\ Len(tasks') \in Nat
         /\ \A j \in 1..Len(tasks') : tasks'[j].kind = "diff" =>
              j \in 1..Len(tasks) /\ tasks'[j] = tasks[j]
         /\ \A n \in 0..Len(tasks), s, id \in Nat :
              Carries(tasks, n, s, id) =>
                Carries(tasks', n, s, id) /\ Carries(tasks', Len(tasks'), s, id)
<1>1. tasks \in Seq(TaskMessages) /\ Len(tasks) \in Nat
  BY DEF TypeInv
<1>2. CASE tasks' = tasks
  <2>1. \A n \in 0..Len(tasks), s, id \in Nat :
          Carries(tasks, n, s, id) => Carries(tasks, Len(tasks), s, id)
    BY <1>1, CarriesFurther
  <2>2. QED
    BY <1>1, <1>2, <2>1
<1>3. CASE \E e \in TaskMessages : e.kind # "diff" /\ tasks' = Append(tasks, e)
  <2>1. PICK e \in TaskMessages : e.kind # "diff" /\ tasks' = Append(tasks, e)
    BY <1>3
  <2>2. /\ Len(tasks') = Len(tasks) + 1 /\ tasks'[Len(tasks) + 1] = e
        /\ \A j \in 1..Len(tasks) : tasks'[j] = tasks[j]
    BY <1>1, <2>1, AppendProperties
  <2>3. \A n \in 0..Len(tasks), s, id \in Nat :
          Carries(tasks, n, s, id) => Carries(tasks', n, s, id)
    BY <1>1, <2>1, CarriesAppend
  <2>4. \A n \in 0..Len(tasks), s, id \in Nat :
          Carries(tasks', n, s, id) => Carries(tasks', Len(tasks'), s, id)
    <3>1. \A n \in 0..Len(tasks) : n \in 0..Len(tasks') /\ Len(tasks') \in Nat
      BY <1>1, <2>2
    <3>2. QED
      BY <3>1, CarriesFurther
  <2>5. \A j \in 1..Len(tasks') : tasks'[j].kind = "diff" =>
          j \in 1..Len(tasks) /\ tasks'[j] = tasks[j]
    BY <1>1, <2>1, <2>2
  <2>6. QED
    BY <1>1, <2>2, <2>3, <2>4, <2>5
<1>4. QED
  BY <1>2, <1>3 DEF Appends

SameClient ==
  /\ client'.bases = client.bases /\ client'.stored = client.stored
  /\ client'.refused = client.refused /\ client'.born = client.born
  /\ client'.missed = client.missed

(* Nothing is taken and nothing moves. *)
LEMMA QuietKeeps ==
  ASSUME TypeInv, DeliveryInv, Appends, SameClient, wire' = wire,
         connected' = connected, latest' = latest,
         sent'.next \in {sent.next, 0}
  PROVE  DeliveryInv'
<1>1. \A s, k \in Nat : Knows(client', s, k) <=> Knows(client, s, k)
  BY DEF SameClient, Knows, Has, Dropped
<1>2. /\ tasks \in Seq(TaskMessages) /\ wire \in Seq(Messages)
      /\ Len(tasks) \in Nat /\ Len(wire) \in Nat
      /\ latest[1] \in Nat /\ sent.next \in Nat
  BY DEF TypeInv
<1>3. SUFFICES ASSUME connected, ~client.missed
               PROVE  (WireInv /\ TasksInv /\ TakenInv)'
  BY DEF DeliveryInv, SameClient
<1>4. WireInv /\ TasksInv /\ TakenInv
  BY <1>3 DEF DeliveryInv
<1>5. WireInv'
  <2>1. \A i \in 1..Len(wire) : wire[i].kind = "diff" =>
          wire[i].of[1] \in Nat /\ wire[i].base \in Nat
    BY <1>2, DiffIs DEF TaskMessages
  <2>2. QED
    BY <1>1, <1>4, <2>1 DEF WireInv, SameClient
<1>6. TasksInv'
  <2> SUFFICES ASSUME NEW i \in 1..Len(tasks'), tasks'[i].kind = "diff",
                      tasks'[i].of[1] > client'.born
               PROVE  \/ Knows(client', tasks'[i].of[1], tasks'[i].base)
                      \/ Ahead(wire', tasks', i - 1, tasks'[i].of[1], tasks'[i].base)
    BY DEF TasksInv
  <2>1. i \in 1..Len(tasks) /\ tasks'[i] = tasks[i]
    BY AppendsIs
  <2>2. PICK x \in Nat, b \in Nat : x = tasks[i].of[1] /\ b = tasks[i].base
    BY <1>2, <2>1, DiffIs
  <2>3. Knows(client, x, b) \/ Ahead(wire, tasks, i - 1, x, b)
    BY <1>4, <2>1, <2>2 DEF TasksInv, SameClient
  <2>4. i - 1 \in 0..Len(tasks)
    BY <1>2, <2>1
  <2>5. Knows(client', x, b) \/ Ahead(wire', tasks', i - 1, x, b)
    BY <1>1, <2>3, <2>4, AppendsIs DEF Ahead
  <2>6. QED
    BY <2>1, <2>2, <2>5 DEF Ahead
<1>7. TakenInv'
  <2> SUFFICES ASSUME latest[1] > client.born, NEW id \in 0..(sent'.next - 1)
               PROVE  \/ Knows(client', latest[1], id)
                      \/ Ahead(wire', tasks', Len(tasks'), latest[1], id)
    BY DEF TakenInv, SameClient
  <2>1. id \in 0..(sent.next - 1) /\ id \in Nat
    BY <1>2
  <2>2. Knows(client, latest[1], id) \/ Ahead(wire, tasks, Len(tasks), latest[1], id)
    BY <1>4, <2>1 DEF TakenInv
  <2>3. Len(tasks) \in 0..Len(tasks)
    BY <1>2
  <2>4. QED
    BY <1>1, <1>2, <2>1, <2>2, <2>3, AppendsIs DEF Ahead
<1>8. QED
  BY <1>5, <1>6, <1>7

(* A snapshot is taken: it is the last of the task list, and the base of a *)
(* diff is one the server has kept.                                        *)
LEMMA TakeKeeps ==
  ASSUME TypeInv, SentInv, DeliveryInv, NEW m \in Messages, NEW p, Takes(m, p),
         m.kind = "diff" => m.base < sent.next,
         client' = client, connected' = connected, wire' = wire
  PROVE  DeliveryInv'
<1>1. /\ tasks \in Seq(TaskMessages) /\ wire \in Seq(Messages)
      /\ Len(tasks) \in Nat /\ Len(wire) \in Nat
      /\ latest[1] \in Nat /\ sent.next \in Nat
      /\ m \in TaskMessages
  BY DEF TypeInv, TaskMessages
<1>2. SUFFICES ASSUME connected, ~client.missed
               PROVE  (WireInv /\ TasksInv /\ TakenInv)'
  BY DEF DeliveryInv
<1>3. WireInv /\ TasksInv /\ TakenInv
  BY <1>2 DEF DeliveryInv
<1>4. /\ tasks' = Append(tasks, m) /\ sent'.next = sent.next + 1
      /\ latest' = Taken /\ m.of = Taken
  BY DEF Takes
<1>5. /\ Len(tasks') = Len(tasks) + 1 /\ tasks'[Len(tasks) + 1] = m
      /\ \A j \in 1..Len(tasks) : tasks'[j] = tasks[j]
  BY <1>1, <1>4, AppendProperties
<1>6. \A n \in 0..Len(tasks), s, id \in Nat :
        Carries(tasks, n, s, id) =>
          Carries(tasks', n, s, id) /\ Carries(tasks', Len(tasks'), s, id)
  <2>1. \A n \in 0..Len(tasks), s, id \in Nat :
          Carries(tasks, n, s, id) => Carries(tasks', n, s, id)
    BY <1>1, <1>4, CarriesAppend
  <2>2. \A n \in 0..Len(tasks) : n \in 0..Len(tasks') /\ Len(tasks') \in Nat
    BY <1>1, <1>5
  <2>3. QED
    BY <2>1, <2>2, CarriesFurther
<1>7. /\ Taken[1] \in Nat /\ Taken[2] = sent.next
      /\ Taken = <<Taken[1], Taken[2]>>
      /\ sent.next # 0 => Taken[1] = latest[1]
  BY <1>1, TakenIs DEF Taken
<1>8. \A id \in 0..(sent.next - 1) : Taken[1] > client.born =>
        Knows(client, Taken[1], id) \/ Ahead(wire, tasks, Len(tasks), Taken[1], id)
  <2> SUFFICES ASSUME NEW id \in 0..(sent.next - 1), Taken[1] > client.born
               PROVE  Knows(client, Taken[1], id) \/ Ahead(wire, tasks, Len(tasks), Taken[1], id)
    OBVIOUS
  <2>1. Taken[1] = latest[1]
    BY <1>1, <1>7
  <2>2. QED
    BY <1>3, <2>1 DEF TakenInv
<1>9. WireInv'
  BY <1>3 DEF WireInv
<1>10. TasksInv'
  <2> SUFFICES ASSUME NEW i \in 1..Len(tasks'), tasks'[i].kind = "diff",
                      tasks'[i].of[1] > client.born
               PROVE  \/ Knows(client, tasks'[i].of[1], tasks'[i].base)
                      \/ Ahead(wire', tasks', i - 1, tasks'[i].of[1], tasks'[i].base)
    BY DEF TasksInv
  <2>1. CASE i \in 1..Len(tasks)
    <3>1. tasks'[i] = tasks[i] /\ i - 1 \in 0..Len(tasks)
      BY <1>1, <1>5, <2>1
    <3>2. PICK x \in Nat, b \in Nat : x = tasks[i].of[1] /\ b = tasks[i].base
      BY <1>1, <2>1, <3>1, DiffIs
    <3>3. Knows(client, x, b) \/ Ahead(wire, tasks, i - 1, x, b)
      BY <1>3, <2>1, <3>1, <3>2 DEF TasksInv
    <3>4. Knows(client, x, b) \/ Ahead(wire', tasks', i - 1, x, b)
      BY <1>6, <3>1, <3>3 DEF Ahead
    <3>5. QED
      BY <3>1, <3>2, <3>4 DEF Ahead
  <2>2. CASE i \notin 1..Len(tasks)
    <3>1. i = Len(tasks) + 1 /\ i - 1 = Len(tasks) /\ tasks'[i] = m
      BY <1>1, <1>5, <2>2
    <3>2. PICK x \in Nat, b \in Nat : x = Taken[1] /\ b = m.base
      BY <1>1, <1>7, <3>1, DiffIs
    <3>3. b \in 0..(sent.next - 1) /\ Taken[1] > client.born
      BY <1>1, <1>4, <3>1, <3>2
    <3>4. Knows(client, x, b) \/ Ahead(wire, tasks, Len(tasks), x, b)
      BY <1>8, <3>2, <3>3
    <3>5. Len(tasks) \in 0..Len(tasks)
      BY <1>1
    <3>6. \/ Knows(client, x, b) \/ Carries(wire, Len(wire), x, b)
          \/ Carries(tasks', i - 1, x, b)
      BY <1>6, <3>1, <3>4, <3>5 DEF Ahead
    <3>7. QED
      BY <1>4, <3>1, <3>2, <3>6 DEF Ahead
  <2>3. QED
    BY <2>1, <2>2
<1>11. TakenInv'
  <2> SUFFICES ASSUME Taken[1] > client.born, NEW id \in 0..(sent'.next - 1)
               PROVE  \/ Knows(client, Taken[1], id)
                      \/ Carries(wire, Len(wire), Taken[1], id)
                      \/ Carries(tasks', Len(tasks'), Taken[1], id)
    BY <1>4 DEF TakenInv, Ahead
  <2>1. CASE id \in 0..(sent.next - 1)
    <3>1. Knows(client, Taken[1], id) \/ Ahead(wire, tasks, Len(tasks), Taken[1], id)
      BY <1>8, <2>1
    <3>2. Len(tasks) \in 0..Len(tasks) /\ id \in Nat
      BY <1>1, <2>1
    <3>3. QED
      BY <1>6, <1>7, <3>1, <3>2 DEF Ahead
  <2>2. CASE id \notin 0..(sent.next - 1)
    <3>1. id = Taken[2]
      BY <1>1, <1>4, <1>7, <2>2
    <3>2. m.of = <<Taken[1], id>> /\ m.kind \in {"full", "diff"}
      BY <1>4, <1>7, <3>1 DEF Messages
    <3>3. Len(tasks) + 1 \in 1..Len(tasks')
      BY <1>1, <1>5
    <3>4. Carries(tasks', Len(tasks'), Taken[1], id)
      BY <1>5, <3>2, <3>3 DEF Carries
    <3>5. QED
      BY <3>4
  <2>3. QED
    BY <2>1, <2>2
<1>12. QED
  BY <1>9, <1>10, <1>11

(* A task that is no snapshot is done. *)
LEMMA TaskDoneKeeps ==
  ASSUME TypeInv, DeliveryInv, NEW kinds, TaskReady(kinds),
         kinds \cap {"full", "diff"} = {}, sent' = sent, latest' = latest,
         client' = client, connected' = connected, wire' = wire
  PROVE  DeliveryInv'
<1>1. /\ tasks \in Seq(TaskMessages) /\ tasks # <<>> /\ tasks' = Tail(tasks)
      /\ Len(tasks) \in Nat /\ latest[1] \in Nat /\ sent.next \in Nat
      /\ Head(tasks) = tasks[1] /\ tasks[1].kind \notin {"full", "diff"}
  BY TaskIs DEF TypeInv, TaskReady
<1>2. /\ Len(tasks') = Len(tasks) - 1
      /\ \A j \in 1..Len(tasks') : tasks'[j] = tasks[j + 1]
  BY <1>1
<1>3. SUFFICES ASSUME connected, ~client.missed
               PROVE  (WireInv /\ TasksInv /\ TakenInv)'
  BY DEF DeliveryInv
<1>4. WireInv /\ TasksInv /\ TakenInv
  BY <1>3 DEF DeliveryInv
<1>5. \A n \in 0..Len(tasks), s, id \in Nat :
        Carries(tasks, n, s, id) => Carries(tasks', n - 1, s, id)
  BY <1>1, CarriesTail
<1>6. WireInv'
  BY <1>4 DEF WireInv
<1>7. TasksInv'
  <2> SUFFICES ASSUME NEW i \in 1..Len(tasks'), tasks'[i].kind = "diff",
                      tasks'[i].of[1] > client.born
               PROVE  \/ Knows(client, tasks'[i].of[1], tasks'[i].base)
                      \/ Ahead(wire, tasks', i - 1, tasks'[i].of[1],
                               tasks'[i].base)
    BY DEF TasksInv
  <2>1. /\ i + 1 \in 1..Len(tasks) /\ tasks'[i] = tasks[i + 1]
        /\ i \in 0..Len(tasks) /\ i + 1 - 1 = i
    BY <1>1, <1>2
  <2>2. PICK x \in Nat, b \in Nat :
          x = tasks[i + 1].of[1] /\ b = tasks[i + 1].base
    BY <1>1, <2>1, DiffIs
  <2>3. Knows(client, x, b) \/ Ahead(wire, tasks, i, x, b)
    BY <1>4, <2>1, <2>2 DEF TasksInv
  <2>4. Knows(client, x, b) \/ Ahead(wire, tasks', i - 1, x, b)
    BY <1>5, <2>1, <2>3 DEF Ahead
  <2>5. QED
    BY <2>1, <2>2, <2>4
<1>8. TakenInv'
  <2> SUFFICES ASSUME latest[1] > client.born, NEW id \in 0..(sent.next - 1)
               PROVE  \/ Knows(client, latest[1], id)
                      \/ Ahead(wire, tasks', Len(tasks'), latest[1], id)
    BY DEF TakenInv
  <2>1. Knows(client, latest[1], id) \/ Ahead(wire, tasks, Len(tasks), latest[1], id)
    BY <1>4 DEF TakenInv
  <2>2. Len(tasks) \in 0..Len(tasks) /\ id \in Nat
    BY <1>1
  <2>3. QED
    BY <1>1, <1>2, <1>5, <2>1, <2>2 DEF Ahead
<1>9. QED
  BY <1>6, <1>7, <1>8

(* A message goes from the task list to the socket, at the end of what is  *)
(* there.                                                                  *)
LEMMA SendMessageKeeps ==
  ASSUME TypeInv, DeliveryInv, SendMessage
  PROVE  DeliveryInv'
<1>1. /\ tasks \in Seq(TaskMessages) /\ tasks # <<>> /\ tasks' = Tail(tasks)
      /\ wire \in Seq(Messages) /\ Len(tasks) \in Nat /\ Len(wire) \in Nat
      /\ latest[1] \in Nat /\ sent.next \in Nat
      /\ UNCHANGED <<latest, sent, client, connected>>
  BY DEF TypeInv, SendMessage, TaskReady, serverVars
<1>2. CASE ~connected
  BY <1>1, <1>2 DEF SendMessage, DeliveryInv
<1>3. CASE connected
  <2>1. PICK h \in Messages : h = tasks[1] /\ wire' = Append(wire, h)
    <3>1. Head(tasks) = tasks[1] /\ tasks[1] \in TaskMessages
          /\ tasks[1].kind \in {"full", "diff"}
      BY TaskIs DEF SendMessage
    <3>2. tasks[1] \in Messages
      BY <3>1, DiffIs
    <3>3. QED
      BY <1>3, <3>1, <3>2 DEF SendMessage
  <2>2. /\ Len(wire') = Len(wire) + 1 /\ wire'[Len(wire) + 1] = h
        /\ \A j \in 1..Len(wire) : wire'[j] = wire[j]
    BY <1>1, <2>1, AppendProperties
  <2>3. /\ Len(tasks') = Len(tasks) - 1
        /\ \A j \in 1..Len(tasks') : tasks'[j] = tasks[j + 1]
    BY <1>1
  <2>4. SUFFICES ASSUME ~client.missed
                 PROVE  (WireInv /\ TasksInv /\ TakenInv)'
    BY <1>1, <1>3 DEF DeliveryInv
  <2>5. WireInv /\ TasksInv /\ TakenInv
    BY <1>3, <2>4 DEF DeliveryInv
  <2>6. \A n \in 0..Len(wire), s, id \in Nat :
          Carries(wire, n, s, id) =>
            Carries(wire', n, s, id) /\ Carries(wire', Len(wire'), s, id)
    <3>1. \A n \in 0..Len(wire), s, id \in Nat :
            Carries(wire, n, s, id) => Carries(wire', n, s, id)
      BY <1>1, <2>1, CarriesAppend
    <3>2. \A n \in 0..Len(wire) : n \in 0..Len(wire') /\ Len(wire') \in Nat
      BY <1>1, <2>2
    <3>3. QED
      BY <3>1, <3>2, CarriesFurther
  <2>7. ASSUME NEW n \in 0..Len(tasks), NEW s \in Nat, NEW id \in Nat,
               Ahead(wire, tasks, n, s, id)
        PROVE  Ahead(wire', tasks', n - 1, s, id)
    <3>1. CASE Carries(wire, Len(wire), s, id)
      <4>1. Len(wire) \in 0..Len(wire)
        BY <1>1
      <4>2. QED
        BY <2>6, <3>1, <4>1 DEF Ahead
    <3>2. CASE Carries(tasks, n, s, id)
      <4>1. \/ tasks[1].kind \in {"full", "diff"} /\ tasks[1].of = <<s, id>>
            \/ Carries(tasks', n - 1, s, id)
        BY <1>1, <3>2, CarriesTail
      <4>2. CASE tasks[1].kind \in {"full", "diff"} /\ tasks[1].of = <<s, id>>
        <5>1. Len(wire) + 1 \in 1..Len(wire')
          BY <1>1, <2>2
        <5>2. Carries(wire', Len(wire'), s, id)
          BY <2>1, <2>2, <4>2, <5>1 DEF Carries
        <5>3. QED
          BY <5>2 DEF Ahead
      <4>3. QED
        BY <4>1, <4>2 DEF Ahead
    <3>3. QED
      BY <2>7, <3>1, <3>2 DEF Ahead
  <2>8. WireInv'
    <3> SUFFICES ASSUME NEW i \in 1..Len(wire'), wire'[i].kind = "diff",
                        wire'[i].of[1] > client.born
                 PROVE  \/ Knows(client, wire'[i].of[1], wire'[i].base)
                        \/ Carries(wire', i - 1, wire'[i].of[1], wire'[i].base)
      BY <1>1 DEF WireInv
    <3>1. CASE i \in 1..Len(wire)
      <4>1. wire'[i] = wire[i] /\ i - 1 \in 0..Len(wire)
        BY <1>1, <2>2, <3>1
      <4>2. PICK x \in Nat, b \in Nat : x = wire[i].of[1] /\ b = wire[i].base
        BY <1>1, <3>1, <4>1, DiffIs DEF TaskMessages
      <4>3. Knows(client, x, b) \/ Carries(wire, i - 1, x, b)
        BY <2>5, <3>1, <4>1, <4>2 DEF WireInv
      <4>4. QED
        BY <2>6, <4>1, <4>2, <4>3
    <3>2. CASE i \notin 1..Len(wire)
      <4>1. i = Len(wire) + 1 /\ i - 1 = Len(wire) /\ wire'[i] = tasks[1]
        BY <1>1, <2>1, <2>2, <3>2
      <4>2. PICK x \in Nat, b \in Nat : x = tasks[1].of[1] /\ b = tasks[1].base
        BY <2>1, <4>1, DiffIs DEF TaskMessages
      <4>3. 1 \in 1..Len(tasks) /\ 1 - 1 = 0 /\ Len(wire) \in 0..Len(wire)
        BY <1>1
      <4>4. Knows(client, x, b) \/ Ahead(wire, tasks, 0, x, b)
        BY <2>5, <4>1, <4>2, <4>3 DEF TasksInv
      <4>5. Knows(client, x, b) \/ Carries(wire, Len(wire), x, b)
        BY <4>4 DEF Ahead, Carries
      <4>6. QED
        BY <2>6, <4>1, <4>2, <4>3, <4>5
    <3>3. QED
      BY <3>1, <3>2
  <2>9. TasksInv'
    <3> SUFFICES ASSUME NEW i \in 1..Len(tasks'), tasks'[i].kind = "diff",
                        tasks'[i].of[1] > client.born
                 PROVE  \/ Knows(client, tasks'[i].of[1], tasks'[i].base)
                        \/ Ahead(wire', tasks', i - 1, tasks'[i].of[1],
                                 tasks'[i].base)
      BY <1>1 DEF TasksInv
    <3>1. /\ i + 1 \in 1..Len(tasks) /\ tasks'[i] = tasks[i + 1]
          /\ i \in 0..Len(tasks) /\ i + 1 - 1 = i
      BY <1>1, <2>3
    <3>2. PICK x \in Nat, b \in Nat :
            x = tasks[i + 1].of[1] /\ b = tasks[i + 1].base
      BY <1>1, <3>1, DiffIs
    <3>3. Knows(client, x, b) \/ Ahead(wire, tasks, i, x, b)
      BY <2>5, <3>1, <3>2 DEF TasksInv
    <3>4. QED
      BY <2>7, <3>1, <3>2, <3>3
  <2>10. TakenInv'
    <3> SUFFICES ASSUME latest[1] > client.born, NEW id \in 0..(sent.next - 1)
                 PROVE  \/ Knows(client, latest[1], id)
                        \/ Ahead(wire', tasks', Len(tasks'), latest[1], id)
      BY <1>1 DEF TakenInv
    <3>1. \/ Knows(client, latest[1], id)
          \/ Ahead(wire, tasks, Len(tasks), latest[1], id)
      BY <2>5 DEF TakenInv
    <3>2. Len(tasks) \in 0..Len(tasks) /\ id \in Nat
      BY <1>1
    <3>3. QED
      BY <1>1, <2>3, <2>7, <3>1, <3>2
  <2>11. QED
    BY <2>8, <2>9, <2>10
<1>4. QED
  BY <1>2, <1>3

(* A client has just come: what is under way is older than it is. *)
LEMMA ConfirmKeeps ==
  ASSUME TypeInv, MessageInv, Confirm
  PROVE  DeliveryInv'
<1>1. /\ client' = NewClient /\ wire' = <<>> /\ latest' = latest
      /\ sent' = sent
  BY DEF Confirm, serverVars
<1>2. /\ client'.born = latest[1] /\ client'.bases = {}
      /\ latest \in Nat \X Nat
  BY <1>1 DEF NewClient, TypeInv
<1>3. ASSUME NEW i \in 1..Len(tasks'), tasks'[i].kind = "diff"
      PROVE  ~(tasks'[i].of[1] > latest[1])
  <2>1. tasks \in Seq(TaskMessages)
    BY DEF TypeInv
  <2>2. i + 1 \in DOMAIN tasks /\ tasks'[i] = tasks[i + 1]
    <3>1. tasks' \in Seq(TaskMessages)
      BY TaskIs DEF Confirm
    <3>2. i \in DOMAIN tasks'
      BY <3>1
    <3>3. QED
      BY <3>2, TaskIs DEF Confirm
  <2>3. tasks[i + 1].of[1] \in Nat /\ ~Before(latest, tasks[i + 1].of)
    BY <1>3, <2>1, <2>2, DiffIs DEF MessageInv, Published
  <2>4. QED
    BY <1>2, <2>2, <2>3 DEF Before
<1>4. WireInv'
  BY <1>1 DEF WireInv
<1>5. TasksInv'
  BY <1>2, <1>3 DEF TasksInv
<1>6. TakenInv'
  BY <1>1, <1>2 DEF TakenInv
<1>7. QED
  BY <1>1, <1>2, <1>4, <1>5, <1>6 DEF DeliveryInv

(* A message leaves the socket: the client knows its snapshot now.         *)
LEMMA ReceivesKeeps ==
  ASSUME TypeInv, DeliveryInv, NEW i \in 1..Parsers, Receives(i)
  PROVE  DeliveryInv'
<1>1. /\ i \in 1..Len(wire) /\ wire' = RemoveAt(wire, i)
      /\ UNCHANGED <<latest, sent, connected>>
  BY DEF Receives, ReceiveEarly, ReceiveFull, ReceiveDiff, RefuseDiff, Receive,
         serverVars
<1>2. /\ wire \in Seq(Messages) /\ tasks \in Seq(TaskMessages)
      /\ Len(wire) \in Nat /\ Len(tasks) \in Nat
      /\ latest[1] \in Nat /\ sent.next \in Nat
  BY DEF TypeInv
<1>3. Learns(i)
  BY LearnsIs DEF DeliveryInv
<1>4. Appends
  <2>1. wire[i].of[2] \in Nat
    BY <1>1, <1>2 DEF Messages
  <2>2. tasks' = tasks \/ Acknowledge(wire[i].of[2])
    BY DEF Receives, ReceiveEarly, ReceiveFull, ReceiveDiff, RefuseDiff
  <2>3. [kind |-> "ack", id |-> wire[i].of[2]] \in TaskMessages
    BY <2>1 DEF TaskMessages
  <2>4. QED
    BY <2>2, <2>3 DEF Acknowledge, Appends
<1>5. connected
  BY <1>1, <1>2 DEF DeliveryInv
<1>6. /\ Len(wire') = Len(wire) - 1
      /\ \A j \in 1..Len(wire') :
           wire'[j] = IF j < i THEN wire[j] ELSE wire[j + 1]
  BY <1>1, <1>2, RemoveAtOrder
<1>7. SUFFICES ASSUME ~client'.missed
               PROVE  (WireInv /\ TasksInv /\ TakenInv)'
  BY <1>1, <1>3, <1>5 DEF DeliveryInv, Learns
<1>8. /\ ~client.missed /\ client'.born = client.born
      /\ Knows(client', wire[i].of[1], wire[i].of[2])
      /\ \A s, k \in Nat : Knows(client, s, k) => Knows(client', s, k)
  BY <1>3, <1>7 DEF Learns
<1>9. WireInv /\ TasksInv /\ TakenInv
  BY <1>5, <1>8 DEF DeliveryInv
<1>10. ASSUME NEW n \in 0..Len(wire), NEW s \in Nat, NEW id \in Nat,
              Carries(wire, n, s, id)
       PROVE  \/ Knows(client', s, id)
              \/ Carries(wire', IF n < i THEN n ELSE n - 1, s, id)
  BY <1>1, <1>2, <1>8, <1>10, CarriesRemove
<1>11. ASSUME NEW n \in 0..Len(tasks), NEW s \in Nat, NEW id \in Nat,
              Ahead(wire, tasks, n, s, id)
       PROVE  /\ Knows(client', s, id) \/ Ahead(wire', tasks', n, s, id)
              /\ \/ Knows(client', s, id)
                 \/ Ahead(wire', tasks', Len(tasks'), s, id)
  <2>1. CASE Carries(wire, Len(wire), s, id)
    <3>1. Len(wire) \in 0..Len(wire) /\ ~(Len(wire) < i)
      BY <1>1, <1>2
    <3>2. Knows(client', s, id) \/ Carries(wire', Len(wire'), s, id)
      BY <1>6, <1>10, <2>1, <3>1
    <3>3. QED
      BY <3>2 DEF Ahead
  <2>2. CASE Carries(tasks, n, s, id)
    BY <1>4, <2>2, AppendsIs DEF Ahead
  <2>3. QED
    BY <1>11, <2>1, <2>2 DEF Ahead
<1>12. WireInv'
  <2> SUFFICES ASSUME NEW j \in 1..Len(wire'), wire'[j].kind = "diff",
                      wire'[j].of[1] > client.born
               PROVE  \/ Knows(client', wire'[j].of[1], wire'[j].base)
                      \/ Carries(wire', j - 1, wire'[j].of[1], wire'[j].base)
    BY <1>8 DEF WireInv
  <2>1. PICK k \in 1..Len(wire) : /\ k = IF j < i THEN j ELSE j + 1
                                  /\ wire'[j] = wire[k]
    BY <1>1, <1>2, <1>6
  <2>2. PICK x \in Nat, b \in Nat : x = wire[k].of[1] /\ b = wire[k].base
    BY <1>2, <2>1, DiffIs DEF TaskMessages
  <2>3. Knows(client, x, b) \/ Carries(wire, k - 1, x, b)
    BY <1>9, <2>1, <2>2 DEF WireInv
  <2>4. /\ k - 1 \in 0..Len(wire)
        /\ j - 1 = IF k - 1 < i THEN k - 1 ELSE k - 1 - 1
    <3>1. CASE j < i
      BY <1>1, <1>2, <2>1, <3>1
    <3>2. CASE ~(j < i)
      BY <1>1, <1>2, <2>1, <3>2
    <3>3. QED
      BY <3>1, <3>2
  <2>5. Knows(client', x, b) \/ Carries(wire', j - 1, x, b)
    BY <1>8, <1>10, <2>3, <2>4
  <2>6. QED
    BY <2>1, <2>2, <2>5
<1>13. TasksInv'
  <2> SUFFICES ASSUME NEW j \in 1..Len(tasks'), tasks'[j].kind = "diff",
                      tasks'[j].of[1] > client.born
               PROVE  \/ Knows(client', tasks'[j].of[1], tasks'[j].base)
                      \/ Ahead(wire', tasks', j - 1, tasks'[j].of[1],
                               tasks'[j].base)
    BY <1>8 DEF TasksInv
  <2>1. j \in 1..Len(tasks) /\ tasks'[j] = tasks[j]
    BY <1>4, AppendsIs
  <2>2. PICK x \in Nat, b \in Nat : x = tasks[j].of[1] /\ b = tasks[j].base
    BY <1>2, <2>1, DiffIs
  <2>3. Knows(client, x, b) \/ Ahead(wire, tasks, j - 1, x, b)
    BY <1>9, <2>1, <2>2 DEF TasksInv
  <2>4. j - 1 \in 0..Len(tasks)
    BY <1>2, <2>1
  <2>5. QED
    BY <1>8, <1>11, <2>1, <2>2, <2>3, <2>4
<1>14. TakenInv'
  <2> SUFFICES ASSUME latest[1] > client.born, NEW id \in 0..(sent.next - 1)
               PROVE  \/ Knows(client', latest[1], id)
                      \/ Ahead(wire', tasks', Len(tasks'), latest[1], id)
    BY <1>1, <1>8 DEF TakenInv
  <2>1. \/ Knows(client, latest[1], id)
        \/ Ahead(wire, tasks, Len(tasks), latest[1], id)
    BY <1>9 DEF TakenInv
  <2>2. Len(tasks) \in 0..Len(tasks) /\ id \in Nat
    BY <1>2
  <2>3. QED
    BY <1>2, <1>8, <1>11, <2>1, <2>2
<1>15. QED
  BY <1>12, <1>13, <1>14

LEMMA ClientMovesKeep ==
  ASSUME TypeInv, ClientMoves
  PROVE  Appends /\ SameClient
<1>1. CASE PreloadDone \/ LoadDone
  BY <1>1
     DEF PreloadDone, LoadDone, ClientStage, Appends, SameClient, TypeInv, Clients
<1>2. ASSUME NEW ready \in BOOLEAN, SendPing(ready) PROVE Appends
  <2>1. [kind |-> "ping", ready |-> ready] \in TaskMessages
    BY DEF TaskMessages
  <2>2. QED
    BY <1>2, <2>1 DEF SendPing, Appends
<1>3. CASE Ping
  <2>1. (client.stage \in {"running", "late"}) \in BOOLEAN
    OBVIOUS
  <2>2. QED
    BY <1>2, <1>3, <2>1 DEF Ping, SameClient
<1>4. CASE LatePing
  BY <1>2, <1>4 DEF LatePing, SameClient, TypeInv, Clients
<1>5. QED
  BY <1>1, <1>3, <1>4 DEF ClientMoves

LEMMA DeliveryKept ==
  ASSUME SyncInv, DeliveryInv, Next
  PROVE  DeliveryInv'
<1> USE DEF SyncInv
<1>1. CASE FrameAcks \/ FrameState
  <2>1. Appends /\ SameClient
    BY <1>1 DEF FrameAcks, FrameState, Appends, SameClient
  <2>2. QED
    BY <1>1, <2>1, QuietKeeps DEF FrameAcks, FrameState, connVars
<1>2. CASE FrameSend
  <2>1. /\ client' = client /\ connected' = connected /\ wire' = wire
        /\ game = "send"
    BY <1>2 DEF FrameSend, connVars
  <2>2. CASE \E m \in Messages, p \in 0..net.acked :
               Takes(m, p) /\ (m.kind = "diff" => m.base < sent.next)
    BY <2>1, <2>2, TakeKeeps
  <2>3. CASE /\ latest' = latest /\ tasks' = tasks
             /\ \/ sent' = NoSession
                \/ sent' = [sent EXCEPT !.ids = net.acked..(sent.next - 1)]
    <3>1. sent'.next \in {sent.next, 0}
      BY <2>3 DEF NoSession, TypeInv
    <3>2. Appends /\ SameClient
      BY <2>1, <2>3 DEF Appends, SameClient
    <3>3. QED
      BY <2>1, <2>3, <3>1, <3>2, QuietKeeps
  <2>4. QED
    BY <1>2, <2>1, <2>2, <2>3, SendIs
<1>3. CASE TryConnect
  <2>1. [kind |-> "confirm"] \in TaskMessages
    BY DEF TaskMessages
  <2>2. Appends /\ SameClient
    BY <1>3, <2>1 DEF TryConnect, Appends, SameClient
  <2>3. QED
    BY <1>3, <2>2, QuietKeeps DEF TryConnect, serverVars
<1>4. CASE Confirm
  BY <1>4, ConfirmKeeps
<1>5. CASE SendMessage
  BY <1>5, SendMessageKeeps
<1>6. CASE RecvAck \/ RecvPing
  <2>1. \E kinds : TaskReady(kinds) /\ kinds \cap {"full", "diff"} = {}
    <3>1. {"ack"} \cap {"full", "diff"} = {} /\ {"ping"} \cap {"full", "diff"} = {}
      OBVIOUS
    <3>2. QED
      BY <1>6, <3>1 DEF RecvAck, RecvPing
  <2>2. UNCHANGED <<sent, latest, client, connected, wire>>
    BY <1>6 DEF RecvAck, RecvPing, serverVars, connVars
  <2>3. QED
    BY <2>1, <2>2, TaskDoneKeeps
<1>7. CASE Disconnect
  <2>1. ~connected' /\ wire' = <<>> /\ client'.bases = {}
    BY <1>7 DEF Disconnect, NewClient
  <2>2. QED
    BY <2>1 DEF DeliveryInv
<1>8. CASE ClientMoves
  BY <1>8, ClientMovesKeep, ClientMovesIs, QuietKeeps DEF serverVars, connVars
<1>9. CASE \E i \in 1..Parsers : Receives(i)
  BY <1>9, ReceivesKeeps
<1>10. QED
  BY <1>1, <1>2, <1>3, <1>4, <1>5, <1>6, <1>7, <1>8, <1>9, NextIs

(* The second inductive invariant: every snapshot taken since the client   *)
(* came has been received by it, or is under way, and the base of a diff   *)
(* ahead of the diff.                                                      *)
THEOREM DeliveryInvariant == Spec => []DeliveryInv
<1>1. Init => DeliveryInv
  BY DEF Init, DeliveryInv, NewClient
<1>2. SyncInv /\ DeliveryInv /\ [Next]_vars => DeliveryInv'
  <2> SUFFICES ASSUME SyncInv, DeliveryInv, [Next]_vars PROVE DeliveryInv'
    OBVIOUS
  <2>1. CASE Next
    BY <2>1, DeliveryKept
  <2>2. CASE UNCHANGED vars
    <3>1. Appends /\ SameClient
      BY <2>2 DEF vars, Appends, SameClient
    <3>2. QED
      BY <2>2, <3>1, QuietKeeps DEF vars, serverVars, connVars, SyncInv
  <2>3. QED
    BY <2>1, <2>2
<1>3. QED
  BY <1>1, <1>2, SyncInvariant, PTL DEF Spec

(* A diff is refused only for one of the reasons RefusalExplained names,   *)
(* whatever the size of the cache, the threads, the intervals of           *)
(* QueueClientMessagesSystem and the speed of the main thread.             *)
THEOREM SyncRefusals == Spec => RefusalExplained
<1> DEFINE Explained ==
      \A i \in 1..Parsers : RefuseDiff(i) =>
        \/ wire[i].of[1] <= client.born
        \/ client.missed
        \/ Dropped(client, wire[i].base)
        \/ \E j \in 1..i - 1 : wire[j].of = BaseOf(wire[i])
        \/ BaseOf(wire[i]) \in client.refused
<1>1. SyncInv /\ DeliveryInv /\ [Next]_vars => [Explained]_vars
  <2> SUFFICES ASSUME SyncInv, DeliveryInv, NEW i \in 1..Parsers, RefuseDiff(i),
                      ~(wire[i].of[1] <= client.born), ~client.missed
               PROVE  \/ Dropped(client, wire[i].base)
                      \/ \E j \in 1..i - 1 : wire[j].of = BaseOf(wire[i])
                      \/ BaseOf(wire[i]) \in client.refused
    OBVIOUS
  <2>1. /\ i \in 1..Len(wire) /\ wire[i].kind = "diff"
        /\ wire[i].base \notin DOMAIN client.stored
    BY DEF RefuseDiff, Receive, SyncInv, TypeInv
  <2>2. wire \in Seq(Messages) /\ client.born \in Nat
    BY DEF SyncInv, TypeInv, Clients
  <2>3. wire[i].of[1] \in Nat
    BY <2>1, <2>2, DiffIs DEF TaskMessages
  <2>4. wire[i].of[1] > client.born
    BY <2>2, <2>3
  <2>5. connected
    BY <2>1, <2>2 DEF DeliveryInv
  <2>6. \/ Knows(client, wire[i].of[1], wire[i].base)
        \/ Carries(wire, i - 1, wire[i].of[1], wire[i].base)
    BY <2>1, <2>4, <2>5 DEF DeliveryInv, WireInv
  <2>7. QED
    BY <2>1, <2>6 DEF Knows, Has, Carries, BaseOf
<1>2. QED
  BY <1>1, SyncInvariant, DeliveryInvariant, PTL DEF Spec, RefusalExplained

=============================================================================
