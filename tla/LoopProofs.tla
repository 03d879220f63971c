------------------------------ MODULE LoopProofs ------------------------------
(***************************************************************************)
(* Streams on the loop of epoll, for any number of descriptors, addresses  *)
(* and bytes: an event reaches the stream it was polled for or nobody,     *)
(* bytes leave in the order they were written, and a connected stream      *)
(* watches for writing exactly while output waits.                         *)
(*                                                                         *)
(* What makes the first one hold is that an address which the poll         *)
(* returned is not free before the loop is over, so that what is live at   *)
(* it is still what was polled.                                            *)
(*                                                                         *)
(* The loop on select implements the loop on epoll.  Beside its sets and   *)
(* its table, which SetsAgree ties to the registrations, this needs that   *)
(* what waits in the queue of a poll is not freed (Kept), so that an entry *)
(* names one registration, live or deleted, until it is handed out.        *)
(***************************************************************************)
EXTENDS MCLoop, SequenceTheorems, TLAPS

Byte == 1..MaxByte

\* The entries of a poll that the loop is not done with.
Pending == polled \cup ({entry} \ {None})

Polled ==
  /\ \A x \in Live : fdOf[x] \in Fd
  /\ \A e \in Pending :
       mem[e.sfd] # "free" /\ (mem[e.sfd] = "live" => fdOf[e.sfd] = e.fd)

\* A stream that is closed, or not created, has no output.
Quiet == \A s \in Stream : type[s] = "none" => outbuf[s] = <<>>

Agreement == TypeOK /\ RegistrationsAgree /\ Polled
IInv == Agreement /\ Quiet /\ WatchesOutput /\ InOrder

-----------------------------------------------------------------------------
(* What the steps of the loop and the calls to it do. *)

LEMMA DueFinds ==
  ASSUME Agreement, Due
  PROVE  /\ entry \in Entries /\ entry # None
         /\ entry.sfd \in Sfd /\ entry.fd \in Fd /\ mem[entry.sfd] = "live"
         /\ sfd[entry.fd] = entry.sfd /\ type[entry.fd] # "none"
<1>1. entry \in Entries /\ entry # None /\ mem[entry.sfd] = "live"
  BY DEF Due, Upcoming, Agreement, TypeOK, LoopTypeOK
<1>2. entry.sfd \in Sfd /\ entry.fd \in Fd
  BY <1>1 DEF Entries
<1>3. fdOf[entry.sfd] = entry.fd
  BY <1>1 DEF Agreement, Polled, Pending
<1>4. sfd[entry.fd] = entry.sfd
  BY <1>1, <1>2, <1>3 DEF Agreement, RegistrationsAgree, Live
<1> QED
  BY <1>1, <1>2, <1>4, StreamAssumption DEF Agreement, RegistrationsAgree, Stream

LEMMA Consumes ==
  ASSUME TypeOK, Consume, Upcoming # None
  PROVE  /\ entry \in Entries /\ entry # None /\ is_in_loop
         /\ entry' \in Entries /\ entry'.sfd = entry.sfd /\ entry'.fd = entry.fd
BY DEF Consume, Upcoming, Entries, TypeOK, LoopTypeOK

\* The three ways in which registrations come, go and stay.
Registers(s, x) ==
  /\ mem[x] = "free" /\ sfd[s] = None
  /\ mem' = [mem EXCEPT ![x] = "live"]
  /\ fdOf' = [fdOf EXCEPT ![x] = s]
  /\ sfd' = [sfd EXCEPT ![s] = x]

Unregisters(s) ==
  /\ sfd[s] # None
  /\ \E m \in {"free", "deleted"} :
       mem' = [mem EXCEPT ![sfd[s]] = m] /\ (is_in_loop => m = "deleted")
  /\ fdOf' = [fdOf EXCEPT ![sfd[s]] = None]
  /\ sfd' = [sfd EXCEPT ![s] = None]

LEMMA RegistersAgree ==
  ASSUME Agreement, NEW s \in Stream, NEW x \in Sfd, Registers(s, x),
         type'[s] # "none", \A r \in Stream \ {s} : type'[r] = type[r]
  PROVE  RegistrationsAgree'
<1> USE StreamAssumption DEF Agreement, TypeOK, LoopTypeOK, Registers, Stream
<1>1. ASSUME NEW r \in Stream, sfd'[r] # None
      PROVE  type'[r] # "none" /\ mem'[sfd'[r]] = "live" /\ fdOf'[sfd'[r]] = r
  <2>1. CASE r = s
    BY <2>1
  <2>2. CASE r # s
    <3>1. sfd'[r] = sfd[r] /\ sfd[r] \in Sfd /\ mem[sfd[r]] = "live" /\ fdOf[sfd[r]] = r
          /\ type[r] # "none"
      BY <1>1, <2>2 DEF RegistrationsAgree
    <3>2. sfd[r] # x
      BY <3>1
    <3> QED
      BY <2>2, <3>1, <3>2
  <2> QED
    BY <2>1, <2>2
<1>2. ASSUME NEW y \in Sfd, mem'[y] = "live" PROVE sfd'[fdOf'[y]] = y
  <2>1. CASE y = x
    BY <2>1
  <2>2. CASE y # x
    <3>1. mem[y] = "live" /\ fdOf'[y] = fdOf[y] /\ fdOf[y] \in Fd /\ sfd[fdOf[y]] = y
      BY <1>2, <2>2 DEF RegistrationsAgree, Live, Polled
    <3>2. fdOf[y] # s
      BY <3>1
    <3> QED
      BY <3>1, <3>2
  <2> QED
    BY <2>1, <2>2
<1> QED
  BY <1>1, <1>2 DEF RegistrationsAgree, Live

LEMMA UnregistersAgree ==
  ASSUME Agreement, NEW s \in Stream, Unregisters(s),
         \A r \in Stream \ {s} : type'[r] = type[r]
  PROVE  RegistrationsAgree'
<1> USE StreamAssumption DEF Agreement, TypeOK, LoopTypeOK, Stream
<1> DEFINE x == sfd[s]
<1>1. /\ x \in Sfd /\ x # None /\ mem[x] = "live" /\ fdOf[x] = s
      /\ \E m \in {"free", "deleted"} : mem' = [mem EXCEPT ![x] = m]
      /\ fdOf' = [fdOf EXCEPT ![x] = None] /\ sfd' = [sfd EXCEPT ![s] = None]
  <2>1. /\ x # None
        /\ \E m \in {"free", "deleted"} : mem' = [mem EXCEPT ![x] = m]
        /\ fdOf' = [fdOf EXCEPT ![x] = None] /\ sfd' = [sfd EXCEPT ![s] = None]
    BY DEF Unregisters
  <2>2. x \in Sfd /\ mem[x] = "live" /\ fdOf[x] = s
    BY <2>1 DEF RegistrationsAgree
  <2> QED
    BY <2>1, <2>2
<1> HIDE DEF x
<1>2. ASSUME NEW r \in Stream, sfd'[r] # None
      PROVE  type'[r] # "none" /\ mem'[sfd'[r]] = "live" /\ fdOf'[sfd'[r]] = r
  <2>1. r # s /\ sfd'[r] = sfd[r] /\ sfd[r] \in Sfd
    BY <1>1, <1>2
  <2>2. mem[sfd[r]] = "live" /\ fdOf[sfd[r]] = r /\ type[r] # "none"
    BY <1>2, <2>1 DEF RegistrationsAgree
  <2>3. sfd[r] # x
    BY <1>1, <2>1, <2>2
  <2> QED
    BY <1>1, <2>1, <2>2, <2>3
<1>3. ASSUME NEW y \in Sfd, mem'[y] = "live" PROVE sfd'[fdOf'[y]] = y
  <2>1. y # x
    BY <1>1, <1>3
  <2>2. mem[y] = "live" /\ fdOf'[y] = fdOf[y] /\ fdOf[y] \in Fd /\ sfd[fdOf[y]] = y
    BY <1>1, <1>3, <2>1 DEF RegistrationsAgree, Live, Polled
  <2>3. fdOf[y] # s
    BY <1>1, <2>1, <2>2 DEF x
  <2> QED
    BY <1>1, <2>2, <2>3
<1> QED
  BY <1>2, <1>3 DEF RegistrationsAgree, Live

\* The loop is still at some of the entries it was at.
Narrows ==
  \A e \in Pending' : \E d \in Pending : d.sfd = e.sfd /\ d.fd = e.fd

LEMMA RegistersPolled ==
  ASSUME Agreement, NEW s \in Stream, NEW x \in Sfd, Registers(s, x), Narrows
  PROVE  Polled'
<1> USE DEF Agreement, TypeOK, LoopTypeOK, Registers, Stream
<1>1. \A y \in Live' : fdOf'[y] \in Fd
  BY DEF Live, Polled
<1>2. ASSUME NEW e \in Pending'
      PROVE  mem'[e.sfd] # "free" /\ (mem'[e.sfd] = "live" => fdOf'[e.sfd] = e.fd)
  <2>1. PICK d \in Pending : d.sfd = e.sfd /\ d.fd = e.fd
    BY <1>2 DEF Narrows
  <2>2. mem[e.sfd] # "free" /\ (mem[e.sfd] = "live" => fdOf[e.sfd] = e.fd)
    BY <2>1 DEF Polled
  <2>3. e.sfd # x
    BY <2>2
  <2>4. e.sfd \in Sfd
    BY <2>1 DEF Pending, Entries
  <2> QED
    BY <2>2, <2>3, <2>4
<1> QED
  BY <1>1, <1>2 DEF Polled

LEMMA UnregistersPolled ==
  ASSUME Agreement, NEW s \in Stream, Unregisters(s), UNCHANGED <<is_in_loop, polled, entry>>
  PROVE  Polled'
<1> USE DEF Agreement, TypeOK, LoopTypeOK
<1> DEFINE x == sfd[s]
<1>1. PICK m \in {"free", "deleted"} :
        mem' = [mem EXCEPT ![x] = m] /\ (is_in_loop => m = "deleted")
  BY DEF Unregisters
<1>2. fdOf' = [fdOf EXCEPT ![x] = None] /\ x \in Sfd
  BY DEF Unregisters, Stream
<1> HIDE DEF x
<1>3. \A y \in Live' : fdOf'[y] \in Fd
  BY <1>1, <1>2 DEF Live, Polled
<1>4. ASSUME NEW e \in Pending'
      PROVE  mem'[e.sfd] # "free" /\ (mem'[e.sfd] = "live" => fdOf'[e.sfd] = e.fd)
  <2>1. e \in Pending
    BY <1>4 DEF Pending
  <2>2. is_in_loop /\ e.sfd \in Sfd
    BY <2>1 DEF Pending, Entries
  <2>3. mem[e.sfd] # "free" /\ (mem[e.sfd] = "live" => fdOf[e.sfd] = e.fd)
    BY <2>1 DEF Polled
  <2> QED
    BY <1>1, <1>2, <2>2, <2>3
<1> QED
  BY <1>3, <1>4 DEF Polled

LEMMA StaysPolled ==
  ASSUME Agreement, UNCHANGED <<mem, fdOf>>, Narrows
  PROVE  Polled'
BY DEF Agreement, Narrows, Polled, Live

LEMMA StaysAgreed ==
  ASSUME RegistrationsAgree, UNCHANGED <<mem, fdOf, sfd>>,
         \A s \in Stream : type[s] # "none" => type'[s] # "none"
  PROVE  RegistrationsAgree'
BY DEF RegistrationsAgree, Live

-----------------------------------------------------------------------------
(* Which actions do what to the registrations. *)

\* No handler and no call of the user, between two runs or in a callback, ...
LoopStays == UNCHANGED <<is_in_loop, polled, entry>>

LEMMA StaysNarrows ==
  ASSUME LoopStays
  PROVE  Narrows
BY DEF LoopStays, Narrows, Pending

LEMMA RegisterRegisters ==
  ASSUME TypeOK, NEW s \in Stream, NEW t, Register(s, t), sfd[s] = None
  PROVE  LoopStays /\ \E x \in Sfd : Registers(s, x) /\ watch' = [watch EXCEPT ![x] = FirstWatch(s, t)]
BY DEF Register, Add, Registers, LoopStays

LEMMA DelUnregisters ==
  ASSUME TypeOK, NEW s \in Stream, sfd[s] # None, Del(sfd[s]), sfd' = [sfd EXCEPT ![s] = None]
  PROVE  LoopStays /\ Unregisters(s) /\ watch' = [watch EXCEPT ![sfd[s]] = {}]
BY DEF Del, Unregisters, LoopStays

LEMMA HandOutNarrows ==
  ASSUME TypeOK, NEW ev, HandOut(ev)
  PROVE  /\ Narrows /\ Due /\ is_in_loop /\ is_in_loop' = is_in_loop
         /\ polled' = polled /\ entry' \in Entries
<1>1. Consume /\ Due /\ Upcoming # None /\ polled' = polled /\ is_in_loop' = is_in_loop
  BY DEF HandOut, Due
<1>2. /\ entry \in Entries /\ entry # None /\ is_in_loop
      /\ entry' \in Entries /\ entry'.sfd = entry.sfd /\ entry'.fd = entry.fd
  BY <1>1, Consumes
<1> QED
  BY <1>1, <1>2 DEF Narrows, Pending

LEMMA AcceptRegisters ==
  ASSUME Agreement, Accept
  PROVE  /\ Narrows /\ is_in_loop /\ is_in_loop' = is_in_loop
         /\ polled' = polled /\ entry' \in Entries
         /\ \/ UNCHANGED <<mem, fdOf, watch, streamVars, at>>
            \/ \E s \in Stream, x \in Sfd :
                 /\ Registers(s, x) /\ type[s] = "none"
                 /\ type' = [type EXCEPT ![s] = "normal"]
                 /\ watch' = [watch EXCEPT ![x] = {"read"}]
                 /\ at' = "callback" /\ UNCHANGED <<outbuf, sent, accepted>>
<1>1. \E ev \in {"read", "error"} : HandOut(ev)
  BY DEF Accept
<1>2. Narrows /\ is_in_loop /\ is_in_loop' = is_in_loop /\ polled' = polled /\ entry' \in Entries
  BY <1>1, HandOutNarrows DEF Agreement
<1>3. \A s \in Stream : type[s] = "none" => sfd[s] = None
  BY DEF Agreement, RegistrationsAgree
<1> QED
  BY <1>2, <1>3 DEF Accept, Registers

-----------------------------------------------------------------------------
(* Sequences. *)

LEMMA Split ==
  ASSUME NEW A, NEW b \in Seq(A), NEW k \in 0..Len(b)
  PROVE  /\ SubSeq(b, 1, k) \in Seq(A) /\ SubSeq(b, k + 1, Len(b)) \in Seq(A)
         /\ SubSeq(b, 1, k) \o SubSeq(b, k + 1, Len(b)) = b
         /\ SubSeq(b, k + 1, Len(b)) = <<>> <=> k = Len(b)
<1>1. Len(b) \in Nat /\ k \in Int /\ k + 1 \in Int /\ k <= Len(b) /\ k >= 0
  BY LenProperties
<1>2. /\ \A i \in 1..k : b[i] \in A
      /\ \A i \in k + 1..Len(b) : b[i] \in A
  <2>1. \A i \in 1..Len(b) : b[i] \in A
    BY ElementOfSeq
  <2> QED
    BY <1>1, <2>1
<1>3. SubSeq(b, 1, k) \in Seq(A)
  BY <1>1, <1>2, SubSeqProperties
<1>4. /\ SubSeq(b, k + 1, Len(b)) \in Seq(A)
      /\ Len(SubSeq(b, k + 1, Len(b))) = IF k + 1 <= Len(b) THEN Len(b) - (k + 1) + 1 ELSE 0
  BY <1>1, <1>2, SubSeqProperties
<1>5. SubSeq(b, 1, k) \o SubSeq(b, k + 1, Len(b)) = b
  <2>1. 1 \in 1..Len(b) + 1 /\ k \in 1 - 1..Len(b) /\ Len(b) \in k..Len(b)
    BY <1>1
  <2> QED
    BY <2>1, ConcatAdjacentSubSeq, SubSeqFull
<1> DEFINE r == SubSeq(b, k + 1, Len(b))
<1>6. r = <<>> <=> k = Len(b)
  <2> HIDE DEF r
  <2>1. r \in Seq(A) /\ Len(r) = IF k + 1 <= Len(b) THEN Len(b) - (k + 1) + 1 ELSE 0
    BY <1>4 DEF r
  <2>2. Len(r) = Len(b) - k
    BY <1>1, <2>1
  <2>3. r = <<>> <=> Len(r) = 0
    BY <2>1, EmptySeq
  <2> QED
    BY <1>1, <2>2, <2>3
<1> QED
  BY <1>3, <1>4, <1>5, <1>6

LEMMA Associates ==
  ASSUME NEW a \in Seq(Byte), NEW b \in Seq(Byte), NEW c \in Seq(Byte)
  PROVE  (a \o b) \o c = a \o (b \o c)
BY ConcatAssociative

LEMMA Joined ==
  ASSUME NEW a \in Seq(Byte), NEW b \in Seq(Byte)
  PROVE  a \o b \in Seq(Byte) /\ (a \o b = <<>> <=> a = <<>> /\ b = <<>>)
BY ConcatProperties, ConcatEqualIffEmpty

\* A function over 1..l is a sequence of length l.
LEMMA IsSequence ==
  ASSUME NEW A, NEW l \in Nat, NEW d \in [1..l -> A]
  PROVE  d \in Seq(A) /\ Len(d) = l
<1>1. d \in Seq(A)
  BY SeqDef
<1>2. Len(d) \in Nat /\ DOMAIN d = 1..Len(d)
  BY <1>1, LenProperties
<1>3. 1..Len(d) = 1..l
  BY <1>2
<1> QED
  BY <1>1, <1>2, <1>3

OneTo(a) == [i \in 1..a |-> i]

\* The bytes of a write continue those before it.
LEMMA ChunkContinues ==
  ASSUME TypeOK, NEW s \in Stream, NEW n \in 1..MaxByte, accepted[s] + n <= MaxByte
  PROVE  /\ Chunk(s, n) \in Seq(Byte) /\ Len(Chunk(s, n)) = n /\ Chunk(s, n) # <<>>
         /\ OneTo(accepted[s]) \o Chunk(s, n) = OneTo(accepted[s] + n)
         /\ accepted[s] + n \in 0..MaxByte
<1> DEFINE a == accepted[s]
           c == Chunk(s, n)
<1>1. a \in Nat /\ n \in Nat \ {0} /\ a + n \in Nat /\ a + n <= MaxByte /\ MaxByte \in Nat
  BY StreamAssumption DEF TypeOK
<1> HIDE DEF a
<1>2. c \in [1..n -> Byte] /\ \A i \in 1..n : c[i] = a + i
  BY <1>1 DEF Chunk, Byte, a
<1> HIDE DEF c
<1>3. c \in Seq(Byte) /\ Len(c) = n
  BY <1>1, <1>2, IsSequence
<1>4. OneTo(a) \in [1..a -> Byte] /\ OneTo(a + n) \in [1..a + n -> Byte]
      /\ \A i \in 1..a : OneTo(a)[i] = i
      /\ \A j \in 1..a + n : OneTo(a + n)[j] = j
  BY <1>1 DEF OneTo, Byte
<1>5. /\ OneTo(a) \in Seq(Byte) /\ Len(OneTo(a)) = a
      /\ OneTo(a + n) \in Seq(Byte) /\ Len(OneTo(a + n)) = a + n
  BY <1>1, <1>4, IsSequence
<1> DEFINE d == OneTo(a) \o c
<1>6. /\ d \in Seq(Byte) /\ Len(d) = a + n
      /\ \A i \in 1..a + n : d[i] = IF i <= a THEN OneTo(a)[i] ELSE c[i - a]
  <2> DEFINE o == OneTo(a)
  <2>1. o \in Seq(Byte) /\ Len(o) = a
    BY <1>5
  <2> HIDE DEF o
  <2>2. /\ o \o c \in Seq(Byte) /\ Len(o \o c) = Len(o) + Len(c)
        /\ \A i \in 1..Len(o) + Len(c) : (o \o c)[i] = IF i <= Len(o) THEN o[i] ELSE c[i - Len(o)]
    BY <1>3, <2>1, ConcatProperties
  <2> QED
    BY <1>3, <2>1, <2>2 DEF o
<1> HIDE DEF d
<1>7. ASSUME NEW i \in 1..a + n PROVE d[i] = OneTo(a + n)[i]
  <2>1. CASE i <= a
    <3>1. i \in 1..a
      BY <1>1, <2>1
    <3> QED
      BY <1>4, <1>6, <2>1, <3>1
  <2>2. CASE ~(i <= a)
    <3>1. i - a \in 1..n /\ a + (i - a) = i
      BY <1>1, <2>2
    <3>2. d[i] = c[i - a] /\ c[i - a] = a + (i - a)
      BY <1>2, <1>6, <2>2, <3>1
    <3>3. OneTo(a + n)[i] = i
      BY DEF OneTo
    <3> QED
      BY <3>1, <3>2, <3>3
  <2> QED
    BY <2>1, <2>2
<1>8. d = OneTo(a + n)
  BY <1>5, <1>6, <1>7, SeqEqual
<1>9. c # <<>>
  BY <1>1, <1>3, EmptySeq
<1> QED
  BY <1>1, <1>3, <1>8, <1>9 DEF a, c, d

-----------------------------------------------------------------------------
(* The registrations agree with the streams, and with what is polled. *)

\* What Write does, by where the bytes go.
LEMMA WriteSteps ==
  ASSUME TypeOK, NEW s \in Stream, NEW n \in 1..MaxByte, Write(s, n)
  PROVE  /\ UNCHANGED <<mem, fdOf, type, sfd>> /\ LoopStays
         /\ type[s] \in {"connect", "normal"} /\ at # "crashed"
         /\ accepted' = [accepted EXCEPT ![s] = accepted[s] + n] /\ accepted[s] + n \in 0..MaxByte
         /\ \/ /\ MustWait(s) /\ outbuf' = [outbuf EXCEPT ![s] = outbuf[s] \o Chunk(s, n)]
               /\ UNCHANGED <<watch, sent, at>>
            \/ \E k \in 0..n :
                 /\ ~MustWait(s)
                 /\ sent' = [sent EXCEPT ![s] = sent[s] \o SubSeq(Chunk(s, n), 1, k)]
                 /\ outbuf' = [outbuf EXCEPT ![s] = outbuf[s] \o SubSeq(Chunk(s, n), k + 1, n)]
                 /\ \/ k = n /\ UNCHANGED <<watch, at>>
                    \/ k # n /\ sfd[s] = None /\ at' = "crashed" /\ UNCHANGED watch
                    \/ /\ k # n /\ sfd[s] # None /\ UNCHANGED at
                       /\ watch' = [watch EXCEPT ![sfd[s]] = watch[sfd[s]] \cup {"write"}]
<1>1. accepted[s] + n \in 0..MaxByte
  BY ChunkContinues DEF Write
<1> QED
  BY <1>1 DEF Write, UserRuns, Watches, LoopStays, loopVars

LEMMA AgreeNext ==
  ASSUME Agreement, Next
  PROVE  RegistrationsAgree' /\ Polled'
<1> USE DEF Agreement
<1>1. ASSUME NEW s \in Stream, NEW x \in Sfd, Registers(s, x), Narrows,
             type'[s] # "none", \A r \in Stream \ {s} : type'[r] = type[r]
      PROVE  RegistrationsAgree' /\ Polled'
  BY <1>1, RegistersAgree, RegistersPolled
<1>2. ASSUME NEW s \in Stream, sfd[s] # None, Del(sfd[s]), sfd' = [sfd EXCEPT ![s] = None],
             \A r \in Stream \ {s} : type'[r] = type[r]
      PROVE  RegistrationsAgree' /\ Polled'
  BY <1>2, DelUnregisters, UnregistersAgree, UnregistersPolled DEF LoopStays
<1>3. ASSUME UNCHANGED <<mem, fdOf, sfd>>, Narrows,
             \A s \in Stream : type[s] # "none" => type'[s] # "none"
      PROVE  RegistrationsAgree' /\ Polled'
  BY <1>3, StaysAgreed, StaysPolled
<1>4. ASSUME NEW s \in Stream, NEW t \in {"listen", "connect"}, Open(s, t)
      PROVE  RegistrationsAgree' /\ Polled'
  <2>1. sfd[s] = None
    BY <1>4 DEF Open, RegistrationsAgree
  <2>2. PICK x \in Sfd : Registers(s, x) /\ LoopStays
    BY <1>4, <2>1, RegisterRegisters DEF Open
  <2>3. type'[s] # "none" /\ \A r \in Stream \ {s} : type'[r] = type[r]
    BY <1>4 DEF Open, TypeOK
  <2> QED
    BY <1>1, <2>2, <2>3, StaysNarrows
<1>5. ASSUME NEW s \in Stream, Close(s) PROVE RegistrationsAgree' /\ Polled'
  <2>1. sfd' = [sfd EXCEPT ![s] = None] /\ \A r \in Stream \ {s} : type'[r] = type[r]
    BY <1>5 DEF Close, TypeOK
  <2>2. CASE sfd[s] # None
    BY <1>2, <1>5, <2>1, <2>2 DEF Close
  <2>3. CASE sfd[s] = None
    <3>1. sfd' = sfd /\ LoopStays /\ UNCHANGED <<mem, fdOf>>
      BY <1>5, <2>1, <2>3 DEF Close, TypeOK, loopVars, LoopStays
    <3>2. RegistrationsAgree'
      BY <2>1, <2>3, <3>1 DEF RegistrationsAgree, Live
    <3> QED
      BY <3>1, <3>2, StaysNarrows, StaysPolled
  <2> QED
    BY <2>2, <2>3
<1>6. ASSUME NEW s \in Stream, Detach(s) PROVE RegistrationsAgree' /\ Polled'
  BY <1>2, <1>6 DEF Detach
<1>7. ASSUME NEW s \in Stream, Attach(s) PROVE RegistrationsAgree' /\ Polled'
  <2>1. PICK x \in Sfd : Registers(s, x) /\ LoopStays
    BY <1>7, RegisterRegisters DEF Attach
  <2> QED
    BY <1>1, <1>7, <2>1, StaysNarrows DEF Attach
<1>8. ASSUME NEW s \in Stream, NEW n \in 1..MaxByte, Write(s, n)
      PROVE  RegistrationsAgree' /\ Polled'
  BY <1>3, <1>8, WriteSteps, StaysNarrows
<1>9. ASSUME Return PROVE RegistrationsAgree' /\ Polled'
  BY <1>3, <1>9, StaysNarrows DEF Return, loopVars, streamVars, LoopStays
<1>10. ASSUME Accept PROVE RegistrationsAgree' /\ Polled'
  <2>1. Narrows
    BY <1>10, AcceptRegisters
  <2>2. CASE UNCHANGED <<mem, fdOf, watch, streamVars, at>>
    BY <1>3, <2>1, <2>2 DEF streamVars
  <2>3. CASE \E s \in Stream, x \in Sfd :
               Registers(s, x) /\ type' = [type EXCEPT ![s] = "normal"]
    BY <1>1, <2>1, <2>3 DEF TypeOK
  <2> QED
    BY <1>10, <2>2, <2>3, AcceptRegisters
<1>11. ASSUME Connected PROVE RegistrationsAgree' /\ Polled'
  <2>1. Narrows /\ UNCHANGED <<mem, fdOf, sfd>>
    BY <1>11, HandOutNarrows DEF Connected
  <2>2. \A s \in Stream : type'[s] = type[s] \/ type'[s] = "normal"
    BY <1>11 DEF Connected, TypeOK
  <2> QED
    BY <1>3, <2>1, <2>2
<1>12. ASSUME Read \/ Flush \/ Failed PROVE RegistrationsAgree' /\ Polled'
  <2>1. Narrows /\ UNCHANGED <<mem, fdOf, type, sfd>>
    BY <1>12, HandOutNarrows DEF Read, Flush, Failed, streamVars
  <2> QED
    BY <1>3, <2>1
<1>13. ASSUME Loop, Poll PROVE RegistrationsAgree' /\ Polled'
  <2>1. UNCHANGED <<mem, fdOf, sfd, type, entry>> /\ entry = None
    BY <1>13 DEF Loop, Poll, streamVars, TypeOK, LoopTypeOK
  <2>2. \A e \in polled' : mem[e.sfd] = "live" /\ fdOf[e.sfd] = e.fd
    BY <1>13 DEF Poll, Live
  <2>3. Polled'
    BY <2>1, <2>2 DEF Polled, Pending, Live
  <2> QED
    BY <2>1, <2>3, StaysAgreed
<1>14. ASSUME Loop, Pick \/ Leave PROVE RegistrationsAgree' /\ Polled'
  <2>1. UNCHANGED <<mem, fdOf, sfd, type>>
    BY <1>14 DEF Loop, Pick, Leave, streamVars
  <2>2. Pending' \subseteq Pending
    BY <1>14 DEF Pending, Pick, Leave
  <2> QED
    BY <1>3, <2>1, <2>2 DEF Narrows
<1>15. ASSUME Loop, Skip PROVE RegistrationsAgree' /\ Polled'
  <2>1. UNCHANGED <<mem, fdOf, sfd, type, polled>>
    BY <1>15 DEF Loop, Skip, streamVars
  <2>2. entry \in Pending /\ entry'.sfd = entry.sfd /\ entry'.fd = entry.fd
    BY <1>15, Consumes DEF Skip, Pending
  <2> QED
    BY <1>3, <2>1, <2>2 DEF Narrows, Pending
<1>16. ASSUME Loop, LoopEnd PROVE RegistrationsAgree' /\ Polled'
  <2>1. /\ UNCHANGED <<fdOf, sfd, type>> /\ Pending' = {}
        /\ mem' = [x \in Sfd |-> IF mem[x] = "deleted" THEN "free" ELSE mem[x]]
    BY <1>16 DEF Loop, LoopEnd, Pending, streamVars
  <2>2. Live' = Live /\ \A x \in Live : mem'[x] = "live"
    BY <2>1 DEF Live, TypeOK, LoopTypeOK
  <2>3. \A s \in Stream : sfd[s] # None => sfd[s] \in Live
    BY DEF RegistrationsAgree, Live, TypeOK
  <2>4. RegistrationsAgree'
    BY <2>1, <2>2, <2>3 DEF RegistrationsAgree
  <2> QED
    BY <2>1, <2>2, <2>4 DEF Polled
<1> QED
  BY <1>4, <1>5, <1>6, <1>7, <1>8, <1>9, <1>10, <1>11, <1>12, <1>13, <1>14, <1>15, <1>16
     DEF Next, Loop

-----------------------------------------------------------------------------
(* The bytes. *)

LEMMA WriteBytes ==
  ASSUME TypeOK, InOrder, NEW s \in Stream, NEW n \in 1..MaxByte, Write(s, n)
  PROVE  /\ outbuf' \in [Stream -> Seq(Byte)] /\ sent' \in [Stream -> Seq(Byte)]
         /\ sent'[s] \o outbuf'[s] = OneTo(accepted'[s])
         /\ \A r \in Stream \ {s} : UNCHANGED <<outbuf[r], sent[r], accepted[r]>>
         /\ \/ outbuf'[s] # <<>> /\ MustWait(s) /\ UNCHANGED <<watch, at>>
            \/ outbuf'[s] = <<>> /\ outbuf[s] = <<>> /\ UNCHANGED <<watch, at>>
            \/ outbuf'[s] # <<>> /\ at' = "crashed" /\ UNCHANGED watch
            \/ /\ outbuf'[s] # <<>> /\ sfd[s] # None /\ UNCHANGED at
               /\ watch' = [watch EXCEPT ![sfd[s]] = watch[sfd[s]] \cup {"write"}]
<1> DEFINE c == Chunk(s, n)
           a == accepted[s]
<1>1. /\ c \in Seq(Byte) /\ Len(c) = n /\ c # <<>> /\ OneTo(a) \o c = OneTo(a + n)
  BY ChunkContinues DEF Write
<1>2. /\ accepted' = [accepted EXCEPT ![s] = a + n] /\ accepted'[s] = a + n
      /\ \/ /\ MustWait(s) /\ outbuf' = [outbuf EXCEPT ![s] = outbuf[s] \o c]
            /\ UNCHANGED <<watch, sent, at>>
         \/ \E k \in 0..n :
              /\ ~MustWait(s)
              /\ sent' = [sent EXCEPT ![s] = sent[s] \o SubSeq(c, 1, k)]
              /\ outbuf' = [outbuf EXCEPT ![s] = outbuf[s] \o SubSeq(c, k + 1, n)]
              /\ \/ k = n /\ UNCHANGED <<watch, at>>
                 \/ k # n /\ sfd[s] = None /\ at' = "crashed" /\ UNCHANGED watch
                 \/ /\ k # n /\ sfd[s] # None /\ UNCHANGED at
                    /\ watch' = [watch EXCEPT ![sfd[s]] = watch[sfd[s]] \cup {"write"}]
  <2>1. accepted' = [accepted EXCEPT ![s] = a + n] /\ accepted'[s] = a + n
    BY WriteSteps DEF TypeOK
  <2> QED
    BY <2>1, WriteSteps, Zenon
<1>3. /\ outbuf \in [Stream -> Seq(Byte)] /\ sent \in [Stream -> Seq(Byte)]
      /\ accepted \in [Stream -> 0..MaxByte]
      /\ outbuf[s] \in Seq(Byte) /\ sent[s] \in Seq(Byte) /\ sent[s] \o outbuf[s] = OneTo(a)
  BY DEF TypeOK, Byte, InOrder, OneTo
<1> HIDE DEF c, a
<1>4. CASE /\ MustWait(s) /\ outbuf' = [outbuf EXCEPT ![s] = outbuf[s] \o c]
           /\ UNCHANGED <<watch, sent, at>>
  <2> DEFINE o == outbuf[s] \o c
  <2>1. o \in Seq(Byte) /\ o # <<>> /\ sent[s] \o o = OneTo(a + n)
    <3>1. o \in Seq(Byte) /\ o # <<>>
      BY <1>1, <1>3, Joined
    <3>2. (sent[s] \o outbuf[s]) \o c = sent[s] \o (outbuf[s] \o c)
      <4>1. c \in Seq(Byte) /\ outbuf[s] \in Seq(Byte) /\ sent[s] \in Seq(Byte)
        BY <1>1, <1>3
      <4> QED
        BY <4>1, Associates, Zenon
    <3> QED
      BY <1>1, <1>3, <3>1, <3>2
  <2> HIDE DEF o
  <2>2. outbuf' = [outbuf EXCEPT ![s] = o]
    BY <1>4 DEF o
  <2> QED
    BY <1>2, <1>3, <1>4, <2>1, <2>2
<1>5. ASSUME NEW k \in 0..n, ~MustWait(s),
             sent' = [sent EXCEPT ![s] = sent[s] \o SubSeq(c, 1, k)],
             outbuf' = [outbuf EXCEPT ![s] = outbuf[s] \o SubSeq(c, k + 1, n)]
      PROVE  /\ outbuf' \in [Stream -> Seq(Byte)] /\ sent' \in [Stream -> Seq(Byte)]
             /\ sent'[s] \o outbuf'[s] = OneTo(a + n) /\ outbuf[s] = <<>>
             /\ \A r \in Stream \ {s} : UNCHANGED <<outbuf[r], sent[r], accepted[r]>>
             /\ outbuf'[s] = <<>> <=> k = n
  <2> DEFINE p == SubSeq(c, 1, k)
             r == SubSeq(c, k + 1, n)
             q == sent[s] \o p
  <2>1. p \in Seq(Byte) /\ r \in Seq(Byte) /\ p \o r = c /\ (r = <<>> <=> k = n)
    <3>1. k \in 0..Len(c)
      BY <1>1
    <3>2. /\ SubSeq(c, 1, k) \in Seq(Byte) /\ SubSeq(c, k + 1, Len(c)) \in Seq(Byte)
          /\ SubSeq(c, 1, k) \o SubSeq(c, k + 1, Len(c)) = c
          /\ SubSeq(c, k + 1, Len(c)) = <<>> <=> k = Len(c)
      BY <1>1, <3>1, Split
    <3> QED
      BY <1>1, <3>2
  <2> HIDE DEF p, r
  <2>2. outbuf[s] = <<>> /\ sent[s] = OneTo(a)
    <3>1. outbuf[s] = <<>>
      BY <1>5 DEF MustWait
    <3>2. sent[s] \o <<>> = sent[s]
      BY <1>3, ConcatEmptySeq
    <3> QED
      BY <1>3, <3>1, <3>2
  <2>3. outbuf[s] \o r = r
    BY <2>1, <2>2, ConcatEmptySeq
  <2>4. q \in Seq(Byte) /\ q \o r = OneTo(a + n)
    <3>1. p \in Seq(Byte) /\ r \in Seq(Byte) /\ sent[s] \in Seq(Byte)
      BY <1>3, <2>1
    <3>2. q \in Seq(Byte)
      BY <3>1, Joined
    <3>3. q \o r = sent[s] \o (p \o r)
      BY <3>1, Associates, Zenon
    <3> QED
      BY <1>1, <2>1, <2>2, <3>2, <3>3
  <2>5. outbuf' = [outbuf EXCEPT ![s] = r] /\ sent' = [sent EXCEPT ![s] = q]
    BY <1>5, <2>3 DEF p, r
  <2> HIDE DEF q
  <2> QED
    BY <1>2, <1>3, <2>1, <2>2, <2>4, <2>5
<1> QED
  BY <1>2, <1>4, <1>5

LEMMA FlushBytes ==
  ASSUME TypeOK, InOrder, NEW k, entry.fd \in Stream, k \in 0..Len(outbuf[entry.fd]),
         FlushTakes(k)
  PROVE  LET s == entry.fd IN
         /\ outbuf' \in [Stream -> Seq(Byte)] /\ sent' \in [Stream -> Seq(Byte)]
         /\ sent'[s] \o outbuf'[s] = OneTo(accepted[s])
         /\ \A r \in Stream \ {s} : UNCHANGED <<outbuf[r], sent[r]>>
         /\ outbuf'[s] = <<>> <=> k = Len(outbuf[s])
         /\ outbuf[s] = <<>> => k = Len(outbuf[s])
<1> DEFINE s == entry.fd
           b == outbuf[s]
           p == SubSeq(b, 1, k)
           r == SubSeq(b, k + 1, Len(b))
           q == sent[s] \o p
<1>1. /\ outbuf \in [Stream -> Seq(Byte)] /\ sent \in [Stream -> Seq(Byte)]
      /\ b \in Seq(Byte) /\ sent[s] \in Seq(Byte) /\ sent[s] \o b = OneTo(accepted[s])
      /\ sent' = [sent EXCEPT ![s] = q] /\ outbuf' = [outbuf EXCEPT ![s] = r]
  BY DEF TypeOK, Byte, InOrder, OneTo, FlushTakes
<1> HIDE DEF b
<1>2. p \in Seq(Byte) /\ r \in Seq(Byte) /\ p \o r = b /\ (r = <<>> <=> k = Len(b))
  <2>1. k \in 0..Len(b)
    BY DEF b
  <2> QED
    BY <1>1, <2>1, Split
<1> HIDE DEF p, r
<1>3. q \in Seq(Byte) /\ q \o r = OneTo(accepted[s])
  <2>1. p \in Seq(Byte) /\ r \in Seq(Byte) /\ sent[s] \in Seq(Byte)
    BY <1>1, <1>2
  <2>2. q \in Seq(Byte)
    BY <2>1, Joined
  <2>3. q \o r = sent[s] \o (p \o r)
    BY <2>1, Associates, Zenon
  <2> QED
    BY <1>1, <1>2, <2>2, <2>3
<1>4. b = <<>> => k = Len(b)
  <2>1. Len(<<>>) = 0
    BY EmptySeq
  <2> QED
    BY <2>1 DEF b
<1> HIDE DEF q
<1>5. /\ outbuf' \in [Stream -> Seq(Byte)] /\ sent' \in [Stream -> Seq(Byte)]
      /\ sent'[s] = q /\ outbuf'[s] = r
      /\ \A u \in Stream \ {s} : outbuf'[u] = outbuf[u] /\ sent'[u] = sent[u]
  BY <1>1, <1>2, <1>3
<1> QED
  BY <1>2, <1>3, <1>4, <1>5 DEF b

-----------------------------------------------------------------------------
(* Each of the other conjuncts is kept. *)

LEMMA OrderNext ==
  ASSUME IInv, Next
  PROVE  InOrder'
<1> USE DEF IInv, Agreement
<1>1. ASSUME UNCHANGED <<outbuf, sent, accepted>> PROVE InOrder'
  BY <1>1 DEF InOrder
<1>2. ASSUME NEW s \in Stream, \A r \in Stream \ {s} : UNCHANGED <<outbuf[r], sent[r], accepted[r]>>,
             sent'[s] \o outbuf'[s] = OneTo(accepted'[s])
      PROVE  InOrder'
  BY <1>2 DEF InOrder, OneTo
<1>3. ASSUME NEW s \in Stream, NEW n \in 1..MaxByte, Write(s, n) PROVE InOrder'
  BY <1>2, <1>3, WriteBytes
<1>4. ASSUME NEW s \in Stream, Close(s) PROVE InOrder'
  <2>1. /\ outbuf'[s] = <<>> /\ sent'[s] = <<>> /\ accepted'[s] = 0
        /\ \A r \in Stream \ {s} : UNCHANGED <<outbuf[r], sent[r], accepted[r]>>
    BY <1>4 DEF Close, TypeOK
  <2>2. OneTo(0) = <<>>
    <3>1. OneTo(0) \in [1..0 -> Nat]
      BY DEF OneTo
    <3>2. OneTo(0) \in Seq(Nat) /\ Len(OneTo(0)) = 0
      BY <3>1, IsSequence
    <3> QED
      BY <3>2, EmptySeq
  <2>3. <<>> \o <<>> = <<>>
    OBVIOUS
  <2> QED
    BY <1>2, <2>1, <2>2, <2>3
<1>5. ASSUME Accept PROVE InOrder'
  BY <1>1, <1>5, AcceptRegisters DEF streamVars
<1>6. ASSUME Flush PROVE InOrder'
  <2>1. CASE \E k \in 0..Len(outbuf[entry.fd]) : FlushTakes(k)
    <3>1. entry.fd \in Stream /\ accepted' = accepted
      BY <1>6, DueFinds, HandOutNarrows DEF Flush, Stream
    <3>2. /\ sent'[entry.fd] \o outbuf'[entry.fd] = OneTo(accepted[entry.fd])
          /\ \A r \in Stream \ {entry.fd} : UNCHANGED <<outbuf[r], sent[r]>>
      BY <2>1, <3>1, FlushBytes
    <3> QED
      BY <1>2, <3>1, <3>2
  <2>2. CASE UNCHANGED <<sent, outbuf, watch>>
    BY <1>1, <1>6, <2>2 DEF Flush
  <2> QED
    BY <1>6, <2>1, <2>2 DEF Flush
<1>7. ASSUME \/ \E s \in Stream : \/ Open(s, "listen") \/ Open(s, "connect")
                                 \/ Detach(s) \/ Attach(s)
             \/ Return \/ Connected \/ Read \/ Failed \/ Loop
      PROVE  InOrder'
  BY <1>1, <1>7 DEF Open, Detach, Attach, Return, Connected, Read, Failed, Loop, streamVars
<1> QED
  BY <1>3, <1>4, <1>5, <1>6, <1>7 DEF Next

LEMMA WatchTypes ==
  ASSUME TypeOK
  PROVE  /\ watch \in [Sfd -> SUBSET {"read", "write"}]
         /\ \A x \in Sfd, w \in SUBSET {"read", "write"} :
              [watch EXCEPT ![x] = w] \in [Sfd -> SUBSET {"read", "write"}]
         /\ \A x \in Sfd : watch[x] \cup {"write"} \in SUBSET {"read", "write"}
BY DEF TypeOK, LoopTypeOK

LEMMA TypeNext ==
  ASSUME IInv, Next
  PROVE  TypeOK'
<1> USE DEF IInv, Agreement, Byte
<1>1. ASSUME LoopTypeOK', UNCHANGED streamVars, at' \in {"run", "callback", "crashed"}
      PROVE  TypeOK'
  BY <1>1 DEF TypeOK, streamVars
<1>2. ASSUME UNCHANGED loopVars PROVE LoopTypeOK'
  BY <1>2 DEF TypeOK, LoopTypeOK, loopVars
<1>3. ASSUME NEW s \in Stream, NEW t \in {"listen", "connect", "normal"}, Register(s, t)
      PROVE  LoopTypeOK' /\ sfd' \in [Stream -> Sfd \cup {None}]
  BY <1>3 DEF Register, Add, FirstWatch, TypeOK, LoopTypeOK, Stream
<1>4. ASSUME NEW s \in Stream, sfd[s] # None, Del(sfd[s]) PROVE LoopTypeOK'
  BY <1>4 DEF Del, TypeOK, LoopTypeOK
<1>5. ASSUME NEW s \in Stream, NEW t \in {"listen", "connect"}, Open(s, t) PROVE TypeOK'
  BY <1>3, <1>5 DEF Open, TypeOK
<1>6. ASSUME NEW s \in Stream, Close(s) PROVE TypeOK'
  <2>1. LoopTypeOK'
    BY <1>2, <1>4, <1>6 DEF Close
  <2>2. <<>> \in Seq(1..MaxByte) /\ 0 \in 0..MaxByte
    BY EmptySeq, StreamAssumption
  <2> QED
    BY <1>6, <2>1, <2>2 DEF Close, TypeOK
<1>7. ASSUME NEW s \in Stream, Detach(s) PROVE TypeOK'
  BY <1>4, <1>7 DEF Detach, TypeOK
<1>8. ASSUME NEW s \in Stream, Attach(s) PROVE TypeOK'
  <2>1. type[s] \in {"listen", "connect", "normal"} /\ Register(s, type[s])
    BY <1>8 DEF Attach, TypeOK
  <2> QED
    BY <1>3, <1>8, <2>1 DEF Attach, TypeOK
<1>9. ASSUME NEW s \in Stream, NEW n \in 1..MaxByte, Write(s, n) PROVE TypeOK'
  <2>1. /\ UNCHANGED <<mem, fdOf, type, sfd>> /\ LoopStays
        /\ accepted' \in [Stream -> 0..MaxByte]
    <3>1. /\ UNCHANGED <<mem, fdOf, type, sfd>> /\ LoopStays
          /\ accepted' = [accepted EXCEPT ![s] = accepted[s] + n]
          /\ accepted[s] + n \in 0..MaxByte
      BY <1>9, WriteSteps
    <3> QED
      BY <3>1 DEF TypeOK
  <2>2. /\ outbuf' \in [Stream -> Seq(Byte)] /\ sent' \in [Stream -> Seq(Byte)]
        /\ at' \in {"run", "callback", "crashed"}
        /\ watch' = watch \/ (sfd[s] # None /\
             watch' = [watch EXCEPT ![sfd[s]] = watch[sfd[s]] \cup {"write"}])
    BY <1>9, WriteBytes DEF TypeOK
  <2>3. watch' \in [Sfd -> SUBSET {"read", "write"}]
    <3>1. CASE watch' = watch
      BY <3>1, WatchTypes
    <3>2. CASE sfd[s] # None /\ watch' = [watch EXCEPT ![sfd[s]] = watch[sfd[s]] \cup {"write"}]
      <4>1. sfd[s] \in Sfd
        BY <3>2 DEF TypeOK
      <4>2. watch[sfd[s]] \cup {"write"} \in SUBSET {"read", "write"}
        BY <4>1, WatchTypes, Zenon
      <4> QED
        BY <3>2, <4>1, <4>2, WatchTypes, Zenon
    <3> QED
      BY <2>2, <3>1, <3>2
  <2>4. LoopTypeOK'
    BY <2>1, <2>3 DEF TypeOK, LoopTypeOK, LoopStays
  <2> QED
    BY <2>1, <2>2, <2>4 DEF TypeOK
<1>10. ASSUME Return PROVE TypeOK'
  BY <1>1, <1>2, <1>10 DEF Return
<1>11. ASSUME Accept PROVE TypeOK'
  <2>1. is_in_loop /\ is_in_loop' = is_in_loop /\ polled' = polled /\ entry' \in Entries
    BY <1>11, AcceptRegisters
  <2>2. CASE UNCHANGED <<mem, fdOf, watch, streamVars, at>>
    BY <2>1, <2>2 DEF TypeOK, LoopTypeOK, streamVars
  <2>3. CASE \E s \in Stream, x \in Sfd :
               /\ Registers(s, x) /\ type' = [type EXCEPT ![s] = "normal"]
               /\ watch' = [watch EXCEPT ![x] = {"read"}]
               /\ at' = "callback" /\ UNCHANGED <<outbuf, sent, accepted>>
    <3>1. LoopTypeOK'
      BY <2>1, <2>3 DEF Registers, TypeOK, LoopTypeOK, Stream
    <3> QED
      BY <2>3, <3>1 DEF Registers, TypeOK
  <2> QED
    BY <1>11, <2>2, <2>3, AcceptRegisters
<1>12. ASSUME Connected PROVE TypeOK'
  <2>1. Due /\ is_in_loop /\ is_in_loop' = is_in_loop /\ polled' = polled /\ entry' \in Entries
    BY <1>12, HandOutNarrows DEF Connected
  <2>2. entry.sfd \in Sfd /\ entry.fd \in Stream
    BY <2>1, DueFinds DEF Stream
  <2>3. watch' \in [Sfd -> SUBSET {"read", "write"}]
        /\ type' \in [Stream -> {"none", "listen", "connect", "normal"}]
    <3>1. ConnectedWatch(entry.fd) \subseteq {"read", "write"}
      BY DEF ConnectedWatch
    <3>2. watch' \in [Sfd -> SUBSET {"read", "write"}]
      BY <1>12, <2>2, <3>1, WatchTypes DEF Connected
    <3> QED
      BY <1>12, <2>2, <3>2 DEF Connected, TypeOK
  <2> QED
    BY <1>12, <2>1, <2>3 DEF Connected, TypeOK, LoopTypeOK
<1>13. ASSUME Read \/ Failed PROVE TypeOK'
  <2>1. is_in_loop /\ is_in_loop' = is_in_loop /\ polled' = polled /\ entry' \in Entries
    BY <1>13, HandOutNarrows DEF Read, Failed
  <2> QED
    BY <1>13, <2>1 DEF Read, Failed, TypeOK, LoopTypeOK, streamVars
<1>14. ASSUME Flush PROVE TypeOK'
  <2>1. Due /\ is_in_loop /\ is_in_loop' = is_in_loop /\ polled' = polled /\ entry' \in Entries
    BY <1>14, HandOutNarrows DEF Flush
  <2>2. entry.sfd \in Sfd /\ entry.fd \in Stream
    BY <2>1, DueFinds DEF Stream
  <2>3. CASE \E k \in 0..Len(outbuf[entry.fd]) : FlushTakes(k) /\ UNCHANGED at
    <3>1. outbuf' \in [Stream -> Seq(Byte)] /\ sent' \in [Stream -> Seq(Byte)]
      BY <2>2, <2>3, FlushBytes
    <3>2. watch' \in [Sfd -> SUBSET {"read", "write"}]
      BY <2>2, <2>3 DEF FlushTakes, TypeOK, LoopTypeOK
    <3> QED
      BY <1>14, <2>1, <2>3, <3>1, <3>2 DEF Flush, TypeOK, LoopTypeOK
  <2>4. CASE at' = "callback" /\ UNCHANGED <<sent, outbuf, watch>>
    BY <1>14, <2>1, <2>4 DEF Flush, TypeOK, LoopTypeOK
  <2> QED
    BY <1>14, <2>3, <2>4 DEF Flush
<1>15. ASSUME Loop, Poll PROVE TypeOK'
  <2>1. polled' \subseteq Entries /\ is_in_loop' = TRUE /\ UNCHANGED <<mem, fdOf, watch, entry>>
    <3>1. PICK R \in SUBSET Live :
            \E evs \in [R -> (SUBSET {"read", "write", "error"}) \ {{}}] :
              polled' = {[sfd |-> x, fd |-> fdOf[x], events |-> evs[x]] : x \in R}
      BY <1>15 DEF Poll
    <3>2. \A x \in R : x \in Sfd /\ fdOf[x] \in Fd
      BY DEF Polled, Live
    <3>3. polled' \subseteq Entries
      BY <3>1, <3>2 DEF Entries
    <3> QED
      BY <1>15, <3>3 DEF Poll
  <2> QED
    BY <1>1, <1>15, <2>1 DEF Loop, TypeOK, LoopTypeOK
<1>16. ASSUME Loop, Pick \/ Leave \/ LoopEnd PROVE TypeOK'
  <2>1. is_in_loop
    BY <1>16 DEF Pick, Leave, LoopEnd, TypeOK, LoopTypeOK
  <2>2. LoopTypeOK'
    BY <1>16, <2>1 DEF Pick, Leave, LoopEnd, TypeOK, LoopTypeOK
  <2> QED
    BY <1>1, <1>16, <2>2 DEF Loop, TypeOK
<1>17. ASSUME Loop, Skip PROVE TypeOK'
  <2>1. is_in_loop /\ entry' \in Entries /\ UNCHANGED <<mem, fdOf, watch, is_in_loop, polled>>
    BY <1>17, Consumes DEF Skip
  <2>2. LoopTypeOK'
    BY <2>1 DEF TypeOK, LoopTypeOK
  <2> QED
    BY <1>1, <1>17, <2>2 DEF Loop, TypeOK
<1> QED
  BY <1>5, <1>6, <1>7, <1>8, <1>9, <1>10, <1>11, <1>12, <1>13, <1>14, <1>15, <1>16, <1>17
     DEF Next, Loop

LEMMA QuietNext ==
  ASSUME IInv, Next
  PROVE  Quiet'
<1> USE DEF IInv, Agreement
<1>1. ASSUME UNCHANGED outbuf, \A s \in Stream : type[s] # "none" => type'[s] # "none"
      PROVE  Quiet'
  BY <1>1 DEF Quiet
<1>2. ASSUME NEW s \in Stream, \A r \in Stream \ {s} : UNCHANGED <<outbuf[r], type[r]>>,
             type'[s] = "none" => outbuf'[s] = <<>>
      PROVE  Quiet'
  BY <1>2 DEF Quiet
<1>3. ASSUME NEW s \in Stream, NEW t \in {"listen", "connect"}, Open(s, t) PROVE Quiet'
  BY <1>2, <1>3 DEF Open, TypeOK
<1>4. ASSUME NEW s \in Stream, Close(s) PROVE Quiet'
  BY <1>2, <1>4 DEF Close, TypeOK
<1>5. ASSUME NEW s \in Stream, NEW n \in 1..MaxByte, Write(s, n) PROVE Quiet'
  <2>1. /\ \A r \in Stream \ {s} : UNCHANGED <<outbuf[r], type[r]>>
        /\ type'[s] # "none"
    <3>1. /\ type' = type /\ type[s] # "none"
          /\ \A r \in Stream \ {s} : outbuf'[r] = outbuf[r]
      BY <1>5, WriteBytes, WriteSteps
    <3> QED
      BY <3>1
  <2> QED
    BY <1>2, <2>1
<1>6. ASSUME Accept PROVE Quiet'
  <2>1. CASE UNCHANGED streamVars
    BY <1>1, <2>1 DEF streamVars
  <2>2. CASE \E s \in Stream : type' = [type EXCEPT ![s] = "normal"] /\ UNCHANGED outbuf
    BY <1>2, <2>2 DEF TypeOK
  <2> QED
    BY <1>6, <2>1, <2>2, AcceptRegisters
<1>7. ASSUME Connected PROVE Quiet'
  BY <1>1, <1>7 DEF Connected, TypeOK
<1>8. ASSUME Flush PROVE Quiet'
  <2>1. entry.fd \in Stream /\ type' = type /\ type[entry.fd] # "none"
    BY <1>8, DueFinds, HandOutNarrows DEF Flush, Stream
  <2>2. \A r \in Stream \ {entry.fd} : outbuf'[r] = outbuf[r]
    BY <1>8, <2>1, FlushBytes DEF Flush
  <2> QED
    BY <1>2, <2>1, <2>2
<1>9. ASSUME \/ \E s \in Stream : Detach(s) \/ Attach(s)
             \/ Return \/ Read \/ Failed \/ Loop
      PROVE  Quiet'
  BY <1>1, <1>9 DEF Detach, Attach, Return, Read, Failed, Loop, streamVars
<1> QED
  BY <1>3, <1>4, <1>5, <1>6, <1>7, <1>8, <1>9 DEF Next

\* WatchesOutput for one stream.
Watched(s) ==
  type[s] \in {"connect", "normal"} /\ sfd[s] # None =>
    (("write" \in watch[sfd[s]]) <=> (type[s] = "connect" \/ outbuf[s] # <<>>))

LEMMA WatchNext ==
  ASSUME IInv, Next
  PROVE  WatchesOutput'
<1> USE DEF IInv, Agreement
<1>1. ASSUME NEW s \in Stream, sfd[s] # None
      PROVE  /\ sfd[s] \in Sfd /\ mem[sfd[s]] = "live"
             /\ \A r \in Stream : sfd[r] = sfd[s] => r = s
  <2>1. TypeOK /\ RegistrationsAgree
    OBVIOUS
  <2> HIDE DEF IInv, Agreement
  <2>2. sfd[s] \in Sfd
    BY <1>1, <2>1 DEF TypeOK
  <2>3. \A r \in Stream : sfd[r] # None => mem[sfd[r]] = "live" /\ fdOf[sfd[r]] = r
    BY <2>1 DEF RegistrationsAgree
  <2> QED
    BY <1>1, <2>2, <2>3
\* A step that touches one stream and, of the watches, at most its own.
<1>2. ASSUME at # "crashed", NEW s \in Stream, Watched(s)',
             \A r \in Stream \ {s} :
               /\ UNCHANGED <<outbuf[r], type[r], sfd[r]>>
               /\ sfd[r] # None => watch'[sfd[r]] = watch[sfd[r]]
      PROVE  WatchesOutput'
  BY <1>2 DEF WatchesOutput, Watched
<1>3. ASSUME UNCHANGED <<outbuf, type, sfd, watch>>, at = "crashed" => at' = "crashed"
      PROVE  WatchesOutput'
  BY <1>3 DEF WatchesOutput
<1>4. ASSUME at # "crashed", NEW s \in Stream, NEW x \in Sfd, Registers(s, x),
             NEW w, watch' = [watch EXCEPT ![x] = w], UNCHANGED outbuf,
             type'[s] \in {"connect", "normal"} =>
               (("write" \in w) <=> (type'[s] = "connect" \/ outbuf[s] # <<>>)),
             \A r \in Stream \ {s} : type'[r] = type[r]
      PROVE  WatchesOutput'
  <2>1. sfd'[s] = x /\ watch'[x] = w
    BY <1>4 DEF Registers, TypeOK, LoopTypeOK
  <2>2. Watched(s)'
    BY <1>4, <2>1 DEF Watched
  <2>3. ASSUME NEW r \in Stream \ {s}
        PROVE  sfd'[r] = sfd[r] /\ (sfd[r] # None => watch'[sfd[r]] = watch[sfd[r]])
    BY <1>1, <1>4 DEF Registers, TypeOK, LoopTypeOK
  <2> QED
    BY <1>2, <1>4, <2>2, <2>3
<1>5. ASSUME at # "crashed", NEW s \in Stream, sfd[s] # None,
             watch' = [watch EXCEPT ![sfd[s]] = {}], sfd' = [sfd EXCEPT ![s] = None],
             \A r \in Stream \ {s} : UNCHANGED <<outbuf[r], type[r]>>
      PROVE  WatchesOutput'
  <2>1. Watched(s)'
    BY <1>5 DEF Watched, TypeOK
  <2>2. ASSUME NEW r \in Stream \ {s}
        PROVE  sfd'[r] = sfd[r] /\ (sfd[r] # None => watch'[sfd[r]] = watch[sfd[r]])
    BY <1>1, <1>5 DEF TypeOK, LoopTypeOK
  <2> QED
    BY <1>2, <1>5, <2>1, <2>2
\* A step of a callback or a write, which may change the watch of its stream.
<1>6. ASSUME at # "crashed", NEW s \in Stream, sfd[s] # None, UNCHANGED sfd,
             NEW w, watch' = [watch EXCEPT ![sfd[s]] = w],
             type'[s] \in {"connect", "normal"} =>
               (("write" \in w) <=> (type'[s] = "connect" \/ outbuf'[s] # <<>>)),
             \A r \in Stream \ {s} : UNCHANGED <<outbuf[r], type[r]>>
      PROVE  WatchesOutput'
  <2>1. Watched(s)'
    BY <1>1, <1>6 DEF Watched, TypeOK, LoopTypeOK
  <2>2. ASSUME NEW r \in Stream \ {s}
        PROVE  sfd'[r] = sfd[r] /\ (sfd[r] # None => watch'[sfd[r]] = watch[sfd[r]])
    BY <1>1, <1>6 DEF TypeOK, LoopTypeOK
  <2> QED
    BY <1>2, <1>6, <2>1, <2>2
<1>7. ASSUME NEW s \in Stream, NEW t \in {"listen", "connect"}, Open(s, t) PROVE WatchesOutput'
  <2>1. sfd[s] = None /\ at # "crashed" /\ Register(s, t)
    BY <1>7 DEF Open, UserRuns, RegistrationsAgree
  <2>2. PICK x \in Sfd : Registers(s, x) /\ watch' = [watch EXCEPT ![x] = FirstWatch(s, t)]
    BY <2>1, RegisterRegisters
  <2>3. type'[s] = t /\ (\A r \in Stream \ {s} : type'[r] = type[r]) /\ UNCHANGED outbuf
    BY <1>7 DEF Open, TypeOK
  <2>4. t = "connect" => (("write" \in FirstWatch(s, t)) <=> t = "connect")
    BY DEF FirstWatch
  <2>5. t \in {"connect", "normal"} => t = "connect"
    OBVIOUS
  <2> QED
    BY <1>4, <2>1, <2>2, <2>3, <2>4, <2>5
<1>8. ASSUME NEW s \in Stream, Close(s) PROVE WatchesOutput'
  <2>1. /\ sfd' = [sfd EXCEPT ![s] = None] /\ at # "crashed"
        /\ \A r \in Stream \ {s} : UNCHANGED <<outbuf[r], type[r]>>
    BY <1>8 DEF Close, UserRuns, TypeOK
  <2>2. CASE sfd[s] # None
    BY <1>5, <1>8, <2>1, <2>2 DEF Close, Del
  <2>3. CASE sfd[s] = None
    <3>1. watch' = watch /\ sfd' = sfd
      BY <1>8, <2>1, <2>3 DEF Close, loopVars, TypeOK
    <3>2. Watched(s)'
      BY <2>3, <3>1 DEF Watched
    <3> QED
      BY <1>2, <2>1, <3>1, <3>2
  <2> QED
    BY <2>2, <2>3
<1>9. ASSUME NEW s \in Stream, Detach(s) PROVE WatchesOutput'
  BY <1>5, <1>9 DEF Detach, Del, UserRuns
<1>10. ASSUME NEW s \in Stream, Attach(s) PROVE WatchesOutput'
  <2>1. sfd[s] = None /\ at # "crashed" /\ Register(s, type[s]) /\ UNCHANGED <<type, outbuf>>
    BY <1>10 DEF Attach, UserRuns
  <2>2. PICK x \in Sfd : Registers(s, x) /\ watch' = [watch EXCEPT ![x] = FirstWatch(s, type[s])]
    BY <2>1, RegisterRegisters
  <2>3. type[s] \in {"connect", "normal"} =>
          (("write" \in FirstWatch(s, type[s])) <=> (type[s] = "connect" \/ outbuf[s] # <<>>))
    BY DEF FirstWatch
  <2> QED
    BY <1>4, <2>1, <2>2, <2>3
<1>11. ASSUME NEW s \in Stream, NEW n \in 1..MaxByte, Write(s, n) PROVE WatchesOutput'
  <2>1. /\ UNCHANGED <<type, sfd>> /\ at # "crashed" /\ type[s] \in {"connect", "normal"}
        /\ \A r \in Stream \ {s} : outbuf'[r] = outbuf[r]
    BY <1>11, WriteSteps, WriteBytes
  <2>2. ASSUME UNCHANGED watch, Watched(s)' PROVE WatchesOutput'
    BY <1>2, <2>1, <2>2
  <2>3. CASE at' = "crashed"
    BY <2>3 DEF WatchesOutput
  <2>4. CASE /\ outbuf'[s] # <<>> /\ sfd[s] # None
             /\ watch' = [watch EXCEPT ![sfd[s]] = watch[sfd[s]] \cup {"write"}]
    BY <1>6, <2>1, <2>4
  <2>5. \/ outbuf'[s] # <<>> /\ MustWait(s) /\ UNCHANGED watch
        \/ outbuf'[s] = <<>> /\ outbuf[s] = <<>> /\ UNCHANGED watch
        \/ at' = "crashed"
        \/ /\ outbuf'[s] # <<>> /\ sfd[s] # None
           /\ watch' = [watch EXCEPT ![sfd[s]] = watch[sfd[s]] \cup {"write"}]
    <3> HIDE DEF IInv, Agreement
    <3>1. TypeOK /\ InOrder
      BY DEF IInv, Agreement
    <3> QED
      BY <1>11, <3>1, WriteBytes, Zenon
  <2>6. CASE outbuf'[s] # <<>> /\ MustWait(s) /\ UNCHANGED watch
    <3>1. Watched(s)'
      BY <2>1, <2>6 DEF Watched, WatchesOutput, MustWait
    <3> QED
      BY <2>2, <2>6, <3>1
  <2>7. CASE outbuf'[s] = <<>> /\ outbuf[s] = <<>> /\ UNCHANGED watch
    <3>1. Watched(s)'
      BY <2>1, <2>7 DEF Watched, WatchesOutput
    <3> QED
      BY <2>2, <2>7, <3>1
  <2> QED
    BY <2>3, <2>4, <2>5, <2>6, <2>7
<1>12. ASSUME Return PROVE WatchesOutput'
  BY <1>12 DEF Return, WatchesOutput, loopVars, streamVars
<1>13. ASSUME Accept PROVE WatchesOutput'
  <2>1. CASE UNCHANGED <<mem, fdOf, watch, streamVars, at>>
    BY <1>3, <2>1 DEF streamVars
  <2>2. ASSUME NEW s \in Stream, NEW x \in Sfd, Registers(s, x), type[s] = "none",
               type' = [type EXCEPT ![s] = "normal"], watch' = [watch EXCEPT ![x] = {"read"}],
               UNCHANGED outbuf
        PROVE  WatchesOutput'
    <3>1. at # "crashed"
      BY <1>13 DEF Accept, Is
    <3>2. outbuf[s] = <<>> /\ \A r \in Stream \ {s} : type'[r] = type[r]
      BY <2>2 DEF Quiet, TypeOK
    <3>3. type'[s] = "normal" /\ "write" \notin {"read"}
      BY <2>2 DEF TypeOK
    <3> QED
      BY <1>4, <2>2, <3>1, <3>2, <3>3
  <2> QED
    BY <1>13, <2>1, <2>2, AcceptRegisters
<1>14. ASSUME Connected PROVE WatchesOutput'
  <2> DEFINE s == entry.fd
  <2>1. /\ s \in Stream /\ sfd[s] = entry.sfd /\ entry.sfd \in Sfd /\ sfd[s] # None
        /\ at # "crashed" /\ type[s] = "connect" /\ UNCHANGED <<sfd, outbuf>>
    BY <1>14, DueFinds, HandOutNarrows, StreamAssumption DEF Connected, Is, Stream
  <2> HIDE DEF s
  <2>2. CASE type' = [type EXCEPT ![s] = "normal"]
             /\ watch' = [watch EXCEPT ![sfd[s]] = ConnectedWatch(s)]
    <3>1. ("write" \in ConnectedWatch(s)) <=> (outbuf[s] # <<>>)
      BY DEF ConnectedWatch
    <3> QED
      BY <1>6, <2>1, <2>2, <3>1 DEF TypeOK
  <2>3. CASE UNCHANGED <<type, watch>>
    BY <1>3, <2>1, <2>3
  <2> QED
    BY <1>14, <2>1, <2>2, <2>3 DEF Connected, s
<1>15. ASSUME Flush PROVE WatchesOutput'
  <2> DEFINE s == entry.fd
  <2>1. /\ s \in Stream /\ sfd[s] = entry.sfd /\ entry.sfd \in Sfd /\ sfd[s] # None
        /\ at # "crashed" /\ type[s] = "normal" /\ UNCHANGED <<sfd, type>>
    BY <1>15, DueFinds, HandOutNarrows, StreamAssumption DEF Flush, Is, Stream
  <2>2. ASSUME NEW k \in 0..Len(outbuf[s]), FlushTakes(k) PROVE WatchesOutput'
    <3> DEFINE w == IF k = Len(outbuf[s]) THEN watch[sfd[s]] \ {"write"} ELSE watch[sfd[s]]
    <3>1. /\ \A r \in Stream \ {s} : outbuf'[r] = outbuf[r]
          /\ outbuf'[s] = <<>> <=> k = Len(outbuf[s])
          /\ outbuf[s] = <<>> => k = Len(outbuf[s])
      BY <2>1, <2>2, FlushBytes
    <3>2. watch' = [watch EXCEPT ![sfd[s]] = w]
      BY <2>1, <2>2 DEF FlushTakes
    <3>3. ("write" \in watch[sfd[s]]) <=> (outbuf[s] # <<>>)
      BY <2>1 DEF WatchesOutput
    <3>4. ("write" \in w) <=> (outbuf'[s] # <<>>)
      BY <3>1, <3>3
    <3> HIDE DEF w, s
    <3> QED
      BY <1>6, <2>1, <3>1, <3>2, <3>4
  <2>3. CASE UNCHANGED <<outbuf, watch>>
    BY <1>3, <2>1, <2>3
  <2> QED
    BY <1>15, <2>2, <2>3 DEF Flush
<1>16. ASSUME Read \/ Failed PROVE WatchesOutput'
  BY <1>3, <1>16 DEF Read, Failed, Is, streamVars
<1>17. ASSUME Loop PROVE WatchesOutput'
  BY <1>3, <1>17 DEF Loop, Poll, Pick, Skip, Leave, LoopEnd, streamVars
<1> QED
  BY <1>7, <1>8, <1>9, <1>10, <1>11, <1>12, <1>13, <1>14, <1>15, <1>16, <1>17 DEF Next

LEMMA InitIInv == Init => IInv
<1> SUFFICES ASSUME Init PROVE IInv
  OBVIOUS
<1> USE StreamAssumption DEF Init, LoopInit
<1>1. TypeOK
  <2>1. <<>> \in Seq(1..MaxByte) /\ 0 \in 0..MaxByte
    BY EmptySeq
  <2>2. LoopTypeOK
    BY DEF LoopTypeOK
  <2> QED
    BY <2>1, <2>2 DEF TypeOK
<1>2. RegistrationsAgree /\ Polled
  BY DEF RegistrationsAgree, Polled, Pending, Live
<1>3. Quiet /\ WatchesOutput
  BY DEF Quiet, WatchesOutput
<1>4. InOrder
  <2>1. [i \in 1..0 |-> i] = <<>>
    <3> DEFINE f == [i \in 1..0 |-> i]
    <3>1. f \in [1..0 -> Nat]
      OBVIOUS
    <3> HIDE DEF f
    <3>2. f \in Seq(Nat) /\ Len(f) = 0
      BY <3>1, IsSequence
    <3>3. f = <<>>
      BY <3>2, EmptySeq
    <3> QED
      BY <3>3 DEF f
  <2>2. <<>> \o <<>> = <<>>
    OBVIOUS
  <2> QED
    BY <2>1, <2>2 DEF InOrder
<1> QED
  BY <1>1, <1>2, <1>3, <1>4 DEF IInv, Agreement

LEMMA NextIInv == IInv /\ [Next]_vars => IInv'
<1> SUFFICES ASSUME IInv, [Next]_vars PROVE IInv'
  OBVIOUS
<1>1. CASE Next
  BY <1>1, TypeNext, AgreeNext, QuietNext, WatchNext, OrderNext DEF IInv, Agreement
<1>2. CASE UNCHANGED vars
  <2> USE <1>2 DEF IInv, Agreement, vars, loopVars, streamVars
  <2>1. TypeOK' /\ RegistrationsAgree'
    BY DEF TypeOK, LoopTypeOK, RegistrationsAgree, Live
  <2>2. Polled' /\ Quiet' /\ WatchesOutput' /\ InOrder'
    BY DEF Polled, Pending, Live, Quiet, WatchesOutput, InOrder
  <2> QED
    BY <2>1, <2>2
<1> QED
  BY <1>1, <1>2

-----------------------------------------------------------------------------
(* The loop on select. *)

Registered == {x \in Sfd : memory[x] = "live"}
Watching(ev) == {fd[x] : x \in {y \in Registered : ev \in watch_events[y]}}

\* The addresses that the poll returned and that are not done with.
Waiting == S!ToSet(rfds) \cup ({current} \ {None})

\* What is not free has a descriptor, what waits is not free, and nothing waits
\* outside the loop.
Kept ==
  /\ \A x \in Sfd : memory[x] # "free" => fd[x] \in S!Slot
  /\ \A x \in Sfd : memory[x] = "deleted" => looping
  /\ \A x \in Waiting : memory[x] # "free"
  /\ S!IsInjective(rfds)
  /\ ~looping => rfds = <<>> /\ current = None

SelectIInv == S!TypeOK /\ S!SetsAgree /\ Kept

\* What Contract calls watch.
WatchOf(x) == IF memory[x] = "live" THEN watch_events[x] \ {"error"} ELSE {}
FdOf(x) == IF memory[x] = "live" THEN fd[x] ELSE None

LEMMA SelectConstants ==
  /\ S!Slot \subseteq Number /\ None \notin S!Slot /\ None \notin Sfd
  /\ S!Event = {"read", "write", "error"} /\ None \notin S!Event
  /\ None \notin [sfd : Sfd, fd : Number, events : SUBSET S!Event]
  /\ FD_SETSIZE \in Nat
BY SelectAssumption DEF SelectAssumption, S!SelectAssumption, S!Slot, S!Event

\* SetsAgree without its LET.
LEMMA SetsAgreeIs ==
  S!SetsAgree <=>
    /\ rset = Watching("read") /\ wset = Watching("write") /\ eset = Watching("error")
    /\ \A x \in Registered : fds[fd[x]] = x
    /\ \A f \in S!Slot : fds[f] # None => fds[f] \in Registered /\ fd[fds[f]] = f
    /\ S!ToSet(deferred_to_close) = {x \in Sfd : memory[x] = "deleted"}
    /\ S!IsInjective(deferred_to_close)
BY DEF S!SetsAgree, Watching, Registered

LEMMA SetsAgreeNext ==
  S!SetsAgree' <=>
    /\ rset' = Watching("read")' /\ wset' = Watching("write")' /\ eset' = Watching("error")'
    /\ \A x \in Registered' : fds'[fd'[x]] = x
    /\ \A f \in S!Slot : fds'[f] # None => fds'[f] \in Registered' /\ fd'[fds'[f]] = f
    /\ S!ToSet(deferred_to_close)' = {x \in Sfd : memory'[x] = "deleted"}
    /\ S!IsInjective(deferred_to_close)'
BY DEF S!SetsAgree, Watching, Registered

LEMMA SelectTypes ==
  S!TypeOK <=>
    /\ memory \in [Sfd -> {"free", "live", "deleted"}]
    /\ fd \in [Sfd -> S!Slot \cup {None}]
    /\ watch_events \in [Sfd -> SUBSET S!Event] /\ revents \in [Sfd -> SUBSET S!Event]
    /\ rset \subseteq S!Slot /\ wset \subseteq S!Slot /\ eset \subseteq S!Slot
    /\ fds \in [S!Slot -> Sfd \cup {None}]
    /\ rfds \in Seq(Sfd) /\ current \in Sfd \cup {None} /\ events \subseteq S!Event
    /\ looping \in BOOLEAN
    /\ deferred_to_close \in Seq(Sfd)
    /\ runs \in {"run", "callback"}
BY DEF S!TypeOK

\* The variables of SioLoop, as SioSelect sees them.
MappedFd == [x \in Sfd |-> FdOf(x)]
MappedWatch == [x \in Sfd |-> WatchOf(x)]
MappedPolled == {S!PolledEntry(x, revents[x]) : x \in S!ToSet(rfds)}
MappedEntry == IF current = None THEN None ELSE S!PolledEntry(current, events)

LEMMA Distinct ==
  ASSUME SelectIInv
  PROVE  \A x, y \in Registered : fd[x] = fd[y] => x = y
BY SetsAgreeIs DEF SelectIInv

LEMMA AppendToSet ==
  ASSUME NEW s \in Seq(Sfd), NEW x \in Sfd, S!IsInjective(s), x \notin S!ToSet(s)
  PROVE  /\ Append(s, x) \in Seq(Sfd) /\ S!IsInjective(Append(s, x))
         /\ S!ToSet(Append(s, x)) = S!ToSet(s) \cup {x}
<1>1. /\ Append(s, x) \in Seq(Sfd) /\ DOMAIN Append(s, x) = 1..Len(s) + 1
      /\ DOMAIN s = 1..Len(s) /\ Len(s) \in Nat
      /\ Append(s, x)[Len(s) + 1] = x /\ \A i \in 1..Len(s) : Append(s, x)[i] = s[i]
  BY AppendProperties, LenProperties
<1>2. \A i \in 1..Len(s) + 1 : i = Len(s) + 1 \/ i \in 1..Len(s)
  BY <1>1
<1>3. \A i \in 1..Len(s) : s[i] # x
  BY <1>1 DEF S!ToSet
<1>4. S!IsInjective(Append(s, x))
  BY <1>1, <1>2, <1>3 DEF S!IsInjective
<1>5. S!ToSet(Append(s, x)) = S!ToSet(s) \cup {x}
  <2>1. Len(s) + 1 \in 1..Len(s) + 1 /\ \A i \in 1..Len(s) : i \in 1..Len(s) + 1
    BY <1>1
  <2> QED
    BY <1>1, <1>2, <2>1 DEF S!ToSet
<1> QED
  BY <1>1, <1>4, <1>5

LEMMA TailToSet ==
  ASSUME NEW s \in Seq(Sfd), s # <<>>, S!IsInjective(s)
  PROVE  /\ Tail(s) \in Seq(Sfd) /\ S!IsInjective(Tail(s))
         /\ s[1] \in S!ToSet(s) /\ S!ToSet(s) \subseteq Sfd
         /\ S!ToSet(Tail(s)) = S!ToSet(s) \ {s[1]}
<1>1. /\ Tail(s) \in Seq(Sfd) /\ Len(s) \in Nat \ {0}
      /\ DOMAIN Tail(s) = 1..Len(s) - 1 /\ DOMAIN s = 1..Len(s)
      /\ \A i \in 1..Len(s) - 1 : Tail(s)[i] = s[i + 1]
      /\ \A i \in 1..Len(s) : s[i] \in Sfd
  BY HeadTailProperties, LenProperties, EmptySeq, ElementOfSeq
<1>2. S!IsInjective(Tail(s))
  BY <1>1 DEF S!IsInjective
<1>3. s[1] \in S!ToSet(s) /\ S!ToSet(s) \subseteq Sfd
  BY <1>1 DEF S!ToSet
<1>4. ASSUME NEW e \in S!ToSet(Tail(s)) PROVE e \in S!ToSet(s) /\ e # s[1]
  <2>1. PICK i \in 1..Len(s) - 1 : e = s[i + 1]
    BY <1>1 DEF S!ToSet
  <2>2. i + 1 \in 1..Len(s) /\ 1 \in 1..Len(s) /\ i + 1 # 1
    BY <1>1
  <2> QED
    BY <1>1, <2>1, <2>2 DEF S!ToSet, S!IsInjective
<1>5. ASSUME NEW e \in S!ToSet(s), e # s[1] PROVE e \in S!ToSet(Tail(s))
  <2>1. PICK i \in 1..Len(s) : e = s[i]
    BY <1>1 DEF S!ToSet
  <2>2. i - 1 \in 1..Len(s) - 1 /\ Tail(s)[i - 1] = s[(i - 1) + 1] /\ (i - 1) + 1 = i
    BY <1>1, <1>5, <2>1
  <2> QED
    BY <1>1, <2>1, <2>2 DEF S!ToSet
<1> QED
  BY <1>1, <1>2, <1>3, <1>4, <1>5

\* A step of the user's leaves what the poll returned as it is.
LEMMA EntriesStay ==
  ASSUME SelectIInv, rfds' = rfds, current' = current, events' = events, revents' = revents
         \/ \E x \in Sfd : memory[x] = "free" /\ revents' = [revents EXCEPT ![x] = {}],
         \A x \in Sfd : memory[x] # "free" => fd'[x] = fd[x] \/ ~looping
  PROVE  MappedPolled' = MappedPolled /\ MappedEntry' = MappedEntry
<1>1. \A x \in S!ToSet(rfds) :
        x \in Sfd /\ memory[x] # "free" /\ revents'[x] = revents[x] /\ fd'[x] = fd[x]
  <2> TAKE x \in S!ToSet(rfds)
  <2>1. rfds # <<>>
    BY EmptySeq DEF S!ToSet
  <2>2. x \in Sfd
    BY <2>1, SelectTypes, TailToSet DEF SelectIInv, Kept
  <2>3. looping /\ memory[x] # "free"
    BY <2>1 DEF SelectIInv, Kept, Waiting
  <2> QED
    BY <2>2, <2>3, SelectTypes DEF SelectIInv
<1>2. MappedPolled' = MappedPolled
  BY <1>1 DEF MappedPolled, S!PolledEntry
<1>3. current # None => current \in Sfd /\ memory[current] # "free" /\ looping
  BY SelectTypes DEF SelectIInv, Kept, Waiting
<1>4. MappedEntry' = MappedEntry
  BY <1>3 DEF MappedEntry, S!PolledEntry
<1> QED
  BY <1>2, <1>4

\* The steps of the user keep what is waiting.
LEMMA WaitingStays ==
  ASSUME SelectIInv, rfds' = rfds, current' = current, looping' = looping,
         \A x \in Sfd : memory'[x] = "free" => memory[x] = "free" \/ ~looping,
         \A x \in Sfd : memory'[x] # "free" => fd'[x] \in S!Slot,
         \A x \in Sfd : memory'[x] = "deleted" => looping
  PROVE  Kept'
<1>1. Waiting' = Waiting /\ (~looping => Waiting = {})
  BY EmptySeq DEF Waiting, SelectIInv, Kept, S!ToSet
<1>2. Waiting \subseteq Sfd
  <2>1. S!ToSet(rfds) \subseteq Sfd
    BY SelectTypes, TailToSet, EmptySeq DEF SelectIInv, Kept, S!ToSet
  <2> QED
    BY <2>1, SelectTypes DEF SelectIInv, Waiting
<1> QED
  BY <1>1, <1>2 DEF SelectIInv, Kept, S!IsInjective

LEMMA SelectAdd ==
  ASSUME SelectIInv, NEW x \in Sfd, NEW f \in Number, S!Add(x, f)
  PROVE  SelectIInv' /\ S!Contract!User
<1> USE SelectConstants
<1>1. /\ f \in S!Slot /\ memory[x] = "free" /\ \A y \in Registered : fd[y] # f
      /\ memory' = [memory EXCEPT ![x] = "live"]
      /\ fd' = [fd EXCEPT ![x] = f]
      /\ watch_events' = [watch_events EXCEPT ![x] = {"error"}]
      /\ revents' = [revents EXCEPT ![x] = {}]
      /\ fds' = [fds EXCEPT ![f] = x]
      /\ eset' = eset \cup {f}
      /\ UNCHANGED <<rset, wset, rfds, current, events, looping, deferred_to_close, runs>>
  BY DEF S!Add, S!Fits, S!Slot, S!loop, Registered
<1>2. S!TypeOK'
  BY <1>1, SelectTypes DEF S!TypeOK, SelectIInv
<1> USE DEF SelectIInv
<1>3. Registered' = Registered \cup {x} /\ x \notin Registered
  BY <1>1, SelectTypes DEF Registered
<1>4. \A y \in Sfd : /\ fd'[y] = IF y = x THEN f ELSE fd[y]
                     /\ watch_events'[y] = IF y = x THEN {"error"} ELSE watch_events[y]
                     /\ memory'[y] = IF y = x THEN "live" ELSE memory[y]
  BY <1>1, SelectTypes
<1>5. /\ Watching("read")' = Watching("read") /\ Watching("write")' = Watching("write")
      /\ Watching("error")' = Watching("error") \cup {f}
  BY <1>3, <1>4 DEF Watching, Registered
<1>6. S!SetsAgree'
  <2>1. \A y \in Registered' : fds'[fd'[y]] = y
    BY <1>1, <1>3, <1>4, SelectTypes, SetsAgreeIs DEF Kept, Registered
  <2>2. \A g \in S!Slot : fds'[g] # None => fds'[g] \in Registered' /\ fd'[fds'[g]] = g
    BY <1>1, <1>3, <1>4, SelectTypes, SetsAgreeIs DEF Registered
  <2>3. S!ToSet(deferred_to_close)' = {y \in Sfd : memory'[y] = "deleted"}
    BY <1>1, <1>4, SetsAgreeIs DEF S!ToSet
  <2> QED
    BY <1>1, <1>5, <2>1, <2>2, <2>3, SetsAgreeIs, SetsAgreeNext DEF S!IsInjective
<1>7. Kept'
  BY <1>1, <1>4, WaitingStays DEF Kept
<1>8. MappedPolled' = MappedPolled /\ MappedEntry' = MappedEntry
  BY <1>1, <1>4, EntriesStay
<1>9. /\ MappedFd' = [MappedFd EXCEPT ![x] = f]
      /\ MappedWatch' = [MappedWatch EXCEPT ![x] = {}]
  <2>1. \A y \in Sfd : /\ FdOf(y)' = IF y = x THEN f ELSE FdOf(y)
                       /\ WatchOf(y)' = IF y = x THEN {} ELSE WatchOf(y)
    <3> HIDE DEF SelectIInv
    <3>1. {"error"} \ {"error"} = {}
      OBVIOUS
    <3> QED
      BY <1>4, <3>1 DEF FdOf, WatchOf
  <2>2. MappedFd' = [y \in Sfd |-> IF y = x THEN f ELSE FdOf(y)]
    BY <2>1 DEF MappedFd
  <2>3. MappedWatch' = [y \in Sfd |-> IF y = x THEN {} ELSE WatchOf(y)]
    BY <2>1 DEF MappedWatch
  <2>4. MappedFd' = [MappedFd EXCEPT ![x] = f]
    BY <2>2 DEF MappedFd
  <2>5. MappedWatch' = [MappedWatch EXCEPT ![x] = {}]
    BY <2>3 DEF MappedWatch
  <2> QED
    BY <2>4, <2>5
<1>10. S!Contract!Add(x, f, {})
  BY <1>1, <1>8, <1>9 DEF S!Contract!Add, MappedFd, MappedWatch, MappedPolled, MappedEntry,
                          FdOf, WatchOf
<1>11. \A y \in S!Contract!Live : FdOf(y) # f
  BY <1>1 DEF S!Contract!Live, FdOf, Registered
<1>12. S!Contract!User
  BY <1>10, <1>11 DEF S!Contract!User, S!Contract!Live, FdOf
<1> QED
  BY <1>2, <1>6, <1>7, <1>12

LEMMA SelectDel ==
  ASSUME SelectIInv, NEW x \in Sfd, S!Del(x)
  PROVE  SelectIInv' /\ S!Contract!User
<1> USE SelectConstants
<1>1. /\ memory[x] = "live"
      /\ rset' = rset \ {fd[x]} /\ wset' = wset \ {fd[x]} /\ eset' = eset \ {fd[x]}
      /\ fds' = [fds EXCEPT ![fd[x]] = None]
      /\ UNCHANGED <<revents, rfds, current, events, looping, runs>>
  BY DEF S!Del, S!Cleared, S!loop
<1> DEFINE gone == IF looping THEN "deleted" ELSE "free"
<1>2. /\ \A y \in Sfd : /\ memory'[y] = IF y = x THEN gone ELSE memory[y]
                        /\ y # x \/ looping => fd'[y] = fd[y] /\ watch_events'[y] = watch_events[y]
      /\ memory' = [memory EXCEPT ![x] = gone]
      /\ fd' \in [Sfd -> S!Slot \cup {None}] /\ watch_events' \in [Sfd -> SUBSET S!Event]
      /\ deferred_to_close' = IF looping THEN Append(deferred_to_close, x)
                              ELSE deferred_to_close
  <2>1. CASE looping
    BY <1>1, <2>1, SelectTypes DEF S!Del, S!Deferred, SelectIInv
  <2>2. CASE ~looping
    <3>1. /\ fd' = [y \in Sfd |-> IF y = x THEN None ELSE fd[y]]
          /\ watch_events' = [y \in Sfd |-> IF y = x THEN {} ELSE watch_events[y]]
          /\ memory' = [y \in Sfd |-> IF y = x THEN "free" ELSE memory[y]]
          /\ deferred_to_close' = deferred_to_close
      BY <2>2 DEF S!Del, S!Deferred, S!Free
    <3> QED
      BY <2>2, <3>1, SelectTypes DEF SelectIInv
  <2> QED
    BY <2>1, <2>2
<1> HIDE DEF gone
<1>3. gone \in {"deleted", "free"} /\ (gone = "deleted" <=> looping)
  BY SelectTypes DEF gone, SelectIInv
<1> USE DEF SelectIInv
<1>4. Registered' = Registered \ {x} /\ x \in Registered
  BY <1>1, <1>2, <1>3, SelectTypes DEF Registered
<1>5. \A y \in Registered' : /\ y # x /\ fd[y] # fd[x] /\ fd'[y] = fd[y]
                             /\ watch_events'[y] = watch_events[y]
  BY <1>2, <1>4, Distinct DEF Registered
<1>6. ASSUME NEW ev PROVE Watching(ev)' = Watching(ev) \ {fd[x]}
  BY <1>4, <1>5 DEF Watching, Registered
<1>7. /\ deferred_to_close' \in Seq(Sfd) /\ S!IsInjective(deferred_to_close)'
      /\ S!ToSet(deferred_to_close)' = IF looping THEN S!ToSet(deferred_to_close) \cup {x}
                                       ELSE S!ToSet(deferred_to_close)
  <2>1. deferred_to_close \in Seq(Sfd) /\ S!IsInjective(deferred_to_close)
        /\ x \notin S!ToSet(deferred_to_close)
    BY <1>1, SelectTypes, SetsAgreeIs
  <2>2. CASE looping
    <3>1. /\ deferred_to_close' = Append(deferred_to_close, x)
          /\ S!IsInjective(Append(deferred_to_close, x))
          /\ S!ToSet(Append(deferred_to_close, x)) = S!ToSet(deferred_to_close) \cup {x}
          /\ Append(deferred_to_close, x) \in Seq(Sfd)
      BY <1>2, <2>1, <2>2, AppendToSet
    <3>2. S!IsInjective(deferred_to_close)'
      BY <3>1 DEF S!IsInjective
    <3>3. S!ToSet(deferred_to_close)' = S!ToSet(deferred_to_close) \cup {x}
      BY <3>1 DEF S!ToSet
    <3> QED
      BY <2>2, <3>1, <3>2, <3>3
  <2>3. CASE ~looping
    BY <1>2, <2>1, <2>3 DEF S!ToSet, S!IsInjective
  <2> QED
    BY <2>2, <2>3
<1>8. S!TypeOK'
  <2>1. memory' \in [Sfd -> {"free", "live", "deleted"}]
    BY <1>2, <1>3, SelectTypes
  <2>2. fd' \in [Sfd -> S!Slot \cup {None}] /\ watch_events' \in [Sfd -> SUBSET S!Event]
    BY <1>1, <1>2, SelectTypes
  <2>3. /\ revents' \in [Sfd -> SUBSET S!Event]
        /\ rset' \subseteq S!Slot /\ wset' \subseteq S!Slot /\ eset' \subseteq S!Slot
        /\ fds' \in [S!Slot -> Sfd \cup {None}]
    BY <1>1, <1>2, SelectTypes
  <2>4. /\ rfds' \in Seq(Sfd) /\ current' \in Sfd \cup {None} /\ events' \subseteq S!Event
        /\ looping' \in BOOLEAN /\ runs' \in {"run", "callback"}
    BY <1>1, <1>2, SelectTypes
  <2> QED
    BY <1>7, <2>1, <2>2, <2>3, <2>4 DEF S!TypeOK
<1>9. S!SetsAgree'
  <2>1. \A y \in Registered' : fds'[fd'[y]] = y
    BY <1>1, <1>4, <1>5, SelectTypes, SetsAgreeIs DEF Kept, Registered
  <2>2. \A g \in S!Slot : fds'[g] # None => fds'[g] \in Registered' /\ fd'[fds'[g]] = g
    <3> SUFFICES ASSUME NEW g \in S!Slot, fds'[g] # None
                 PROVE  fds'[g] \in Registered' /\ fd'[fds'[g]] = g
      OBVIOUS
    <3>1. g # fd[x] /\ fds'[g] = fds[g]
      BY <1>1, SelectTypes
    <3>2. fds[g] \in Registered /\ fd[fds[g]] = g
      BY <3>1, SetsAgreeIs
    <3> QED
      BY <1>4, <1>5, <3>1, <3>2
  <2>3. S!ToSet(deferred_to_close)' = {y \in Sfd : memory'[y] = "deleted"}
    BY <1>1, <1>2, <1>3, <1>7, SetsAgreeIs
  <2> QED
    BY <1>1, <1>6, <1>7, <2>1, <2>2, <2>3, SetsAgreeIs, SetsAgreeNext
<1>10. Kept'
  BY <1>1, <1>2, <1>3, WaitingStays DEF Kept
<1>11. MappedPolled' = MappedPolled /\ MappedEntry' = MappedEntry
  <2>1. \A y \in Sfd : memory[y] # "free" => fd'[y] = fd[y] \/ ~looping
    BY <1>2
  <2> QED
    BY <1>1, <2>1, EntriesStay
<1>12. /\ MappedFd' = [MappedFd EXCEPT ![x] = None]
       /\ MappedWatch' = [MappedWatch EXCEPT ![x] = {}]
  <2>1. \A y \in Sfd : /\ FdOf(y)' = IF y = x THEN None ELSE FdOf(y)
                       /\ WatchOf(y)' = IF y = x THEN {} ELSE WatchOf(y)
    BY <1>2, <1>3 DEF FdOf, WatchOf
  <2> QED
    BY <2>1 DEF MappedFd, MappedWatch
<1>13. S!Contract!Del(x)
  BY <1>1, <1>2, <1>11, <1>12 DEF S!Contract!Del, MappedFd, MappedWatch, MappedPolled,
                                  MappedEntry, FdOf, WatchOf, gone
<1>14. S!Contract!User
  BY <1>1, <1>13 DEF S!Contract!User, S!Contract!Live
<1> QED
  BY <1>8, <1>9, <1>10, <1>14

LEMMA SelectWatches ==
  ASSUME SelectIInv, NEW x \in Sfd, NEW ev \in {"read", "write"},
         S!Watch(x, ev) \/ S!Unwatch(x, ev)
  PROVE  SelectIInv' /\ S!Contract!User
<1> USE SelectConstants
<1>1. PICK w \in SUBSET S!Event :
        /\ memory[x] = "live"
        /\ watch_events' = [watch_events EXCEPT ![x] = w]
        /\ \A e \in S!Event \ {ev} : e \in w <=> e \in watch_events[x]
        /\ rset' = IF ev = "read"
                     THEN IF ev \in w THEN rset \cup {fd[x]} ELSE rset \ {fd[x]} ELSE rset
        /\ wset' = IF ev = "write"
                     THEN IF ev \in w THEN wset \cup {fd[x]} ELSE wset \ {fd[x]} ELSE wset
        /\ UNCHANGED <<memory, fd, revents, eset, fds, rfds, current, events, looping,
                       deferred_to_close, runs>>
  <2>1. watch_events[x] \subseteq S!Event
    BY SelectTypes DEF SelectIInv
  <2>2. CASE S!Watch(x, ev)
    <3>1. watch_events[x] \cup {ev} \in SUBSET S!Event
      BY <2>1
    <3> QED
      BY <2>2, <3>1 DEF S!Watch, S!loop
  <2>3. CASE S!Unwatch(x, ev)
    <3>1. watch_events[x] \ {ev} \in SUBSET S!Event
      BY <2>1
    <3> QED
      BY <2>3, <3>1 DEF S!Unwatch, S!loop
  <2> QED
    BY <2>2, <2>3
<1> USE DEF SelectIInv
<1>2. \A y \in Sfd : watch_events'[y] = IF y = x THEN w ELSE watch_events[y]
  BY <1>1, SelectTypes
<1>3. Registered' = Registered /\ x \in Registered /\ fd[x] \in S!Slot
  BY <1>1 DEF Registered, Kept
<1>4. ASSUME NEW e \in S!Event \ {ev} PROVE Watching(e)' = Watching(e)
  <2>1. \A y \in Registered : e \in watch_events'[y] <=> e \in watch_events[y]
    BY <1>1, <1>2, <1>4 DEF Registered
  <2> QED
    BY <1>1, <1>3, <2>1 DEF Watching
<1>5. Watching(ev)' = IF ev \in w THEN Watching(ev) \cup {fd[x]} ELSE Watching(ev) \ {fd[x]}
  <2>1. \A y \in Registered \ {x} :
          fd[y] # fd[x] /\ (ev \in watch_events'[y] <=> ev \in watch_events[y])
    BY <1>2, <1>3, Distinct DEF Registered
  <2>2. ev \in watch_events'[x] <=> ev \in w
    BY <1>2
  <2> QED
    BY <1>1, <1>3, <2>1, <2>2 DEF Watching
<1>6. S!TypeOK'
  <2>1. watch_events' \in [Sfd -> SUBSET S!Event]
    BY <1>1, SelectTypes
  <2> QED
    BY <1>1, <1>3, <2>1, SelectTypes DEF S!TypeOK
<1>7. S!SetsAgree'
  <2>1. rset' = Watching("read")' /\ wset' = Watching("write")' /\ eset' = Watching("error")'
    BY <1>1, <1>4, <1>5, SetsAgreeIs
  <2>2. S!ToSet(deferred_to_close)' = S!ToSet(deferred_to_close)
    BY <1>1 DEF S!ToSet
  <2> QED
    BY <1>1, <1>3, <2>1, <2>2, SetsAgreeIs, SetsAgreeNext DEF S!IsInjective
<1>8. Kept'
  BY <1>1, WaitingStays DEF Kept
<1>9. MappedPolled' = MappedPolled /\ MappedEntry' = MappedEntry
  BY <1>1, EntriesStay
<1>10. /\ MappedFd' = MappedFd
       /\ MappedWatch' = [MappedWatch EXCEPT ![x] = w \ {"error"}]
  <2>1. \A y \in Sfd : /\ FdOf(y)' = FdOf(y)
                       /\ WatchOf(y)' = IF y = x THEN w \ {"error"} ELSE WatchOf(y)
    BY <1>1, <1>2 DEF FdOf, WatchOf
  <2> QED
    BY <2>1 DEF MappedFd, MappedWatch
<1>11. S!Contract!Watches(x, w \ {"error"})
  BY <1>1, <1>9, <1>10 DEF S!Contract!Watches, MappedFd, MappedWatch, MappedPolled,
                           MappedEntry, FdOf, WatchOf
<1>12. w \ {"error"} \in SUBSET {"read", "write"}
  OBVIOUS
<1>13. S!Contract!User
  BY <1>1, <1>11, <1>12 DEF S!Contract!User, S!Contract!Live
<1> QED
  BY <1>6, <1>7, <1>8, <1>13

\* What neither the descriptors nor the sets are concerned by.
LEMMA LoopOnly ==
  ASSUME SelectIInv,
         UNCHANGED <<memory, fd, watch_events, rset, wset, eset, fds, deferred_to_close>>
  PROVE  S!SetsAgree' /\ MappedFd' = MappedFd /\ MappedWatch' = MappedWatch
<1>1. S!SetsAgree'
  BY DEF SelectIInv, S!SetsAgree, S!ToSet, S!IsInjective
<1>2. MappedFd' = MappedFd /\ MappedWatch' = MappedWatch
  BY DEF MappedFd, MappedWatch, FdOf, WatchOf
<1> QED
  BY <1>1, <1>2

LEMMA SelectReturn ==
  ASSUME SelectIInv, S!Return
  PROVE  SelectIInv' /\ UNCHANGED <<MappedFd, MappedWatch, MappedPolled, MappedEntry,
                                    memory, looping>>
<1> USE DEF SelectIInv
<1>1. /\ UNCHANGED <<memory, fd, watch_events, revents, rset, wset, eset, fds, rfds, current,
                     events, looping, deferred_to_close>>
      /\ runs' = "run"
  BY DEF S!Return, S!memory, S!sets, S!loop
<1>2. S!TypeOK'
  BY <1>1, SelectTypes DEF S!TypeOK
<1>3. Kept'
  BY <1>1 DEF Kept, Waiting, S!ToSet, S!IsInjective
<1>4. MappedPolled' = MappedPolled /\ MappedEntry' = MappedEntry
  BY <1>1 DEF MappedPolled, MappedEntry, S!PolledEntry, S!ToSet
<1> QED
  BY <1>1, <1>2, <1>3, <1>4, LoopOnly

LEMMA PollIs ==
  S!Contract!Poll <=>
    /\ ~looping /\ looping' = TRUE
    /\ \E R \in (SUBSET S!Contract!Live) \ {{}} :
       \E evs \in [R -> (SUBSET {"read", "write", "error"}) \ {{}}] :
         /\ \A x \in R : evs[x] \subseteq MappedWatch[x] \cup {"error"}
         /\ MappedPolled' = {[sfd |-> x, fd |-> MappedFd[x], events |-> evs[x]] : x \in R}
    /\ UNCHANGED <<memory, MappedFd, MappedWatch, MappedEntry>>
BY DEF S!Contract!Poll, MappedFd, MappedWatch, MappedPolled, MappedEntry, FdOf, WatchOf

LEMMA SelectSelect ==
  ASSUME SelectIInv, S!Select
  PROVE  SelectIInv' /\ S!Contract!Poll
<1> USE SelectConstants DEF SelectIInv
<1>1. PICK r \in [S!Slot -> SUBSET S!Event] :
        /\ \A f \in S!Slot : /\ "read" \in r[f] => f \in rset
                             /\ "write" \in r[f] => f \in wset
                             /\ "error" \in r[f] => f \in eset
        /\ \E f \in S!Slot : r[f] # {}
        /\ rfds' \in S!BoundedSeq(S!Returned(r), FD_SETSIZE)
        /\ S!ToSet(rfds)' = S!Returned(r)
        /\ \A i, j \in DOMAIN rfds' : i < j => fd[rfds'[i]] < fd[rfds'[j]]
        /\ revents' = [x \in Sfd |-> IF memory[x] = "live" THEN r[fd[x]] ELSE {}]
  BY DEF S!Select, S!ToSet
<1>2. /\ runs = "run" /\ looping = FALSE /\ looping' = TRUE
      /\ UNCHANGED <<memory, fd, watch_events, rset, wset, eset, fds, current, events,
                     deferred_to_close, runs>>
  BY SelectTypes DEF S!Select, S!sets
<1>3. S!Returned(r) = {x \in Registered : r[fd[x]] # {}}
  <2>1. \A f \in S!Slot : fds[f] # None => fds[f] \in Registered /\ fd[fds[f]] = f
    BY SetsAgreeIs
  <2>2. \A x \in Registered : fd[x] \in S!Slot /\ fds[fd[x]] = x /\ x # None
    BY SetsAgreeIs DEF Kept, Registered
  <2> QED
    BY <2>1, <2>2 DEF S!Returned
<1>4. /\ rfds' \in Seq(Sfd) /\ \A i \in DOMAIN rfds' : rfds'[i] \in Registered
      /\ DOMAIN rfds' \subseteq Nat
  <2>1. PICK n \in 0..FD_SETSIZE : rfds' \in [1..n -> S!Returned(r)]
    BY <1>1 DEF S!BoundedSeq, S!SeqOf
  <2>2. rfds' \in [1..n -> Sfd] /\ n \in Nat
    BY <1>3, <2>1 DEF Registered
  <2> QED
    BY <1>3, <2>1, <2>2, SeqDef
<1>5. S!IsInjective(rfds)'
  <2> SUFFICES ASSUME NEW i \in DOMAIN rfds', NEW j \in DOMAIN rfds', i < j
               PROVE  rfds'[i] # rfds'[j]
    BY <1>4 DEF S!IsInjective
  <2>1. fd[rfds'[i]] \in Nat
    <3>1. fd[rfds'[i]] \in Number
      BY <1>4 DEF Kept, Registered
    <3> QED
      BY <3>1, SelectAssumption DEF SelectAssumption, S!SelectAssumption
  <2>2. fd[rfds'[i]] < fd[rfds'[j]]
    BY <1>1
  <2> QED
    BY <2>1, <2>2
<1>6. S!TypeOK'
  <2>1. revents' \in [Sfd -> SUBSET S!Event]
    BY <1>1 DEF Kept
  <2> QED
    BY <1>2, <1>4, <2>1, SelectTypes DEF S!TypeOK
<1>7. S!SetsAgree' /\ MappedFd' = MappedFd /\ MappedWatch' = MappedWatch
  BY <1>2, LoopOnly
<1>8. Kept'
  <2>1. current = None
    BY <1>2 DEF Kept
  <2>2. Waiting' = S!Returned(r)
    BY <1>1, <1>2, <2>1 DEF Waiting
  <2> QED
    BY <1>2, <1>3, <1>5, <2>2 DEF Kept, Registered
<1> DEFINE R == S!Returned(r)
           evs == [x \in R |-> r[fd[x]]]
<1>9. R \in (SUBSET S!Contract!Live) \ {{}}
  <2>1. PICK f \in S!Slot : r[f] # {}
    BY <1>1
  <2>2. PICK e \in S!Event : e \in r[f]
    BY <2>1
  <2>3. f \in Watching(e)
    BY <1>1, <2>2, SetsAgreeIs
  <2>4. PICK x \in Registered : fd[x] = f
    BY <2>3 DEF Watching
  <2>5. R # {} /\ R \subseteq S!Contract!Live
    BY <1>3, <2>1, <2>4 DEF Registered, S!Contract!Live
  <2> QED
    BY <2>5
<1>10. evs \in [R -> (SUBSET {"read", "write", "error"}) \ {{}}]
  <2>1. \A x \in R : r[fd[x]] \in SUBSET {"read", "write", "error"} /\ r[fd[x]] # {}
    BY <1>3 DEF Kept, Registered
  <2> QED
    BY <2>1
<1>11. \A x \in R : evs[x] \subseteq WatchOf(x) \cup {"error"}
  <2> SUFFICES ASSUME NEW x \in R, NEW e \in r[fd[x]], e # "error"
               PROVE  e \in watch_events[x] /\ memory[x] = "live"
    BY DEF WatchOf
  <2>1. x \in Registered /\ fd[x] \in S!Slot
    BY <1>3 DEF Kept, Registered
  <2>2. e \in {"read", "write"} /\ fd[x] \in Watching(e)
    BY <1>1, <2>1, SetsAgreeIs
  <2>3. PICK y \in Registered : e \in watch_events[y] /\ fd[y] = fd[x]
    BY <2>2 DEF Watching
  <2>4. y = x
    BY <2>1, <2>3, Distinct
  <2> QED
    BY <2>1, <2>3, <2>4 DEF Registered
<1>12. /\ MappedPolled' = {[sfd |-> x, fd |-> FdOf(x), events |-> evs[x]] : x \in R}
       /\ MappedEntry' = MappedEntry
  <2>1. \A x \in R : revents'[x] = evs[x] /\ fd'[x] = FdOf(x)
    BY <1>1, <1>2, <1>3 DEF FdOf, Registered
  <2>2. MappedPolled' = {S!PolledEntry(x, revents[x])' : x \in R}
    BY <1>1 DEF MappedPolled
  <2>3. MappedPolled' = {[sfd |-> x, fd |-> FdOf(x), events |-> evs[x]] : x \in R}
    BY <2>1, <2>2 DEF S!PolledEntry
  <2>4. MappedEntry' = MappedEntry
    BY <1>2 DEF MappedEntry, S!PolledEntry
  <2> QED
    BY <2>3, <2>4
<1>13. S!Contract!Poll
  <2> HIDE DEF R, evs
  <2>1. \A x \in Sfd : MappedFd[x] = FdOf(x) /\ MappedWatch[x] = WatchOf(x)
    BY DEF MappedFd, MappedWatch
  <2>2. R \subseteq Sfd
    BY <1>3 DEF R, Registered
  <2>3. /\ \A x \in R : evs[x] \subseteq MappedWatch[x] \cup {"error"}
        /\ MappedPolled' = {[sfd |-> x, fd |-> MappedFd[x], events |-> evs[x]] : x \in R}
    BY <1>11, <1>12, <2>1, <2>2
  <2>4. UNCHANGED <<memory, MappedFd, MappedWatch, MappedEntry>> /\ looping = FALSE /\ looping'
    BY <1>2, <1>7, <1>12
  <2> QED
    BY <1>9, <1>10, <2>3, <2>4, PollIs
<1> QED
  BY <1>6, <1>7, <1>8, <1>13

LEMMA SelectPick ==
  ASSUME SelectIInv, S!Pick
  PROVE  SelectIInv' /\ S!Contract!Pick
<1> USE SelectConstants DEF SelectIInv
<1> DEFINE x == rfds[1]
<1>1. /\ current = None /\ rfds # <<>> /\ current' = x /\ rfds' = Tail(rfds)
      /\ events' = revents[x] /\ revents' = [revents EXCEPT ![x] = {}]
      /\ UNCHANGED <<memory, fd, watch_events, rset, wset, eset, fds, looping,
                     deferred_to_close, runs>>
  BY DEF S!Pick, S!sets
<1>2. /\ Tail(rfds) \in Seq(Sfd) /\ S!IsInjective(Tail(rfds)) /\ x \in S!ToSet(rfds)
      /\ S!ToSet(rfds) \subseteq Sfd /\ S!ToSet(Tail(rfds)) = S!ToSet(rfds) \ {x}
  BY <1>1, SelectTypes, TailToSet DEF Kept
<1> HIDE DEF x
<1>3. S!ToSet(rfds)' = S!ToSet(rfds) \ {x} /\ S!IsInjective(rfds)'
  <2>1. S!ToSet(rfds)' = S!ToSet(Tail(rfds))
    BY <1>1 DEF S!ToSet
  <2>2. S!IsInjective(rfds)'
    BY <1>1, <1>2 DEF S!IsInjective
  <2> QED
    BY <1>2, <2>1, <2>2
<1>4. S!TypeOK'
  BY <1>1, <1>2, SelectTypes DEF S!TypeOK
<1>5. S!SetsAgree' /\ MappedFd' = MappedFd /\ MappedWatch' = MappedWatch
  BY <1>1, LoopOnly
<1>6. looping = TRUE
  BY <1>1, SelectTypes DEF Kept
<1>7. Kept'
  <2>1. Waiting' \subseteq Waiting
    BY <1>1, <1>2, <1>3 DEF Waiting
  <2> QED
    BY <1>1, <1>3, <1>6, <2>1 DEF Kept
<1> DEFINE e == S!PolledEntry(x, revents[x])
<1>8. MappedEntry = None /\ MappedEntry' = e /\ e \in MappedPolled
  <2>1. MappedEntry = None /\ MappedEntry' = S!PolledEntry(current, events)'
    BY <1>1, <1>2 DEF MappedEntry
  <2> QED
    BY <1>1, <1>2, <2>1 DEF MappedPolled, S!PolledEntry
<1>9. MappedPolled' = MappedPolled \ {e}
  <2>1. \A y \in S!ToSet(rfds) \ {x} : revents'[y] = revents[y] /\ fd'[y] = fd[y]
    BY <1>1, <1>2, SelectTypes
  <2>2. MappedPolled' = {S!PolledEntry(y, revents[y])' : y \in S!ToSet(rfds) \ {x}}
    BY <1>3 DEF MappedPolled
  <2>3. MappedPolled' = {S!PolledEntry(y, revents[y]) : y \in S!ToSet(rfds) \ {x}}
    BY <2>1, <2>2 DEF S!PolledEntry
  <2>4. \A y \in S!ToSet(rfds) : S!PolledEntry(y, revents[y]) = e <=> y = x
    BY DEF S!PolledEntry
  <2> QED
    BY <2>3, <2>4 DEF MappedPolled
<1>10. S!Contract!Pick
  <2> HIDE DEF e
  <2> QED
    BY <1>1, <1>5, <1>6, <1>8, <1>9
    DEF S!Contract!Pick, MappedFd, MappedWatch, MappedPolled, MappedEntry, FdOf, WatchOf
<1> QED
  BY <1>4, <1>5, <1>7, <1>10

\* The entry of the contract is the registration being looked at.
LEMMA EntryIs ==
  ASSUME SelectIInv, current # None
  PROVE  /\ MappedEntry = [sfd |-> current, fd |-> fd[current], events |-> events]
         /\ MappedEntry # None /\ current \in Sfd /\ memory[current] # "free" /\ looping
         /\ events \subseteq {"read", "write", "error"}
<1> USE SelectConstants DEF SelectIInv
<1>1. current \in Sfd /\ memory[current] # "free" /\ looping
  BY SelectTypes DEF Kept, Waiting
<1>2. MappedEntry = [sfd |-> current, fd |-> fd[current], events |-> events]
  BY DEF MappedEntry, S!PolledEntry
<1>3. MappedEntry \in [sfd : Sfd, fd : Number, events : SUBSET S!Event]
  BY <1>1, <1>2, SelectTypes DEF Kept
<1> QED
  BY <1>1, <1>2, <1>3, SelectTypes

LEMMA UpcomingIs ==
  ASSUME SelectIInv, current # None, events # {}
  PROVE  S!Contract!Upcoming = S!Upcoming /\ S!Upcoming \in events /\ S!Upcoming # None
<1>1. MappedEntry.events = events /\ MappedEntry # None /\ events \subseteq S!Event
  BY EntryIs, SelectConstants
<1> DEFINE Comes(ev) == \/ ev = "read"
                        \/ ev = "write" /\ "read" \notin events
                        \/ events = {"error"}
<1>2. S!Upcoming \in events /\ Comes(S!Upcoming)
  BY <1>1, SelectConstants DEF S!Upcoming
<1>3. \A ev \in events : Comes(ev) => ev = S!Upcoming
  BY <1>1, SelectConstants DEF S!Upcoming
<1>4. S!Contract!Upcoming = CHOOSE ev \in events : Comes(ev)
  BY <1>1 DEF S!Contract!Upcoming, MappedEntry
<1> HIDE DEF Comes
<1>5. S!Contract!Upcoming = S!Upcoming
  BY <1>2, <1>3, <1>4
<1> QED
  BY <1>1, <1>2, <1>5, SelectConstants

LEMMA SelectDispatch ==
  ASSUME SelectIInv, S!Dispatch
  PROVE  SelectIInv' /\ (S!Contract!Callback \/ S!Contract!Skip)
<1> USE SelectConstants DEF SelectIInv
<1>1. /\ current # None /\ events # {} /\ events' = events \ {S!Upcoming}
      /\ runs' = IF S!Due THEN "callback" ELSE "run"
      /\ UNCHANGED <<memory, fd, watch_events, revents, rset, wset, eset, fds, rfds, current,
                     looping, deferred_to_close>>
  BY DEF S!Dispatch, S!memory, S!sets
<1>2. S!TypeOK'
  BY <1>1, SelectTypes DEF S!TypeOK
<1>3. S!SetsAgree' /\ MappedFd' = MappedFd /\ MappedWatch' = MappedWatch
  BY <1>1, LoopOnly
<1>4. Kept'
  BY <1>1 DEF Kept, Waiting, S!ToSet, S!IsInjective
<1>5. /\ MappedEntry = [sfd |-> current, fd |-> fd[current], events |-> events]
      /\ MappedEntry # None /\ current \in Sfd
      /\ S!Contract!Upcoming = S!Upcoming /\ S!Upcoming \in events /\ S!Upcoming # None
      /\ S!Upcoming \in {"read", "write", "error"}
  BY <1>1, EntryIs, UpcomingIs
<1>6. MappedPolled' = MappedPolled
  BY <1>1 DEF MappedPolled, S!PolledEntry, S!ToSet
<1>7. MappedEntry' = [MappedEntry EXCEPT !.events = @ \ {S!Upcoming}]
  BY <1>1, <1>5 DEF MappedEntry, S!PolledEntry
<1>8. S!Contract!Consume
  BY <1>5, <1>7 DEF S!Contract!Consume, MappedEntry
<1>9. S!Contract!Due <=> S!Due
  <2>1. MappedWatch[current] = WatchOf(current) /\ MappedEntry.sfd = current
    BY <1>5 DEF MappedWatch
  <2>2. S!Contract!Due <=>
          /\ S!Contract!Upcoming # None
          /\ memory[MappedEntry.sfd] = "live"
          /\ S!Contract!Upcoming \in MappedWatch[MappedEntry.sfd] \cup {"error"}
    BY DEF S!Contract!Due, MappedEntry, MappedWatch, WatchOf
  <2> QED
    BY <1>5, <2>1, <2>2 DEF S!Due, WatchOf
<1>10. UNCHANGED <<memory, MappedFd, MappedWatch, looping, MappedPolled>>
  BY <1>1, <1>3, <1>6
<1>11. CASE S!Due
  <2>1. S!Contract!HandOut(S!Upcoming) /\ UNCHANGED <<memory, MappedFd, MappedWatch>>
    BY <1>5, <1>8, <1>9, <1>10, <1>11 DEF S!Contract!HandOut, MappedPolled
  <2>2. S!Contract!Callback
    BY <1>5, <2>1 DEF S!Contract!Callback, MappedFd, MappedWatch, FdOf, WatchOf
  <2> QED
    BY <1>2, <1>3, <1>4, <2>2
<1>12. CASE ~S!Due
  <2>1. S!Contract!Skip
    BY <1>5, <1>8, <1>9, <1>10, <1>12
    DEF S!Contract!Skip, MappedFd, MappedWatch, MappedPolled, FdOf, WatchOf
  <2> QED
    BY <1>2, <1>3, <1>4, <2>1
<1> QED
  BY <1>11, <1>12

LEMMA SelectLeave ==
  ASSUME SelectIInv, S!Leave
  PROVE  SelectIInv' /\ S!Contract!Leave
<1> USE SelectConstants DEF SelectIInv
<1>1. /\ current # None /\ events = {} /\ current' = None
      /\ UNCHANGED <<memory, fd, watch_events, revents, rset, wset, eset, fds, rfds, events,
                     looping, deferred_to_close, runs>>
  BY DEF S!Leave, S!memory, S!sets
<1>2. S!TypeOK'
  BY <1>1, SelectTypes DEF S!TypeOK
<1>3. S!SetsAgree' /\ MappedFd' = MappedFd /\ MappedWatch' = MappedWatch
  BY <1>1, LoopOnly
<1>4. Kept'
  BY <1>1 DEF Kept, Waiting, S!ToSet, S!IsInjective
<1>5. /\ MappedEntry = [sfd |-> current, fd |-> fd[current], events |-> {}]
      /\ MappedEntry # None /\ MappedEntry' = None
  BY <1>1, EntryIs DEF MappedEntry
<1>6. S!Contract!Upcoming = None
  BY <1>5 DEF S!Contract!Upcoming, MappedEntry
<1>7. MappedPolled' = MappedPolled
  BY <1>1 DEF MappedPolled, S!PolledEntry, S!ToSet
<1>8. S!Contract!Leave
  BY <1>1, <1>3, <1>5, <1>6, <1>7
  DEF S!Contract!Leave, MappedFd, MappedWatch, MappedPolled, MappedEntry, FdOf, WatchOf
<1> QED
  BY <1>2, <1>3, <1>4, <1>8

LEMMA SelectLoopEnd ==
  ASSUME SelectIInv, S!LoopEnd
  PROVE  SelectIInv' /\ S!Contract!LoopEnd
<1> USE SelectConstants DEF SelectIInv
<1> DEFINE X == {x \in Sfd : memory[x] = "deleted"}
<1>1. /\ looping = TRUE /\ current = None /\ rfds = <<>> /\ looping' = FALSE
      /\ fd' = [x \in Sfd |-> IF x \in X THEN None ELSE fd[x]]
      /\ watch_events' = [x \in Sfd |-> IF x \in X THEN {} ELSE watch_events[x]]
      /\ memory' = [x \in Sfd |-> IF x \in X THEN "free" ELSE memory[x]]
      /\ deferred_to_close' = <<>>
      /\ UNCHANGED <<revents, rset, wset, eset, fds, rfds, current, events, runs>>
  BY SetsAgreeIs, SelectTypes DEF S!LoopEnd, S!Free, S!sets
<1>2. /\ \A x \in Registered : fd'[x] = fd[x] /\ watch_events'[x] = watch_events[x]
      /\ Registered' = Registered
      /\ \A x \in Sfd : memory'[x] = "free" \/ (memory'[x] = "live" /\ x \in Registered)
  BY <1>1, SelectTypes DEF Registered
<1>3. \A x \in Sfd : memory'[x] = IF memory[x] = "deleted" THEN "free" ELSE memory[x]
  BY <1>1
<1>4. S!TypeOK'
  <2>1. /\ memory' \in [Sfd -> {"free", "live", "deleted"}]
        /\ fd' \in [Sfd -> S!Slot \cup {None}] /\ watch_events' \in [Sfd -> SUBSET S!Event]
    BY <1>1, SelectTypes
  <2> QED
    BY <1>1, <2>1, SelectTypes DEF S!TypeOK
<1>5. S!SetsAgree'
  <2>1. ASSUME NEW ev PROVE Watching(ev)' = Watching(ev)
    BY <1>2 DEF Watching
  <2>2. /\ S!ToSet(deferred_to_close)' = {} /\ S!IsInjective(deferred_to_close)'
    BY <1>1, EmptySeq DEF S!ToSet, S!IsInjective
  <2>3. {x \in Sfd : memory'[x] = "deleted"} = {}
    BY <1>2
  <2>4. /\ rset = Watching("read") /\ wset = Watching("write") /\ eset = Watching("error")
        /\ \A x \in Registered : fds[fd[x]] = x
        /\ \A f \in S!Slot : fds[f] # None => fds[f] \in Registered /\ fd[fds[f]] = f
    BY SetsAgreeIs
  <2>5. /\ rset' = Watching("read")' /\ wset' = Watching("write")' /\ eset' = Watching("error")'
    BY <1>1, <2>1, <2>4
  <2>6. /\ \A x \in Registered' : fds'[fd'[x]] = x
        /\ \A f \in S!Slot : fds'[f] # None => fds'[f] \in Registered' /\ fd'[fds'[f]] = f
    <3> HIDE DEF SelectIInv
    <3>1. fds' = fds
      BY <1>1
    <3> QED
      BY <3>1, <1>2, <2>4
  <2> HIDE DEF SelectIInv
  <2> QED
    BY <2>2, <2>3, <2>5, <2>6, SetsAgreeNext
<1>6. Kept'
  <2>1. Waiting' = {}
    BY <1>1, EmptySeq DEF Waiting, S!ToSet
  <2>2. \A x \in Sfd : memory'[x] # "free" => fd'[x] \in S!Slot
    BY <1>2 DEF Kept, Registered
  <2>3. S!IsInjective(rfds)'
    BY <1>1, EmptySeq DEF S!IsInjective
  <2> QED
    BY <1>1, <1>2, <2>1, <2>2, <2>3 DEF Kept
<1>7. MappedFd' = MappedFd /\ MappedWatch' = MappedWatch
  <2>1. \A x \in Sfd : FdOf(x)' = FdOf(x) /\ WatchOf(x)' = WatchOf(x)
    BY <1>2, <1>3 DEF FdOf, WatchOf, Registered
  <2> QED
    BY <2>1 DEF MappedFd, MappedWatch
<1>8. MappedPolled = {} /\ MappedPolled' = {} /\ MappedEntry = None /\ MappedEntry' = None
  BY <1>1, EmptySeq DEF MappedPolled, MappedEntry, S!ToSet
<1>9. memory' = [x \in Sfd |-> IF memory[x] = "deleted" THEN "free" ELSE memory[x]]
  BY <1>1
<1>10. S!Contract!LoopEnd
  BY <1>1, <1>7, <1>8, <1>9
  DEF S!Contract!LoopEnd, MappedFd, MappedWatch, MappedPolled, MappedEntry, FdOf, WatchOf
<1> QED
  BY <1>4, <1>5, <1>6, <1>10

LEMMA SelectInit == S!Init => SelectIInv /\ S!Contract!LoopInit
<1> SUFFICES ASSUME S!Init PROVE SelectIInv /\ S!Contract!LoopInit
  OBVIOUS
<1> USE SelectConstants DEF S!Init
<1>1. S!TypeOK
  <2>1. /\ memory \in [Sfd -> {"free", "live", "deleted"}]
        /\ fd \in [Sfd -> S!Slot \cup {None}]
        /\ fds \in [S!Slot -> Sfd \cup {None}]
    OBVIOUS
  <2>2. watch_events \in [Sfd -> SUBSET S!Event] /\ revents \in [Sfd -> SUBSET S!Event]
    <3>1. {} \in SUBSET S!Event
      OBVIOUS
    <3> QED
      BY <3>1
  <2>3. /\ rset \subseteq S!Slot /\ wset \subseteq S!Slot /\ eset \subseteq S!Slot
        /\ current \in Sfd \cup {None} /\ events \subseteq S!Event
        /\ looping \in BOOLEAN /\ runs \in {"run", "callback"}
    OBVIOUS
  <2>4. rfds \in Seq(Sfd) /\ deferred_to_close \in Seq(Sfd)
    BY EmptySeq
  <2> QED
    BY <2>1, <2>2, <2>3, <2>4, SelectTypes
<1>2. S!ToSet(<<>>) = {} /\ S!IsInjective(<<>>)
  BY EmptySeq DEF S!ToSet, S!IsInjective
<1>3. S!SetsAgree
  <2>1. Registered = {} /\ \A ev : Watching(ev) = {}
    BY DEF Registered, Watching
  <2> QED
    BY <1>2, <2>1, SetsAgreeIs
<1>4. Kept
  BY <1>2 DEF Kept, Waiting
<1>5. \A x \in Sfd : FdOf(x) = None /\ WatchOf(x) = {}
  BY DEF FdOf, WatchOf
<1>6. /\ MappedFd = [x \in Sfd |-> None] /\ MappedWatch = [x \in Sfd |-> {}]
      /\ MappedPolled = {} /\ MappedEntry = None
  BY <1>2, <1>5 DEF MappedFd, MappedWatch, MappedPolled, MappedEntry
<1>7. S!Contract!LoopInit
  BY <1>6
  DEF S!Contract!LoopInit, MappedFd, MappedWatch, MappedPolled, MappedEntry, FdOf, WatchOf
<1> QED
  BY <1>1, <1>3, <1>4, <1>7 DEF SelectIInv

LEMMA SelectNext ==
  ASSUME SelectIInv, [S!Next]_(S!vars)
  PROVE  SelectIInv' /\ [S!Contract!LoopNext]_(S!Contract!loopVars)
<1>1. ASSUME NEW x \in Sfd, \/ \E f \in Number : S!Add(x, f)
                            \/ S!Del(x)
                            \/ \E ev \in {"read", "write"} : S!Watch(x, ev) \/ S!Unwatch(x, ev)
      PROVE  SelectIInv' /\ S!Contract!LoopNext
  BY <1>1, SelectAdd, SelectDel, SelectWatches DEF S!Contract!LoopNext
<1>2. CASE S!Return
  BY <1>2, SelectReturn
  DEF S!Contract!loopVars, MappedFd, MappedWatch, MappedPolled, MappedEntry, FdOf, WatchOf
<1>3. CASE S!Select \/ S!Pick \/ S!Dispatch \/ S!Leave \/ S!LoopEnd
  BY <1>3, SelectSelect, SelectPick, SelectDispatch, SelectLeave, SelectLoopEnd
  DEF S!Contract!LoopNext
<1>4. CASE UNCHANGED S!vars
  <2>1. UNCHANGED <<memory, fd, watch_events, revents, rset, wset, eset, fds, rfds, current,
                    events, looping, deferred_to_close, runs>>
    BY <1>4 DEF S!vars, S!memory, S!sets, S!loop
  <2>2. S!TypeOK'
    BY <2>1 DEF SelectIInv, S!TypeOK
  <2>3. S!SetsAgree' /\ MappedFd' = MappedFd /\ MappedWatch' = MappedWatch
    BY <2>1, LoopOnly
  <2>4. Kept'
    BY <2>1 DEF SelectIInv, Kept, Waiting, S!ToSet, S!IsInjective
  <2>5. MappedPolled' = MappedPolled /\ MappedEntry' = MappedEntry
    BY <2>1 DEF MappedPolled, MappedEntry, S!PolledEntry, S!ToSet
  <2>6. UNCHANGED S!Contract!loopVars
    BY <2>1, <2>3, <2>5
    DEF S!Contract!loopVars, MappedFd, MappedWatch, MappedPolled, MappedEntry, FdOf, WatchOf
  <2> QED
    BY <2>2, <2>3, <2>4, <2>6 DEF SelectIInv
<1> QED
  BY <1>1, <1>2, <1>3, <1>4 DEF S!Next

-----------------------------------------------------------------------------
(* Theorems. *)

\* Registrations, polled entries, streams and their bytes are always as IInv
\* relates them.
THEOREM StreamInvariance == Spec => []IInv
BY InitIInv, NextIInv, PTL DEF Spec

\* An event reaches the stream it was polled for, or nobody.
THEOREM EventsReachTheirStreamHolds == Spec => []EventsReachTheirStream
<1>1. IInv => EventsReachTheirStream
  BY DueFinds DEF IInv, EventsReachTheirStream
<1> QED
  BY <1>1, StreamInvariance, PTL

\* A stream's registration is its own and in memory, and every registration has
\* a stream.
THEOREM RegistrationsAgreeHolds == Spec => []RegistrationsAgree
<1>1. IInv => RegistrationsAgree
  BY DEF IInv, Agreement
<1> QED
  BY <1>1, StreamInvariance, PTL

\* The kernel takes the bytes in the order they were written.
THEOREM InOrderHolds == Spec => []InOrder
<1>1. IInv => InOrder
  BY DEF IInv
<1> QED
  BY <1>1, StreamInvariance, PTL

\* A stream watches for writing exactly while it connects or output waits.
THEOREM WatchesOutputHolds == Spec => []WatchesOutput
<1>1. IInv => WatchesOutput
  BY DEF IInv
<1> QED
  BY <1>1, StreamInvariance, PTL

\* The sets and the table of descriptors are always in step with the
\* registrations, and the loop on select implements the loop on epoll.
THEOREM SelectSoundHolds == SystemSpec => SelectSound
<1>1. SystemInit => SelectIInv /\ S!Contract!LoopInit
  BY SelectInit DEF SystemInit
<1>2. [SystemNext]_<<component, vars, selectVars>> => [S!Next]_(S!vars)
  BY DEF SystemNext, StreamStep, SelectStep, selectVars, S!vars, S!memory, S!sets, S!loop
<1>3. SelectIInv /\ [S!Next]_(S!vars) => SelectIInv' /\ [S!Contract!LoopNext]_(S!Contract!loopVars)
  BY SelectNext
<1>4. SelectIInv => S!TypeOK /\ S!SetsAgree
  BY DEF SelectIInv
<1> QED
  BY <1>1, <1>2, <1>3, <1>4, PTL DEF SystemSpec, SelectSound, S!KeepsContract, S!Contract!LoopSpec
=============================================================================
