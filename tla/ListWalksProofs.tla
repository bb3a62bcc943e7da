--------------------------- MODULE ListWalksProofs ---------------------------
(***************************************************************************)
(* That write_fd() puts the list's bytes into the file in order and all of *)
(* them, for every chain of buffers, every IOV_MAX, however the kernel cuts *)
(* the system calls; and that contents_equal() answers right, wherever the *)
(* two chains are cut.                                                     *)
(***************************************************************************)
EXTENDS WriteFd, ContentsEqual, TLAPS

Filled(n) == file = [p \in 1..n |-> p]

Known ==
  /\ mode \in {"stream", "at"} /\ chain \in Chains
  /\ bptr \in 1..(Len(chain) + 1)
  /\ iov \in Seq(Buffer)
  /\ bytes \in Nat /\ batch \in Nat /\ offset \in Nat
  /\ at \in Nat /\ taken \in Nat /\ wrote \in Nat
  /\ pc \in {"gather", "call", "write", "short", "drain", "done"} /\ ret \in {0, -1}
  /\ at <= Gathered

(* Between system calls: what is gathered is what the file lacks.          *)
Gathering ==
  pc \in {"gather", "call"} =>
    /\ Spans(iov, at, Gathered) /\ bytes = Gathered - at
    /\ wrote = 0 /\ taken = 0
    /\ mode = "at" => offset = at
    /\ pc = "gather" /\ bptr > Len(chain) => iov = <<>>

(* In one: at stays where it began.                                        *)
Writing ==
  pc \in {"write", "short"} =>
    /\ Spans(iov, at, Gathered) /\ bytes = Gathered - at
    /\ mode = "at" => offset + batch = Gathered
    /\ pc = "write" => taken <= Len(iov) /\ Place(iov, taken + 1, Gathered) = at + wrote
    /\ at + wrote <= Gathered

(* After a part of it: the vector, and in write_fd(fd) the count, still     *)
(* begin where it began, or where the loop has come since.                 *)
Draining ==
  pc = "drain" =>
    /\ wrote <= at /\ at < Gathered /\ taken = 0
    /\ Spans(iov, at - wrote, Gathered)
    /\ bytes = Gathered - (IF mode = "at" THEN at ELSE at - wrote)
    /\ mode = "at" => offset + batch = Gathered

WInv ==
  /\ Known /\ Gathering /\ Writing /\ Draining
  /\ Filled(IF pc \in {"write", "short"} THEN at + wrote ELSE at)
  /\ pc = "done" /\ ret = 0 => at = Total(chain)

-----------------------------------------------------------------------------
(* Vectors. *)

(* What a vector holds. *)
LEMMA BufferAt ==
  ASSUME NEW v \in Seq(Buffer), NEW i \in 1..Len(v)
  PROVE  v[i] \in Buffer /\ v[i].base \in Nat /\ v[i].len \in Nat
<1>1. v[i] \in Buffer
  OBVIOUS
<1> QED BY <1>1 DEF Buffer

(* One more buffer at the end. *)
LEMMA SpansAppend ==
  ASSUME NEW v, NEW a \in Nat, NEW z \in Nat, Spans(v, a, z), NEW b \in Buffer, b.base = z
  PROVE  Spans(Append(v, b), a, z + b.len)
<1> DEFINE w == Append(v, b)
           y == z + b.len
<1>1. /\ v \in Seq(Buffer) /\ b.base \in Nat /\ b.len \in Nat
      /\ Len(w) = Len(v) + 1 /\ Len(v) \in Nat /\ w \in Seq(Buffer)
      /\ DOMAIN v = 1..Len(v) /\ DOMAIN w = 1..(Len(v) + 1)
      /\ \A i \in 1..Len(v) : w[i] = v[i]
      /\ w[Len(v) + 1] = b
  BY DEF Spans, Buffer
<1>2. \A i \in 1..(Len(v) + 1) : Place(w, i, y) = Place(v, i, z)
  BY <1>1 DEF Place
<1>3. Place(w, Len(v) + 2, y) = y
  BY <1>1 DEF Place
<1>4. ASSUME NEW i \in DOMAIN w
      PROVE  /\ Place(w, i + 1, y) = w[i].base + w[i].len
             /\ w[i].base + w[i].len <= y
  <2>1. CASE i = Len(v) + 1
    BY <2>1, <1>1, <1>3
  <2>2. CASE i \in 1..Len(v)
    <3>1. v[i].base + v[i].len <= z /\ Place(v, i + 1, z) = v[i].base + v[i].len
      BY <2>2, <1>1 DEF Spans
    <3>2. v[i].base \in Nat /\ v[i].len \in Nat
      BY <2>2, <1>1, BufferAt
    <3>3. Place(w, i + 1, y) = Place(v, i + 1, z)
      BY <2>2, <1>1, <1>2
    <3> QED BY <3>1, <3>2, <3>3, <2>2, <1>1
  <2> QED BY <2>1, <2>2, <1>1
<1>5. Place(w, 1, y) = a
  BY <1>2, <1>1 DEF Spans
<1> QED BY <1>1, <1>4, <1>5 DEF Spans

(* A buffer without bytes adds none. *)
LEMMA SpansEmpty ==
  ASSUME NEW a
  PROVE  Spans(<<>>, a, a)
BY DEF Spans, Place

(* The first buffer gone. *)
LEMMA SpansTail ==
  ASSUME NEW v, NEW a \in Nat, NEW z \in Nat, Spans(v, a, z), v # <<>>
  PROVE  Spans(Tail(v), a + v[1].len, z)
<1> DEFINE w == Tail(v)
<1>1. /\ v \in Seq(Buffer) /\ Len(v) \in Nat \ {0}
      /\ w \in Seq(Buffer) /\ Len(w) = Len(v) - 1
      /\ DOMAIN v = 1..Len(v) /\ DOMAIN w = 1..(Len(v) - 1)
      /\ \A i \in 1..(Len(v) - 1) : w[i] = v[i + 1]
  BY DEF Spans
<1>2. \A i \in 1..Len(v) : Place(w, i, z) = Place(v, i + 1, z)
  BY <1>1 DEF Place
<1>3. v[1].base = a /\ Place(v, 2, z) = v[1].base + v[1].len
  BY <1>1 DEF Spans, Place
<1>4. Place(w, 1, z) = a + v[1].len
  BY <1>1, <1>2, <1>3
<1>5. ASSUME NEW i \in DOMAIN w
      PROVE  /\ Place(w, i + 1, z) = w[i].base + w[i].len
             /\ w[i].base + w[i].len <= z
  <2>1. i + 1 \in DOMAIN v /\ i + 1 \in 1..Len(v) /\ w[i] = v[i + 1]
    BY <1>1
  <2>2. Place(v, (i + 1) + 1, z) = v[i + 1].base + v[i + 1].len /\ v[i + 1].base + v[i + 1].len <= z
    BY <2>1 DEF Spans
  <2> QED BY <2>1, <2>2, <1>2
<1> QED BY <1>1, <1>4, <1>5 DEF Spans

(* The first buffer without its front. *)
LEMMA SpansBehind ==
  ASSUME NEW v, NEW a \in Nat, NEW z \in Nat, Spans(v, a, z), v # <<>>,
         NEW n \in Nat, n <= v[1].len
  PROVE  Spans([v EXCEPT ![1] = Behind(@, n)], a + n, z)
<1> DEFINE w == [v EXCEPT ![1] = Behind(@, n)]
<1>0. /\ v \in Seq(Buffer) /\ Len(v) \in Nat \ {0} /\ 1 \in DOMAIN v
      /\ DOMAIN v = 1..Len(v) /\ DOMAIN w = DOMAIN v
      /\ \A i \in DOMAIN v \ {1} : w[i] = v[i]
      /\ w[1] = Behind(v[1], n)
  BY DEF Spans
<1>a. v[1] \in Buffer /\ v[1].base \in Nat /\ v[1].len \in Nat
  BY <1>0, BufferAt
<1>b. v[1].base = a
  BY <1>0 DEF Spans, Place
<1>1. /\ v \in Seq(Buffer) /\ Len(v) \in Nat \ {0} /\ 1 \in DOMAIN v
      /\ DOMAIN v = 1..Len(v) /\ DOMAIN w = DOMAIN v
      /\ v[1] \in Buffer /\ v[1].base = a /\ v[1].base \in Nat /\ v[1].len \in Nat
      /\ \A i \in DOMAIN v \ {1} : w[i] = v[i]
      /\ w[1] = Behind(v[1], n)
  BY <1>0, <1>a, <1>b
<1>2. w[1] \in Buffer /\ w[1].base = a + n /\ w[1].len = v[1].len - n
  BY <1>1 DEF Behind, Buffer
<1>3. w \in Seq(Buffer)
  BY <1>1, <1>2
<1>4. \A i : i # 1 => Place(w, i, z) = Place(v, i, z)
  BY <1>1 DEF Place
<1>5. Place(w, 1, z) = a + n
  BY <1>1, <1>2 DEF Place
<1>6. ASSUME NEW i \in DOMAIN w
      PROVE  /\ Place(w, i + 1, z) = w[i].base + w[i].len
             /\ w[i].base + w[i].len <= z
  <2>1. v[i].base + v[i].len <= z /\ Place(v, i + 1, z) = v[i].base + v[i].len
    BY <1>1 DEF Spans
  <2>2. w[i].base + w[i].len = v[i].base + v[i].len
    BY <1>1, <1>2
  <2>3. i + 1 # 1
    BY <1>1
  <2>4. Place(w, i + 1, z) = Place(v, i + 1, z)
    BY <2>3, <1>4
  <2> QED BY <2>1, <2>2, <2>4
<1> QED BY <1>3, <1>5, <1>6 DEF Spans

(* No buffer begins behind the end. *)
LEMMA PlaceBounded ==
  ASSUME NEW v, NEW a \in Nat, NEW z \in Nat, Spans(v, a, z), NEW i
  PROVE  Place(v, i, z) \in Nat /\ Place(v, i, z) <= z
<1>1. CASE i \in DOMAIN v
  <2>1. v[i] \in Buffer
    BY <1>1 DEF Spans
  <2>2. v[i].base \in Nat /\ v[i].len \in Nat /\ v[i].base + v[i].len <= z
    BY <1>1, <2>1 DEF Spans, Buffer
  <2> QED BY <2>2, <1>1 DEF Place
<1>2. CASE i \notin DOMAIN v
  BY <1>2 DEF Place
<1> QED BY <1>1, <1>2

(* The chain, and where it has been gathered to. *)
LEMMA ChainSpans ==
  ASSUME chain \in Chains
  PROVE  /\ chain \in Seq(Buffer) /\ Len(chain) \in Nat /\ DOMAIN chain = 1..Len(chain)
         /\ Spans(chain, 0, Total(chain)) /\ Total(chain) \in Nat
         /\ Gathered \in Nat /\ Gathered <= Total(chain)
         /\ bptr \in Nat /\ bptr > Len(chain) => Gathered = Total(chain)
<1>1. Spans(chain, 0, Total(chain))
  BY ChainsAssumption
<1>2. chain \in Seq(Buffer) /\ Len(chain) \in Nat /\ DOMAIN chain = 1..Len(chain)
  BY <1>1 DEF Spans
<1>3. Total(chain) \in Nat
  <2>1. CASE chain = <<>>
    BY <2>1 DEF Total
  <2>2. CASE chain # <<>>
    <3>1. Len(chain) \in 1..Len(chain)
      BY <2>2, <1>2
    <3>2. chain[Len(chain)].base \in Nat /\ chain[Len(chain)].len \in Nat
      BY <3>1, <1>2, BufferAt
    <3> QED BY <3>2, <2>2 DEF Total
  <2> QED BY <2>1, <2>2
<1>4. Gathered \in Nat /\ Gathered <= Total(chain)
  BY <1>1, <1>3, PlaceBounded DEF Gathered
<1>5. bptr \in Nat /\ bptr > Len(chain) => Gathered = Total(chain)
  BY <1>2 DEF Gathered, Place
<1> QED BY <1>1, <1>2, <1>3, <1>4, <1>5

(* The next buffer of the chain begins where the gathered ones end.        *)
LEMMA NextBuffer ==
  ASSUME chain \in Chains, bptr \in 1..Len(chain)
  PROVE  /\ chain[bptr] \in Buffer /\ chain[bptr].base = Gathered
         /\ Place(chain, bptr + 1, Total(chain)) = Gathered + chain[bptr].len
<1>1. chain \in Seq(Buffer) /\ bptr \in DOMAIN chain /\ Spans(chain, 0, Total(chain))
  BY ChainSpans
<1> QED BY <1>1 DEF Spans, Gathered, Place

-----------------------------------------------------------------------------
(* The invariant, step by step. *)

LEMMA InitWInv == Init => WInv
<1> SUFFICES ASSUME Init PROVE WInv
  OBVIOUS
<1>1. chain \in Chains /\ mode \in {"stream", "at"}
  BY ModesAssumption DEF Init
<1>2. chain \in Seq(Buffer) /\ Len(chain) \in Nat /\ Spans(chain, 0, Total(chain))
  BY <1>1, ChainSpans
<1>3. Gathered = 0
  BY <1>2 DEF Init, Gathered, Spans
<1>4. Spans(iov, at, Gathered)
  BY <1>3, SpansEmpty DEF Init
<1>5. Known
  BY <1>1, <1>2, <1>3 DEF Init, Known
<1>6. Gathering /\ Writing /\ Draining
  BY <1>3, <1>4 DEF Init, Gathering, Writing, Draining
<1>7. file = [p \in 1..0 |-> p]
  BY DEF Init
<1> QED BY <1>5, <1>6, <1>7 DEF WInv, Filled, Init

LEMMA GatherStep == WInv /\ Gather => WInv'
<1> SUFFICES ASSUME WInv, Gather PROVE WInv'
  OBVIOUS
<1> DEFINE b == chain[bptr]
<1>1. /\ Known /\ pc = "gather" /\ bptr \in 1..Len(chain) /\ chain \in Chains
      /\ Spans(iov, at, Gathered) /\ bytes = Gathered - at
      /\ wrote = 0 /\ taken = 0 /\ (mode = "at" => offset = at) /\ Filled(at)
  <2>1. chain \in Chains /\ bptr \in 1..(Len(chain) + 1) /\ bptr <= Len(chain)
    BY DEF WInv, Known, Gather
  <2>2. Len(chain) \in Nat
    BY <2>1, ChainSpans
  <2> QED BY <2>1, <2>2 DEF WInv, Known, Gathering, Gather
<1>2. /\ chain' = chain /\ mode' = mode /\ batch' = batch /\ offset' = offset /\ at' = at
      /\ taken' = taken /\ wrote' = wrote /\ ret' = ret /\ file' = file
      /\ bptr' = bptr + 1 /\ bytes' = bytes + b.len
  BY DEF Gather, given, kernel
<1>3. b \in Buffer /\ b.base = Gathered /\ Gathered' = Gathered + b.len
  BY <1>1, <1>2, NextBuffer DEF Gathered
<1>4. b.len \in Nat /\ Gathered \in Nat /\ Len(chain) \in Nat /\ bptr \in Nat
      /\ at \in Nat /\ at <= Gathered /\ bytes \in Nat
  BY <1>1, <1>3, ChainSpans DEF Known, Buffer
<1>5. Spans(iov', at, Gathered + b.len)
  <2>1. CASE iov' = iov /\ b.len = 0
    BY <2>1, <1>1, <1>4
  <2>2. CASE iov' = Append(iov, b)
    BY <2>2, <1>1, <1>3, <1>4, SpansAppend
  <2> QED BY <2>1, <2>2 DEF Gather
<1>6. iov' \in Seq(Buffer)
  BY <1>5 DEF Spans
<1>7. pc' \in {"gather", "call"} /\ (pc' = "gather" => ~(bptr' > Len(chain)))
  BY DEF Gather
<1>8. Known'
  <2>1. bptr' \in 1..(Len(chain') + 1) /\ at' <= Gathered'
    BY <1>1, <1>2, <1>3, <1>4
  <2> QED
    BY <1>1, <1>2, <1>4, <1>6, <1>7, <2>1 DEF Known
<1>9. Gathering' /\ Writing' /\ Draining'
  <2>1. Spans(iov', at', Gathered') /\ bytes' = Gathered' - at'
    BY <1>1, <1>2, <1>3, <1>4, <1>5
  <2>2. wrote' = 0 /\ taken' = 0 /\ (mode' = "at" => offset' = at')
    BY <1>1, <1>2
  <2>3. Gathering'
    <3>1. ~(pc' = "gather" /\ bptr' > Len(chain'))
      BY <1>2, <1>7
    <3> QED
      BY <2>1, <2>2, <3>1 DEF Gathering
  <2>4. Writing' /\ Draining'
    BY <1>7 DEF Writing, Draining
  <2> QED BY <2>3, <2>4
<1> QED BY <1>8, <1>9, <1>1, <1>2, <1>7 DEF WInv, Filled

LEMMA CallStep == WInv /\ Call => WInv'
<1> SUFFICES ASSUME WInv, Call PROVE WInv'
  OBVIOUS
<1>1. /\ Known /\ pc = "call" /\ chain \in Chains
      /\ Spans(iov, at, Gathered) /\ bytes = Gathered - at
      /\ wrote = 0 /\ taken = 0 /\ (mode = "at" => offset = at) /\ Filled(at)
  BY DEF WInv, Known, Gathering, Call
<1>2. /\ chain' = chain /\ mode' = mode /\ batch' = bytes /\ offset' = offset /\ at' = at
      /\ taken' = taken /\ wrote' = wrote /\ ret' = ret /\ file' = file
      /\ bptr' = bptr /\ bytes' = bytes
  BY <1>1 DEF Call, given, kernel
<1>3. Gathered' = Gathered /\ Gathered \in Nat /\ at \in Nat /\ bytes \in Nat /\ at <= Gathered
  BY <1>1, <1>2, ChainSpans DEF Gathered, Known
<1>4. CASE mode = "at" /\ bytes = 0
  <2>1. pc' = "gather" /\ iov' = <<>> /\ at = Gathered
    BY <1>1, <1>3, <1>4 DEF Call
  <2>2. Spans(iov', at, Gathered) /\ iov' \in Seq(Buffer)
    BY <2>1, SpansEmpty DEF Spans
  <2>3. Known'
    BY <1>1, <1>2, <1>3, <2>1, <2>2 DEF Known
  <2>4. Gathering' /\ Writing' /\ Draining'
    BY <1>1, <1>2, <1>3, <2>1, <2>2 DEF Gathering, Writing, Draining
  <2> QED BY <2>3, <2>4, <1>1, <1>2, <2>1 DEF WInv, Filled
<1>5. CASE ~(mode = "at" /\ bytes = 0)
  <2>1. pc' = "write" /\ iov' = iov
    BY <1>5 DEF Call
  <2>2. iov \in Seq(Buffer) /\ Len(iov) \in Nat /\ Place(iov, 1, Gathered) = at
    BY <1>1 DEF Spans
  <2>3. Known'
    BY <1>1, <1>2, <1>3, <2>1 DEF Known
  <2>4. Gathering' /\ Writing' /\ Draining'
    BY <1>1, <1>2, <1>3, <2>1, <2>2 DEF Gathering, Writing, Draining
  <2>5. at' + wrote' = at
    BY <1>1, <1>2, <1>3
  <2> QED BY <2>3, <2>4, <2>5, <1>1, <1>2, <2>1 DEF WInv, Filled
<1> QED BY <1>4, <1>5

LEMMA FinishStep == WInv /\ Finish => WInv'
<1> SUFFICES ASSUME WInv, Finish PROVE WInv'
  OBVIOUS
<1>1. /\ Known /\ pc = "gather" /\ chain \in Chains /\ bptr > Len(chain) /\ bptr \in 1..(Len(chain) + 1)
      /\ Spans(<<>>, at, Gathered) /\ Filled(at)
  BY DEF WInv, Known, Gathering, Finish
<1>2. UNCHANGED <<chain, mode, bptr, iov, bytes, batch, offset, at, taken, wrote, ret, file>> /\ pc' = "done"
  BY DEF Finish, given, kernel
<1>3. at = Gathered
  BY <1>1 DEF Spans, Place
<1>4. Gathered = Total(chain) /\ Gathered' = Gathered
  BY <1>1, <1>2, ChainSpans DEF Gathered
<1>5. Known'
  BY <1>1, <1>2, <1>4 DEF Known
<1>6. Gathering' /\ Writing' /\ Draining'
  BY <1>2 DEF Gathering, Writing, Draining
<1> QED BY <1>5, <1>6, <1>1, <1>2, <1>3, <1>4 DEF WInv, Filled

(* The bytes the kernel writes are the ones behind those in the file.      *)
LEMMA TakeStep == ASSUME WInv, NEW m \in Nat, Take(m) PROVE WInv'
<1> DEFINE k == taken + 1
           to == at + wrote
<1>1. /\ Known /\ pc = "write" /\ chain \in Chains
      /\ Spans(iov, at, Gathered) /\ bytes = Gathered - at
      /\ (mode = "at" => offset + batch = Gathered)
      /\ taken <= Len(iov) /\ Place(iov, k, Gathered) = to /\ Filled(to)
      /\ taken < Len(iov) /\ m <= iov[k].len
  BY DEF WInv, Known, Writing, Take
<1>2. /\ chain' = chain /\ mode' = mode /\ batch' = batch /\ offset' = offset /\ at' = at
      /\ ret' = ret /\ bptr' = bptr /\ bytes' = bytes /\ iov' = iov /\ wrote' = wrote + m
  BY DEF Take, given
<1>3. Gathered' = Gathered /\ Gathered \in Nat /\ at \in Nat /\ wrote \in Nat /\ taken \in Nat
  BY <1>1, <1>2, ChainSpans DEF Gathered, Known
<1>4. iov \in Seq(Buffer) /\ Len(iov) \in Nat /\ k \in 1..Len(iov) /\ k \in DOMAIN iov
  BY <1>1, <1>3 DEF Spans
<1>5. iov[k].base \in Nat /\ iov[k].len \in Nat
  BY <1>4, BufferAt
<1>6. /\ iov[k].base = to
      /\ Place(iov, k + 1, Gathered) = to + iov[k].len /\ to + iov[k].len <= Gathered
  <2>1. iov[k].base = to
    BY <1>1, <1>4 DEF Place
  <2> QED BY <2>1, <1>1, <1>4 DEF Spans
<1>7. file' = [p \in 1..(to + m) |-> p]
  <2> DEFINE new == (to + 1)..(to + m)
  <2>1. file = [p \in 1..to |-> p] /\ to \in Nat
    BY <1>1, <1>3 DEF Filled
  <2>2. file' = [p \in DOMAIN file \cup new |-> IF p \in new THEN (iov[k].base - to) + p ELSE file[p]]
    BY DEF Take
  <2>3. DOMAIN file \cup new = 1..(to + m)
    BY <2>1
  <2>4. \A p \in 1..(to + m) : (IF p \in new THEN (iov[k].base - to) + p ELSE file[p]) = p
    BY <2>1, <1>6
  <2> HIDE DEF new
  <2> QED BY <2>2, <2>3, <2>4
<1>8. pc' \in {"write", "short"} /\ taken' \in Nat
      /\ (pc' = "write" => m = iov[k].len /\ taken' = k)
  <2>1. IF m = iov[k].len THEN taken' = k /\ pc' = pc ELSE m > 0 /\ pc' = "short" /\ taken' = taken
    BY DEF Take
  <2> QED BY <2>1, <1>1, <1>3
<1>9. to + m <= Gathered /\ at' + wrote' = to + m /\ wrote' \in Nat
  BY <1>1, <1>2, <1>3, <1>5, <1>6
<1>10. Known'
  BY <1>1, <1>2, <1>3, <1>8, <1>9 DEF Known
<1>11. Writing'
  <2>1. pc' = "write" => taken' <= Len(iov) /\ Place(iov, taken' + 1, Gathered) = to + m
    BY <1>4, <1>6, <1>8
  <2> QED BY <2>1, <1>1, <1>2, <1>3, <1>9 DEF Writing
<1>12. Gathering' /\ Draining'
  BY <1>8 DEF Gathering, Draining
<1>13. Filled(at + wrote)'
  BY <1>7, <1>9 DEF Filled
<1> QED BY <1>8, <1>10, <1>11, <1>12, <1>13 DEF WInv

LEMMA ReturnedStep == WInv /\ Returned => WInv'
<1> SUFFICES ASSUME WInv, Returned PROVE WInv'
  OBVIOUS
<1>1. /\ Known /\ pc \in {"write", "short"} /\ chain \in Chains
      /\ Spans(iov, at, Gathered) /\ bytes = Gathered - at
      /\ (mode = "at" => offset + batch = Gathered)
      /\ at + wrote <= Gathered /\ Filled(at + wrote)
  BY DEF WInv, Known, Writing, Returned
<1>2. /\ chain' = chain /\ mode' = mode /\ batch' = batch
      /\ ret' = ret /\ bptr' = bptr /\ file' = file /\ at' = at + wrote /\ taken' = 0
  BY DEF Returned, given, kernel
<1>3. Gathered' = Gathered /\ Gathered \in Nat /\ at \in Nat /\ wrote \in Nat /\ batch \in Nat
      /\ offset \in Nat /\ bytes \in Nat
  BY <1>1, <1>2, ChainSpans DEF Gathered, Known
<1>4. CASE wrote < bytes
  <2>1. /\ pc' = "drain" /\ bytes' = (IF mode = "at" THEN bytes - wrote ELSE bytes)
        /\ iov' = iov /\ offset' = offset /\ wrote' = wrote
    BY <1>4 DEF Returned
  <2>2. Known'
    BY <1>1, <1>2, <1>3, <1>4, <2>1 DEF Known
  <2>3. at' - wrote' = at /\ at' < Gathered
    BY <1>1, <1>2, <1>3, <1>4, <2>1
  <2>4. bytes' = Gathered - (IF mode = "at" THEN at' ELSE at)
    BY <1>1, <1>2, <1>3, <2>1
  <2>5. Draining'
    BY <1>1, <1>2, <1>3, <2>1, <2>3, <2>4 DEF Draining
  <2>6. Gathering' /\ Writing'
    BY <2>1 DEF Gathering, Writing
  <2> QED BY <2>2, <2>5, <2>6, <2>1, <1>1, <1>2 DEF WInv, Filled
<1>5. CASE ~(wrote < bytes)
  <2>1. /\ pc' = "gather" /\ bytes' = 0 /\ wrote' = 0 /\ iov' = <<>>
        /\ offset' = (IF mode = "at" THEN offset + batch ELSE offset)
    BY <1>5 DEF Returned
  <2>2. at' = Gathered
    BY <1>1, <1>2, <1>3, <1>5
  <2>3. Spans(iov', at', Gathered) /\ iov' \in Seq(Buffer)
    BY <2>1, <2>2, SpansEmpty
  <2>4. Known'
    BY <1>1, <1>2, <1>3, <2>1, <2>2, <2>3 DEF Known
  <2>5. Gathering' /\ Writing' /\ Draining'
    BY <1>1, <1>2, <1>3, <2>1, <2>2, <2>3 DEF Gathering, Writing, Draining
  <2> QED BY <2>4, <2>5, <2>1, <1>1, <1>2 DEF WInv, Filled
<1> QED BY <1>4, <1>5

LEMMA DrainStep == WInv /\ Drain => WInv'
<1> SUFFICES ASSUME WInv, Drain PROVE WInv'
  OBVIOUS
<1> DEFINE a == at - wrote
<1>1. /\ Known /\ pc = "drain" /\ chain \in Chains
      /\ wrote <= at /\ at < Gathered /\ taken = 0
      /\ Spans(iov, a, Gathered)
      /\ bytes = Gathered - (IF mode = "at" THEN at ELSE a)
      /\ (mode = "at" => offset + batch = Gathered) /\ Filled(at)
  BY DEF WInv, Known, Draining, Drain
<1>2. /\ chain' = chain /\ mode' = mode /\ batch' = batch /\ offset' = offset
      /\ ret' = ret /\ bptr' = bptr /\ file' = file /\ at' = at /\ taken' = 0
  BY <1>1 DEF Drain, given, kernel
<1>3. Gathered' = Gathered /\ Gathered \in Nat /\ at \in Nat /\ wrote \in Nat /\ batch \in Nat
      /\ offset \in Nat /\ bytes \in Nat /\ a \in Nat
  BY <1>1, <1>2, ChainSpans DEF Gathered, Known
<1>4. iov # <<>>
  BY <1>1, <1>3 DEF Spans, Place
<1>5. iov \in Seq(Buffer) /\ Len(iov) \in Nat \ {0} /\ 1 \in DOMAIN iov
  BY <1>1, <1>4 DEF Spans
<1>6. iov[1] \in Buffer /\ iov[1].base \in Nat /\ iov[1].len \in Nat
  BY <1>5, BufferAt
<1>7. a + iov[1].len <= Gathered
  BY <1>1, <1>5 DEF Spans, Place
<1> HIDE DEF a
<1>8. CASE /\ iov[1].len <= wrote /\ iov' = Tail(iov) /\ wrote' = wrote - iov[1].len
           /\ bytes' = (IF mode = "at" THEN bytes ELSE bytes - iov[1].len) /\ pc' = pc
  <2>1. Spans(iov', a + iov[1].len, Gathered)
    BY <1>8, <1>1, <1>3, <1>4, SpansTail
  <2>2. at' - wrote' = a + iov[1].len /\ wrote' \in Nat /\ wrote' <= at
    BY <1>8, <1>2, <1>3, <1>6 DEF a
  <2>3. bytes' = Gathered - (IF mode = "at" THEN at' ELSE at' - wrote') /\ bytes' \in Nat
    <3>1. CASE mode = "at"
      BY <3>1, <1>8, <1>1, <1>2, <1>3
    <3>2. CASE mode # "at"
      <4>1. bytes = Gathered - a /\ bytes' = bytes - iov[1].len
        BY <3>2, <1>8, <1>1
      <4>2. bytes' = Gathered - (a + iov[1].len) /\ bytes' \in Nat
        BY <4>1, <1>3, <1>6, <1>7
      <4> QED BY <4>2, <3>2, <2>2
    <3> QED BY <3>1, <3>2
  <2>4. iov' \in Seq(Buffer)
    BY <2>1 DEF Spans
  <2>5. Known'
    BY <1>1, <1>2, <1>3, <1>8, <2>2, <2>3, <2>4 DEF Known
  <2>6. Draining'
    BY <1>1, <1>2, <1>3, <1>8, <2>1, <2>2, <2>3 DEF Draining
  <2>7. Gathering' /\ Writing'
    BY <1>8, <1>1 DEF Gathering, Writing
  <2> QED BY <2>5, <2>6, <2>7, <1>8, <1>1, <1>2 DEF WInv, Filled
<1>9. CASE /\ iov[1].len > wrote \/ (mode = "at" /\ wrote = 0)
           /\ iov' = (IF wrote > 0 THEN [iov EXCEPT ![1] = Behind(@, wrote)] ELSE iov)
           /\ wrote' = 0 /\ bytes' = (IF mode = "at" THEN bytes ELSE bytes - wrote) /\ pc' = "write"
  <2>1. wrote <= iov[1].len
    BY <1>9, <1>3, <1>6
  <2>2. at = a + wrote
    BY <1>3 DEF a
  <2>3. Spans(iov', at, Gathered)
    <3>1. CASE wrote > 0
      BY <3>1, <1>9, <2>1, <2>2, <1>1, <1>3, <1>4, SpansBehind
    <3>2. CASE wrote = 0
      BY <3>2, <1>9, <2>2, <1>1, <1>3
    <3> QED BY <3>1, <3>2, <1>3
  <2>4. bytes' = Gathered - at /\ bytes' \in Nat
    BY <1>9, <1>1, <1>3, <2>2
  <2>5. iov' \in Seq(Buffer) /\ Len(iov') \in Nat /\ Place(iov', 1, Gathered) = at
    BY <2>3 DEF Spans
  <2>6. Known'
    BY <1>1, <1>2, <1>3, <1>9, <2>4, <2>5 DEF Known
  <2>7. at' + wrote' = at /\ at' = at /\ taken' + 1 = 1
    BY <1>9, <1>2, <1>3
  <2>8. Writing'
    BY <1>1, <1>2, <1>3, <1>9, <2>3, <2>4, <2>5, <2>7 DEF Writing
  <2>9. Gathering' /\ Draining'
    BY <1>9 DEF Gathering, Draining
  <2> QED BY <2>6, <2>7, <2>8, <2>9, <1>9, <1>1, <1>2 DEF WInv, Filled
<1> QED BY <1>8, <1>9 DEF Drain

(* A system call that wrote nothing is made again, or given up.            *)
LEMMA AgainStep == WInv /\ (Interrupted \/ Failed) => WInv'
<1> SUFFICES ASSUME WInv, Interrupted \/ Failed PROVE WInv'
  OBVIOUS
<1>1. /\ Known /\ pc = "write" /\ chain \in Chains /\ wrote = 0
      /\ Spans(iov, at, Gathered) /\ bytes = Gathered - at
      /\ (mode = "at" => offset + batch = Gathered) /\ Filled(at + wrote)
  BY DEF WInv, Known, Writing, Interrupted, Failed
<1>2. /\ chain' = chain /\ mode' = mode /\ batch' = batch /\ offset' = offset /\ wrote' = wrote
      /\ bptr' = bptr /\ file' = file /\ at' = at /\ taken' = 0 /\ iov' = iov /\ bytes' = bytes
      /\ (pc' = "write" /\ ret' = ret) \/ (pc' = "done" /\ ret' = -1)
  BY <1>1 DEF Interrupted, Failed, given, kernel
<1>3. Gathered' = Gathered /\ Gathered \in Nat /\ at \in Nat /\ at <= Gathered /\ at + wrote = at
  BY <1>1, <1>2, ChainSpans DEF Gathered, Known
<1>4. iov \in Seq(Buffer) /\ Len(iov) \in Nat /\ Place(iov, 1, Gathered) = at
  BY <1>1 DEF Spans
<1>5. Known'
  BY <1>1, <1>2, <1>3 DEF Known
<1>6. Gathering' /\ Draining'
  BY <1>2 DEF Gathering, Draining
<1>7. Writing'
  BY <1>1, <1>2, <1>3, <1>4 DEF Writing
<1> QED BY <1>1, <1>2, <1>3, <1>5, <1>6, <1>7 DEF WInv, Filled

LEMMA NextWInv == WInv /\ [Next]_vars => WInv'
<1> SUFFICES ASSUME WInv, [Next]_vars PROVE WInv'
  OBVIOUS
<1>1. ASSUME NEW i \in DOMAIN iov, NEW m \in 0..iov[i].len, i = taken + 1, Take(m) PROVE WInv'
  <2>1. iov \in Seq(Buffer)
    BY DEF WInv, Known
  <2>2. iov[i].len \in Nat
    BY <2>1, BufferAt
  <2> QED BY <1>1, <2>2, TakeStep
<1>2. CASE Break \/ UNCHANGED vars
  <2>1. UNCHANGED <<mode, chain, bptr, iov, bytes, batch, offset, at, taken, wrote, pc, ret, file>>
    BY <1>2 DEF Break, vars, given, kernel
  <2>2. Gathered' = Gathered
    BY <2>1 DEF Gathered
  <2> QED BY <2>1, <2>2 DEF WInv, Known, Gathering, Writing, Draining, Filled
<1> QED BY <1>1, <1>2, GatherStep, CallStep, FinishStep, ReturnedStep, DrainStep, AgainStep DEF Next, Run

-----------------------------------------------------------------------------
LEMMA WInvFileRight == WInv => FileRight
<1> SUFFICES ASSUME WInv PROVE FileRight
  OBVIOUS
<1> DEFINE n == IF pc \in {"write", "short"} THEN at + wrote ELSE at
<1>1. /\ Known /\ chain \in Chains /\ file = [p \in 1..n |-> p]
      /\ at \in Nat /\ wrote \in Nat /\ at <= Gathered
  BY DEF WInv, Known, Filled
<1>2. Gathered \in Nat /\ Gathered <= Total(chain) /\ Total(chain) \in Nat
  BY <1>1, ChainSpans
<1>3. n \in 0..Total(chain)
  <2>1. pc \in {"write", "short"} => at + wrote <= Gathered
    BY DEF WInv, Writing
  <2> QED BY <2>1, <1>1, <1>2
<1>4. DOMAIN file = 1..n
  BY <1>1
<1>5. InOrder
  BY <1>1, <1>3 DEF InOrder
<1>6. TypeOK
  <2>1. DOMAIN file \subseteq Nat
    BY <1>3, <1>4, <1>2
  <2> QED BY <2>1, <1>1 DEF TypeOK, Known
<1>7. BytesLeft
  <2>1. SUFFICES ASSUME pc = "write", wrote = 0
        PROVE  DOMAIN file = 1..at /\ Spans(iov, at, Gathered) /\ bytes = Gathered - at
    BY DEF BytesLeft
  <2>2. n = at
    BY <2>1, <1>1
  <2> QED BY <2>1, <2>2, <1>4 DEF WInv, Writing
<1>8. Complete
  <2>1. SUFFICES ASSUME pc = "done", ret = 0 PROVE DOMAIN file = 1..Total(chain)
    BY DEF Complete
  <2>2. n = at /\ at = Total(chain)
    BY <2>1 DEF WInv
  <2> QED BY <2>2, <1>4
<1> QED BY <1>5, <1>6, <1>7, <1>8 DEF FileRight

(* Both write_fd()s, over any chain, in batches of any size: after every   *)
(* step of the code and the kernel the file is the part of the list that   *)
(* vector and counters say, in order, and all of it on success.            *)
THEOREM FileIsTheList == Spec => []FileRight
<1>1. Init => WInv
  BY InitWInv
<1>2. WInv /\ [Next]_vars => WInv'
  BY NextWInv
<1>3. WInv => FileRight
  BY WInvFileRight
<1> QED BY <1>1, <1>2, <1>3, PTL DEF Spec

-----------------------------------------------------------------------------
(* contents_equal() *)

(* Where the loop has come to on either side. *)
Pos == Place(this.bufs, it, Len(this.text)) + off
OtherPos == OtherBuffer.base + ooff

(* While it runs: both iterators and offsets are within their chains and   *)
(* at the same place of both texts, which are the same up to there.        *)
Comparing ==
  /\ Len(this.text) = Len(other.text)
  /\ it \in 1..(Len(this.bufs) + 1) /\ oit \in Nat \ {0}
  /\ off \in Nat /\ (~Ended => off <= ThisBuffer.len) /\ (Ended => off = 0)
  /\ ooff \in Nat /\ ooff <= OtherBuffer.len
  /\ Pos = OtherPos
  /\ \A k \in 1..Pos : this.text[k] = other.text[k]

EqualInv ==
  /\ this \in These /\ other \in Those
  /\ answer = "none" => Comparing
  /\ AnswerRight

(* A buffer of a chain, and the place behind it. *)
LEMMA BufferOf ==
  ASSUME NEW c \in These \cup Those, NEW i \in 1..Len(c.bufs)
  PROVE  /\ c.bufs[i].base \in Nat /\ c.bufs[i].len \in Nat
         /\ Place(c.bufs, i, Len(c.text)) = c.bufs[i].base
         /\ Place(c.bufs, i + 1, Len(c.text)) = c.bufs[i].base + c.bufs[i].len
         /\ c.bufs[i].base + c.bufs[i].len <= Len(c.text)
<1>1. Spans(c.bufs, 0, Len(c.text)) /\ c.bufs \in Seq(Buffer)
  BY CutsAssumption DEF Spans
<1>2. DOMAIN c.bufs = 1..Len(c.bufs)
  BY <1>1
<1> QED
  BY <1>1, <1>2, BufferAt DEF Spans, Place

(* The ends of a chain. *)
LEMMA EndsOf ==
  ASSUME NEW c \in These \cup Those
  PROVE  /\ c.text \in Seq(Chars) /\ Len(c.text) \in Nat /\ Len(c.bufs) \in Nat
         /\ Place(c.bufs, 1, Len(c.text)) = 0
         /\ Place(c.bufs, Len(c.bufs) + 1, Len(c.text)) = Len(c.text)
<1>1. c.text \in Seq(Chars) /\ Spans(c.bufs, 0, Len(c.text)) /\ c.bufs \in Seq(Buffer)
  BY CutsAssumption DEF Spans
<1>2. Len(c.bufs) \in Nat /\ DOMAIN c.bufs = 1..Len(c.bufs)
  BY <1>1
<1> QED
  BY <1>1, <1>2 DEF Spans, Place

(* What the two iterators find. *)
LEMMA Found ==
  ASSUME this \in These, other \in Those, Comparing
  PROVE  /\ OtherBuffer.base \in Nat /\ OtherBuffer.len \in Nat
         /\ OtherBuffer.base + OtherBuffer.len <= Len(other.text)
         /\ ~Ended => /\ it \in 1..Len(this.bufs) /\ ThisBuffer.base \in Nat /\ ThisBuffer.len \in Nat
                      /\ Pos = ThisBuffer.base + off
                      /\ Place(this.bufs, it + 1, Len(this.text)) = ThisBuffer.base + ThisBuffer.len
                      /\ ThisBuffer.base + ThisBuffer.len <= Len(this.text)
<1>1. Len(this.bufs) \in Nat /\ Len(other.bufs) \in Nat /\ Len(other.text) \in Nat
  BY EndsOf
<1>2. /\ OtherBuffer.base \in Nat /\ OtherBuffer.len \in Nat
      /\ OtherBuffer.base + OtherBuffer.len <= Len(other.text)
  <2>1. CASE oit <= Len(other.bufs)
    <3>1. oit \in 1..Len(other.bufs)
      BY <2>1, <1>1 DEF Comparing
    <3> QED
      BY <2>1, <3>1, BufferOf DEF OtherBuffer
  <2>2. CASE ~(oit <= Len(other.bufs))
    BY <2>2, <1>1 DEF OtherBuffer
  <2> QED
    BY <2>1, <2>2
<1>3. ASSUME ~Ended PROVE it \in 1..Len(this.bufs)
  BY <1>1, <1>3 DEF Ended, Comparing
<1> QED
  BY <1>2, <1>3, BufferOf DEF ThisBuffer, Pos

LEMMA InitEqualInv == EqualInit => EqualInv
<1> SUFFICES ASSUME EqualInit PROVE EqualInv
  OBVIOUS
<1>1. this \in These /\ other \in Those /\ it = 1 /\ oit = 1 /\ off = 0 /\ ooff = 0
      /\ answer = IF Len(this.text) = Len(other.text) THEN "none" ELSE "differ"
  BY DEF EqualInit
<1>2. /\ Len(this.bufs) \in Nat /\ Len(other.bufs) \in Nat /\ Len(this.text) \in Nat /\ Len(other.text) \in Nat
      /\ Place(this.bufs, 1, Len(this.text)) = 0 /\ Place(other.bufs, 1, Len(other.text)) = 0
      /\ Place(other.bufs, Len(other.bufs) + 1, Len(other.text)) = Len(other.text)
  BY <1>1, EndsOf
<1>3. OtherBuffer.base = 0 /\ OtherBuffer.len \in Nat
  <2>1. CASE 1 <= Len(other.bufs)
    <3>1. 1 \in 1..Len(other.bufs)
      BY <2>1, <1>2
    <3> QED
      BY <2>1, <3>1, <1>1, <1>2, BufferOf DEF OtherBuffer
  <2>2. CASE ~(1 <= Len(other.bufs))
    <3>1. Len(other.bufs) + 1 = 1
      BY <2>2, <1>2
    <3> QED
      BY <2>2, <3>1, <1>1, <1>2 DEF OtherBuffer
  <2> QED
    BY <2>1, <2>2
<1>4. ~Ended => ThisBuffer.len \in Nat
  <2> SUFFICES ASSUME ~Ended PROVE ThisBuffer.len \in Nat
    OBVIOUS
  <2>1. it \in 1..Len(this.bufs)
    BY <1>1, <1>2 DEF Ended
  <2> QED
    BY <2>1, <1>1, BufferOf DEF ThisBuffer
<1>5. Pos = 0 /\ OtherPos = 0
  BY <1>1, <1>2, <1>3 DEF Pos, OtherPos
<1>6. answer = "none" => Comparing
  BY <1>1, <1>2, <1>3, <1>4, <1>5 DEF Comparing
<1>7. AnswerRight
  BY <1>1 DEF AnswerRight
<1> QED
  BY <1>1, <1>6, <1>7 DEF EqualInv

(* A turn that finds a difference: the texts differ there.                 *)
LEMMA DifferStep == EqualInv /\ Differ => EqualInv'
<1> SUFFICES ASSUME EqualInv, Differ PROVE EqualInv'
  OBVIOUS
<1>1. /\ this \in These /\ other \in Those /\ Comparing /\ ~Ended
      /\ answer' = "differ" /\ this' = this /\ other' = other
  BY DEF EqualInv, Differ
<1>2. PICK k \in 1..Chunk : this.text[ThisBuffer.base + off + k] # other.text[OtherBuffer.base + ooff + k]
  BY DEF Differ, Same
<1>3. ThisBuffer.base + off + k = OtherBuffer.base + ooff + k
  BY <1>1, Found DEF Comparing, OtherPos
<1>4. this.text # other.text
  BY <1>2, <1>3
<1> QED
  BY <1>1, <1>4 DEF EqualInv, AnswerRight

(* A turn that finds none moves both sides by as much; the offset of the   *)
(* argument never passes the end of its buffer.                            *)
LEMMA AdvanceStep == EqualInv /\ Advance => EqualInv'
<1> SUFFICES ASSUME EqualInv, Advance PROVE EqualInv'
  OBVIOUS
<1>1. /\ this \in These /\ other \in Those /\ Comparing /\ ~Ended /\ answer = "none" /\ Same
      /\ answer' = answer /\ this' = this /\ other' = other
  BY DEF EqualInv, Advance
<1>2. /\ OtherBuffer.base \in Nat /\ OtherBuffer.len \in Nat
      /\ it \in 1..Len(this.bufs) /\ ThisBuffer.base \in Nat /\ ThisBuffer.len \in Nat
      /\ Pos = ThisBuffer.base + off
      /\ Place(this.bufs, it + 1, Len(this.text)) = ThisBuffer.base + ThisBuffer.len
      /\ Len(this.bufs) \in Nat
  BY <1>1, Found, EndsOf
<1>3. off \in Nat /\ off <= ThisBuffer.len /\ ooff \in Nat /\ ooff <= OtherBuffer.len /\ Pos = OtherPos
  BY <1>1 DEF Comparing
<1>4. Chunk \in Nat /\ off + Chunk <= ThisBuffer.len /\ ooff + Chunk <= OtherBuffer.len
  <2>1. PICK len, olen : len = ThisBuffer.len - off /\ olen = OtherBuffer.len - ooff
    OBVIOUS
  <2>2. len \in Nat /\ olen \in Nat
    <3>1. ThisBuffer.len \in Nat /\ OtherBuffer.len \in Nat
      BY <1>2
    <3> QED
      BY ONLY <2>1, <3>1, <1>3
  <2>3. Chunk = IF len > olen THEN olen ELSE len
    BY <2>1 DEF Chunk
  <2>4. Chunk \in Nat /\ Chunk <= len /\ Chunk <= olen
    BY ONLY <2>2, <2>3
  <2> QED
    <3>1. ThisBuffer.len \in Nat /\ OtherBuffer.len \in Nat
      BY <1>2
    <3> QED
      BY ONLY <2>1, <2>4, <3>1, <1>3
<1>5. oit' = oit /\ ooff' = ooff + Chunk
  BY <1>2, <1>3, <1>4 DEF Advance
<1>6. OtherBuffer' = OtherBuffer
  BY <1>1, <1>5 DEF OtherBuffer
<1>7. OtherPos' = OtherPos + Chunk
  BY <1>2, <1>3, <1>4, <1>5, <1>6 DEF OtherPos
<1>8. /\ it' \in 1..(Len(this.bufs) + 1) /\ off' \in Nat /\ Pos' = Pos + Chunk
      /\ ~Ended' => off' <= ThisBuffer'.len
      /\ Ended' => off' = 0
  <2>1. CASE off + Chunk = ThisBuffer.len
    <3>1. it' = it + 1 /\ off' = 0
      BY <2>1 DEF Advance
    <3>2. ~Ended' => ThisBuffer'.len \in Nat
      <4> SUFFICES ASSUME ~Ended' PROVE ThisBuffer'.len \in Nat
        OBVIOUS
      <4>1. it' \in 1..Len(this.bufs)
        BY <1>1, <1>2, <3>1 DEF Ended
      <4>2. this.bufs[it'].len \in Nat
        BY <4>1, <1>1, BufferOf
      <4> QED
        BY <4>2, <1>1 DEF ThisBuffer
    <3>3. Pos' = ThisBuffer.base + ThisBuffer.len
      BY <1>1, <1>2, <3>1 DEF Pos
    <3>4. it' \in 1..(Len(this.bufs) + 1)
      BY <3>1, <1>2
    <3>5. Pos' = Pos + Chunk
      BY <2>1, <3>3, <1>2, <1>3, <1>4
    <3> QED
      BY <3>1, <3>2, <3>4, <3>5
  <2>2. CASE off + Chunk # ThisBuffer.len
    <3>1. it' = it /\ off' = off + Chunk
      BY <2>2 DEF Advance
    <3>2. ThisBuffer' = ThisBuffer /\ ~Ended'
      BY <3>1, <1>1 DEF ThisBuffer, Ended
    <3>3. Pos' = Pos + Chunk
      <4>1. Place(this.bufs, it, Len(this.text)) = ThisBuffer.base
        BY <1>1, <1>2, BufferOf DEF ThisBuffer
      <4> QED
        BY <4>1, <3>1, <1>1, <1>2, <1>3, <1>4 DEF Pos
    <3> QED
      BY <3>1, <3>2, <3>3, <1>2, <1>3, <1>4
  <2> QED
    BY <2>1, <2>2
<1>p. Pos \in Nat
  BY <1>2, <1>3
<1>9. \A k \in 1..(Pos + Chunk) : this.text[k] = other.text[k]
  <2> SUFFICES ASSUME NEW k \in 1..(Pos + Chunk) PROVE this.text[k] = other.text[k]
    OBVIOUS
  <2>1. CASE k <= Pos
    <3>1. k \in 1..Pos
      BY <2>1, <1>4, <1>p
    <3> QED
      BY <3>1, <1>1 DEF Comparing
  <2>2. CASE k > Pos
    <3> DEFINE j == k - Pos
    <3>1. j \in 1..Chunk /\ Pos + j = k
      BY <2>2, <1>4, <1>p
    <3>2. Pos = ThisBuffer.base + off /\ Pos = OtherBuffer.base + ooff
      BY <1>2, <1>3 DEF OtherPos
    <3> HIDE DEF j
    <3>3. this.text[ThisBuffer.base + off + j] = other.text[OtherBuffer.base + ooff + j]
      BY <3>1, <1>1 DEF Same
    <3> QED
      BY <3>1, <3>2, <3>3
  <2> QED
    BY <2>1, <2>2, <1>2, <1>3, <1>4
<1>10. Comparing'
  <2>1. Len(this'.text) = Len(other'.text) /\ oit' \in Nat \ {0}
    BY <1>1, <1>5 DEF Comparing
  <2>2. ooff' \in Nat /\ ooff' <= OtherBuffer'.len
    BY <1>3, <1>4, <1>5, <1>6
  <2>3. Pos' = OtherPos' /\ \A k \in 1..Pos' : this'.text[k] = other'.text[k]
    BY <1>1, <1>3, <1>7, <1>8, <1>9
  <2>4. it' \in 1..(Len(this'.bufs) + 1)
    BY <1>1, <1>8
  <2> QED
    BY <1>8, <2>1, <2>2, <2>3, <2>4 DEF Comparing
<1> QED
  BY <1>1, <1>10 DEF EqualInv, AnswerRight

(* At the end of this chain all of both texts has been compared.           *)
LEMMA EqualStep == EqualInv /\ Equal => EqualInv'
<1> SUFFICES ASSUME EqualInv, Equal PROVE EqualInv'
  OBVIOUS
<1>1. /\ this \in These /\ other \in Those /\ Comparing /\ Ended
      /\ answer' = "equal" /\ this' = this /\ other' = other
  BY DEF EqualInv, Equal
<1>2. this.text \in Seq(Chars) /\ other.text \in Seq(Chars) /\ Len(this.text) \in Nat /\ Len(this.bufs) \in Nat
      /\ Place(this.bufs, Len(this.bufs) + 1, Len(this.text)) = Len(this.text)
  BY <1>1, EndsOf
<1>3. it = Len(this.bufs) + 1 /\ off = 0 /\ Len(other.text) = Len(this.text)
  BY <1>1, <1>2 DEF Comparing, Ended
<1>4. Pos = Len(this.text)
  BY <1>2, <1>3 DEF Pos
<1>5. \A k \in 1..Len(this.text) : this.text[k] = other.text[k]
  BY <1>1, <1>4 DEF Comparing
<1>6. this.text = other.text
  BY <1>2, <1>3, <1>5
<1> QED
  BY <1>1, <1>6 DEF EqualInv, AnswerRight

(* Whatever chains the two texts are cut into, contents_equal() says       *)
(* "equal" only of equal texts and "differ" only of different ones, though *)
(* its iterators do not pass the buffers of both sides alike.              *)
THEOREM AnswersAreRight == EqualSpec => []AnswerRight
<1>1. EqualInit => EqualInv
  BY InitEqualInv
<1>2. EqualInv /\ [EqualNext]_equalVars => EqualInv'
  <2> SUFFICES ASSUME EqualInv, UNCHANGED equalVars PROVE EqualInv'
    BY DifferStep, AdvanceStep, EqualStep DEF EqualNext
  <2> QED
    BY DEF equalVars, EqualInv, Comparing, AnswerRight, Pos, OtherPos, OtherBuffer, ThisBuffer, Ended
<1>3. EqualInv => AnswerRight
  BY DEF EqualInv
<1> QED
  BY <1>1, <1>2, <1>3, PTL DEF EqualSpec

=============================================================================
