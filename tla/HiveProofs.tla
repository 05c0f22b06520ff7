----------------------------- MODULE HiveProofs -----------------------------
(***************************************************************************)
(* Theorems about Hive: where the cells of a hive lie, for every tree of   *)
(* keys and values and every size of bin, and that what is written is what *)
(* was claimed.                                                            *)
(***************************************************************************)
EXTENDS Hive, Remainders, SequenceTheorems

(* ---- the inductive invariant ---- *)

\* The first byte that no cell has taken.
Frontier == Handle(Len(bins) - 1, Used)

\* Every claim lies on the grain, behind the header of the first bin and below
\* what is claimed next.
Placing ==
  /\ Used % Gran = 0
  /\ \A k \in 1..Len(claims) :
       /\ claims[k].cell % Gran = 0
       /\ BinHeader <= claims[k].cell
       /\ claims[k].cell + 4 + claims[k].len <= Frontier

\* s is a sequence, whatever its elements are.
IsSequence(s) == s \in Seq({s[k] : k \in 1..Len(s)})

\* The cells claimed and not yet written are those of the keys on the stack.
Pending ==
  /\ Len(claims) = Len(writes) + Len(stack)
  /\ \A k \in 1..Len(stack) :
       /\ \E c \in 1..Len(claims) : /\ claims[c].cell = stack[k].cell
                                    /\ claims[c].len = HeaderLen(stack[k].key)
       /\ \A w \in 1..Len(writes) : writes[w].cell # stack[k].cell
  /\ \A k, l \in 1..Len(stack) : k < l => stack[k].cell # stack[l].cell
  /\ pc = "done" => stack = <<>>

IInv == TypeOK /\ tree \in Trees /\ IsSequence(writes) /\ Placing /\ CellsKept

WInv == IInv /\ Pending /\ WritesAsClaimed

(* ---- sizes and handles ---- *)

LEMMA Sizes ==
  /\ BinSize \in Nat \ {0} /\ Gran \in Nat \ {0}
  /\ BinHeader \in Nat /\ Usable \in Nat /\ KeyLen \in Nat /\ ValueLen \in Nat
  /\ BinHeader <= Usable /\ Usable + 4 <= BinSize
  /\ BinHeader % Gran = 0 /\ BinSize % Gran = 0
  BY BinAssumption

\* roundup does not lose a byte and lands on the grain.
LEMMA RoundupUp ==
  ASSUME NEW n \in Nat, NEW gran \in Nat \ {0}
  PROVE  /\ roundup(n, gran) \in Nat
         /\ n <= roundup(n, gran)
         /\ roundup(n, gran) % gran = 0
<1> DEFINE top == n + gran - 1
<1>1. top \in Nat
  OBVIOUS
<1>2. top % gran \in Nat /\ top % gran < gran /\ top % gran <= top
  BY <1>1, ModBounds
<1>3. (top - (top % gran)) % gran = 0
  BY <1>1, ClearedMod
<1>4. roundup(n, gran) = top - (top % gran)
  BY DEF roundup
<1>5. top - (top % gran) \in Nat /\ n <= top - (top % gran)
  BY <1>2
<1> QED
  BY <1>3, <1>4, <1>5

\* What a claim adds to a bin.
LEMMA UsedGrows ==
  ASSUME NEW used \in Nat, NEW bytes \in Nat
  PROVE  /\ UsedAfter(used, bytes) \in Nat
         /\ used + 4 + bytes <= UsedAfter(used, bytes)
         /\ UsedAfter(used, bytes) % Gran = 0
  BY Sizes, RoundupUp DEF UsedAfter

\* A handle splits into the index and the offset it was made of.
LEMMA HandleParts ==
  ASSUME NEW index \in Nat, NEW offset \in BinHeader..Usable
  PROVE  /\ Handle(index, offset) \in Nat
         /\ Handle(index, offset) \div BinSize = index
         /\ Handle(index, offset) % BinSize = offset
         /\ BinHeader <= Handle(index, offset)
         /\ Handle(index + 1, BinHeader) = Handle(index, BinHeader) + BinSize
<1>1. offset \in 0..(BinSize - 1)
  BY Sizes
<1>2. /\ (index * BinSize + offset) \div BinSize = index
      /\ (index * BinSize + offset) % BinSize = offset
      /\ index * BinSize + offset \in Nat
  BY <1>1, Sizes, DivModUnique
<1>3. index * BinSize \in Nat /\ (index + 1) * BinSize = index * BinSize + BinSize
  BY Sizes
<1>4. BinHeader <= index * BinSize + offset
  BY <1>3, Sizes
<1>5. (index + 1) * BinSize + BinHeader = (index * BinSize + BinHeader) + BinSize
  BY <1>3, Sizes
<1> QED
  BY <1>2, <1>4, <1>5 DEF Handle

\* A handle is on the grain when its offset is.
LEMMA HandleOnGrain ==
  ASSUME NEW index \in Nat, NEW offset \in BinHeader..Usable, offset % Gran = 0
  PROVE  Handle(index, offset) % Gran = 0
<1>1. (BinSize * index) % BinSize = 0 /\ BinSize * index \in Int
  BY Sizes, MultipleMod
<1>2. (BinSize * index) % Gran = 0
  BY <1>1, Sizes, MultipleOfMultiple
<1>3. (BinSize * index + offset) % Gran = 0
  <2>1. offset \in Int
    BY Sizes
  <2> QED
    BY <1>1, <1>2, <2>1, Sizes, SumOfMultiples
<1>4. BinSize * index = index * BinSize
  BY Sizes
<1> QED
  BY <1>3, <1>4 DEF Handle

LEMMA ElementOf ==
  ASSUME NEW S, NEW s \in Seq(S)
  PROVE  \A k \in 1..Len(s) : s[k] \in S
  OBVIOUS

\* What is left of a sequence without its last element.
LEMMA AllButLast ==
  ASSUME NEW S, NEW s \in Seq(S), Len(s) >= 1
  PROVE  /\ SubSeq(s, 1, Len(s) - 1) \in Seq(S)
         /\ Len(SubSeq(s, 1, Len(s) - 1)) = Len(s) - 1
         /\ \A k \in 1..(Len(s) - 1) : SubSeq(s, 1, Len(s) - 1)[k] = s[k]
<1>1. Len(s) \in Nat /\ Len(s) - 1 \in Int
  OBVIOUS
<1>2. \A k \in 1..(Len(s) - 1) : s[k] \in S
  BY <1>1, ElementOf
<1> DEFINE n == Len(s) - 1
<1> HIDE DEF n
<1>3. /\ SubSeq(s, 1, n) \in Seq(S)
      /\ Len(SubSeq(s, 1, n)) = IF 1 <= n THEN (n - 1) + 1 ELSE 0
      /\ \A k \in 1..((n - 1) + 1) : SubSeq(s, 1, n)[k] = s[(1 + k) - 1]
  BY <1>1, <1>2, SubSeqProperties DEF n
<1>4. n \in Nat /\ (n - 1) + 1 = n
  BY <1>1 DEF n
<1>5. \A k \in 1..n : SubSeq(s, 1, n)[k] = s[k]
  BY <1>3, <1>4
<1>6. Len(SubSeq(s, 1, n)) = n
  BY <1>3, <1>4
<1> QED
  BY <1>3, <1>5, <1>6 DEF n

\* What Append does to the elements of a sequence.
LEMMA Appended ==
  ASSUME NEW S, NEW s \in Seq(S), NEW e \in S
  PROVE  /\ Append(s, e) \in Seq(S) /\ Append(s, e) # <<>>
         /\ Len(s) \in Nat /\ Len(Append(s, e)) = Len(s) + 1
         /\ \A k \in 1..Len(s) : Append(s, e)[k] = s[k]
         /\ Append(s, e)[Len(s) + 1] = e
  OBVIOUS

(* ---- claiming a cell ---- *)

\* The current bin and what is in use of it.
LEMMA CurrentBin ==
  ASSUME bins \in Seq(BinHeader..Usable), bins # <<>>
  PROVE  /\ Len(bins) \in Nat /\ Len(bins) >= 1 /\ Len(bins) - 1 \in Nat
         /\ Used \in BinHeader..Usable /\ Used \in Nat /\ BinHeader <= Used /\ Used <= Usable
         /\ \A k \in 1..Len(bins) : bins[k] \in Nat /\ BinHeader <= bins[k] /\ bins[k] <= Usable
<1>1. Len(bins) \in Nat /\ Len(bins) # 0
  OBVIOUS
<1>2. \A k \in 1..Len(bins) : bins[k] \in BinHeader..Usable
  BY ElementOf
<1>3. Len(bins) \in 1..Len(bins)
  BY <1>1
<1>4. \A n \in BinHeader..Usable : n \in Nat /\ BinHeader <= n /\ n <= Usable
  BY Sizes
<1>5. Used \in BinHeader..Usable
  BY <1>2, <1>3 DEF Used
<1> QED
  BY <1>1, <1>2, <1>4, <1>5

\* What claim does to the bins, if the current bin has room.
LEMMA ClaimInBin ==
  ASSUME TypeOK, NEW bytes \in Nat, Fits(Used, bytes)
  PROVE  /\ BinsAfter(bytes) \in Seq(BinHeader..Usable)
         /\ Len(BinsAfter(bytes)) = Len(bins)
         /\ \A k \in 1..(Len(bins) - 1) : BinsAfter(bytes)[k] = bins[k]
         /\ BinsAfter(bytes)[Len(bins)] = UsedAfter(Used, bytes)
         /\ ClaimedCell(bytes) = Handle(Len(bins) - 1, Used)
<1>1. Used \in Nat /\ BinHeader <= Used /\ Len(bins) \in Nat /\ Len(bins) >= 1
  BY CurrentBin DEF TypeOK
<1>2. UsedAfter(Used, bytes) \in BinHeader..Usable
  <2>1. UsedAfter(Used, bytes) \in Nat /\ Used + 4 + bytes <= UsedAfter(Used, bytes)
    BY <1>1, UsedGrows
  <2> QED
    BY <1>1, <2>1, Sizes DEF Fits
<1>3. BinsAfter(bytes) = [bins EXCEPT ![Len(bins)] = UsedAfter(Used, bytes)]
  BY DEF BinsAfter
<1> QED
  BY <1>1, <1>2, <1>3 DEF TypeOK, ClaimedCell

\* Whatever is in use of the current bin, a new bin begins above it.
LEMMA FrontierOfNewBin ==
  ASSUME bins \in Seq(BinHeader..Usable), bins # <<>>
  PROVE  /\ Frontier \in Nat
         /\ Frontier <= Handle(Len(bins), BinHeader)
<1>1. /\ Used \in BinHeader..Usable /\ Used \in Nat /\ Used <= Usable
      /\ Len(bins) \in Nat /\ Len(bins) - 1 \in Nat
  BY CurrentBin
<1>2. Frontier \in Nat
  BY <1>1, HandleParts DEF Frontier
<1>3. Handle(Len(bins), BinHeader) = Handle(Len(bins) - 1, BinHeader) + BinSize
  <2>1. Len(bins) = (Len(bins) - 1) + 1 /\ BinHeader \in BinHeader..Usable
    BY <1>1, Sizes
  <2> QED
    BY <1>1, <2>1, HandleParts
<1>4. (Len(bins) - 1) * BinSize \in Nat
  BY <1>1, Sizes
<1> QED
  BY <1>1, <1>2, <1>3, <1>4, Sizes DEF Frontier, Handle

\* What it does if a new bin is needed.
LEMMA ClaimInNewBin ==
  ASSUME TypeOK, NEW bytes \in Nat, ~Fits(Used, bytes), Fits(BinHeader, bytes)
  PROVE  /\ BinsAfter(bytes) \in Seq(BinHeader..Usable)
         /\ Len(BinsAfter(bytes)) = Len(bins) + 1
         /\ \A k \in 1..Len(bins) : BinsAfter(bytes)[k] = bins[k]
         /\ BinsAfter(bytes)[Len(bins) + 1] = UsedAfter(BinHeader, bytes)
         /\ ClaimedCell(bytes) = Handle(Len(bins), BinHeader)
<1>1. UsedAfter(BinHeader, bytes) \in BinHeader..Usable
  BY Sizes, UsedGrows DEF Fits
<1>2. BinsAfter(bytes) = Append(bins, UsedAfter(BinHeader, bytes))
  BY DEF BinsAfter
<1> QED
  BY <1>1, <1>2, Appended DEF TypeOK, ClaimedCell

\* The bin and the offset of the cell that a claim takes, in either case.
LEMMA ClaimPlace ==
  ASSUME TypeOK, Placing, NEW bytes \in Nat, Claim(bytes)
  PROVE  \E used \in BinHeader..Usable :
           /\ used % Gran = 0
           /\ bins' \in Seq(BinHeader..Usable) /\ bins' # <<>>
           /\ Len(bins) <= Len(bins')
           /\ \A k \in 1..Len(bins) : bins[k] <= bins'[k]
           /\ ClaimedCell(bytes) = Handle(Len(bins') - 1, used)
           /\ Used' = UsedAfter(used, bytes)
           /\ Frontier <= ClaimedCell(bytes)
<1>1. /\ Used \in BinHeader..Usable /\ Used \in Nat
      /\ Len(bins) \in Nat /\ Len(bins) >= 1 /\ Len(bins) - 1 \in Nat
      /\ \A k \in 1..Len(bins) : bins[k] \in Nat
      /\ Used % Gran = 0
  BY CurrentBin DEF TypeOK, Placing
<1>2. bins' = BinsAfter(bytes) /\ (Fits(Used, bytes) \/ Fits(BinHeader, bytes))
  BY DEF Claim, Claimable
<1>3. CASE Fits(Used, bytes)
  <2>1. /\ bins' \in Seq(BinHeader..Usable) /\ Len(bins') = Len(bins)
        /\ \A k \in 1..(Len(bins) - 1) : bins'[k] = bins[k]
        /\ bins'[Len(bins)] = UsedAfter(Used, bytes)
        /\ ClaimedCell(bytes) = Handle(Len(bins) - 1, Used)
    BY <1>2, <1>3, ClaimInBin
  <2>2. Used' = UsedAfter(Used, bytes)
    BY <2>1 DEF Used
  <2>3. bins[Len(bins)] <= bins'[Len(bins)]
    <3>1. UsedAfter(Used, bytes) \in Nat /\ Used + 4 + bytes <= UsedAfter(Used, bytes)
      BY <1>1, UsedGrows
    <3>2. Used = bins[Len(bins)] /\ bins'[Len(bins)] = UsedAfter(Used, bytes)
      BY <2>1 DEF Used
    <3> QED
      BY <1>1, <3>1, <3>2
  <2>4. \A k \in 1..Len(bins) : bins[k] <= bins'[k]
    <3> SUFFICES ASSUME NEW k \in 1..Len(bins) PROVE bins[k] <= bins'[k]
      OBVIOUS
    <3>1. CASE k \in 1..(Len(bins) - 1)
      BY <1>1, <2>1, <3>1
    <3>2. CASE k = Len(bins)
      BY <2>3, <3>2
    <3> QED
      BY <1>1, <3>1, <3>2
  <2>5. Frontier <= ClaimedCell(bytes)
    <3>1. Handle(Len(bins) - 1, Used) \in Nat
      BY <1>1, HandleParts
    <3> QED
      BY <2>1, <3>1 DEF Frontier
  <2>6. bins' # <<>> /\ Len(bins) <= Len(bins')
    BY <1>1, <2>1
  <2> QED
    BY <1>1, <2>1, <2>2, <2>4, <2>5, <2>6
<1>4. CASE ~Fits(Used, bytes) /\ Fits(BinHeader, bytes)
  <2>1. /\ bins' \in Seq(BinHeader..Usable) /\ Len(bins') = Len(bins) + 1
        /\ \A k \in 1..Len(bins) : bins'[k] = bins[k]
        /\ bins'[Len(bins) + 1] = UsedAfter(BinHeader, bytes)
        /\ ClaimedCell(bytes) = Handle(Len(bins), BinHeader)
    BY <1>2, <1>4, ClaimInNewBin
  <2>2. Used' = UsedAfter(BinHeader, bytes)
    BY <2>1 DEF Used
  <2>3. \A k \in 1..Len(bins) : bins[k] <= bins'[k]
    BY <1>1, <2>1, Sizes
  <2>4. Frontier <= ClaimedCell(bytes)
    BY <2>1, FrontierOfNewBin DEF TypeOK
  <2>5. bins' # <<>> /\ Len(bins) <= Len(bins') /\ Len(bins') - 1 = Len(bins)
    BY <1>1, <2>1
  <2>6. BinHeader \in BinHeader..Usable /\ BinHeader % Gran = 0
    BY Sizes
  <2> QED
    BY <2>1, <2>2, <2>3, <2>4, <2>5, <2>6
<1> QED
  BY <1>2, <1>3, <1>4

\* A claim appends to the claims.
LEMMA ClaimAppends ==
  ASSUME TypeOK, Placing, NEW bytes \in Nat, Claim(bytes)
  PROVE  /\ ClaimedCell(bytes) \in Nat
         /\ claims' \in Seq([cell : Nat, len : Nat])
         /\ Len(claims) \in Nat /\ Len(claims') = Len(claims) + 1
         /\ \A k \in 1..Len(claims) : claims'[k] = claims[k]
         /\ claims'[Len(claims) + 1] = [cell |-> ClaimedCell(bytes), len |-> bytes]
         /\ \A k \in 1..Len(claims) :
              /\ claims[k].cell \in Nat /\ claims[k].len \in Nat
              /\ claims[k].cell + 4 + claims[k].len <= ClaimedCell(bytes)
<1>1. PICK used \in BinHeader..Usable :
        /\ bins' \in Seq(BinHeader..Usable) /\ bins' # <<>>
        /\ ClaimedCell(bytes) = Handle(Len(bins') - 1, used)
        /\ Frontier <= ClaimedCell(bytes)
  BY ClaimPlace
<1>2. Len(bins') - 1 \in Nat
  <2>1. Len(bins') \in Nat /\ Len(bins') # 0
    BY <1>1
  <2> QED
    BY <2>1
<1>3. ClaimedCell(bytes) \in Nat
  BY <1>1, <1>2, HandleParts
<1>4. Frontier \in Nat
  BY FrontierOfNewBin DEF TypeOK
<1>5. claims \in Seq([cell : Nat, len : Nat])
  BY DEF TypeOK
<1>6. [cell |-> ClaimedCell(bytes), len |-> bytes] \in [cell : Nat, len : Nat]
  BY <1>3
<1>7. claims' = Append(claims, [cell |-> ClaimedCell(bytes), len |-> bytes])
  BY DEF Claim
<1>8. \A k \in 1..Len(claims) : claims[k].cell \in Nat /\ claims[k].len \in Nat
  <2>1. \A k \in 1..Len(claims) : claims[k] \in [cell : Nat, len : Nat]
    BY <1>5, ElementOf
  <2> QED
    BY <2>1
<1>9. \A k \in 1..Len(claims) : claims[k].cell + 4 + claims[k].len <= ClaimedCell(bytes)
  BY <1>1, <1>3, <1>4, <1>8 DEF Placing
<1> QED
  BY <1>3, <1>5, <1>6, <1>7, <1>8, <1>9, Appended

\* A claim keeps every cell in its place, and the new one gets a place of its own.
LEMMA ClaimKeeps ==
  ASSUME TypeOK, Placing, CellsKept, NEW bytes \in Nat, Claim(bytes)
  PROVE  /\ bins' \in Seq(BinHeader..Usable) /\ bins' # <<>>
         /\ BinHeader <= ClaimedCell(bytes)
         /\ ClaimedCell(bytes) % Gran = 0
         /\ Placing' /\ CellsKept'
<1> DEFINE cell == ClaimedCell(bytes)
           n == Len(claims) + 1
<1>1. PICK used \in BinHeader..Usable :
        /\ used % Gran = 0
        /\ bins' \in Seq(BinHeader..Usable) /\ bins' # <<>>
        /\ Len(bins) <= Len(bins')
        /\ \A k \in 1..Len(bins) : bins[k] <= bins'[k]
        /\ cell = Handle(Len(bins') - 1, used)
        /\ Used' = UsedAfter(used, bytes)
        /\ Frontier <= cell
  BY ClaimPlace
<1>2. /\ Len(bins') \in Nat /\ Len(bins') >= 1 /\ Len(bins') - 1 \in Nat
      /\ Used' = bins'[Len(bins')] /\ Used' <= Usable
      /\ \A k \in 1..Len(bins') : bins'[k] \in Nat /\ bins'[k] <= Usable
  <2>1. \A k \in 1..Len(bins') : bins'[k] \in BinHeader..Usable
    BY <1>1, ElementOf
  <2>2. Len(bins') \in Nat /\ Len(bins') # 0
    BY <1>1
  <2>3. Len(bins') \in 1..Len(bins')
    BY <2>2
  <2>4. Used' = bins'[Len(bins')]
    BY DEF Used
  <2> QED
    BY <2>1, <2>2, <2>3, <2>4, Sizes
<1>3. /\ cell \in Nat /\ BinHeader <= cell
      /\ cell \div BinSize = Len(bins') - 1 /\ cell % BinSize = used
  BY <1>1, <1>2, HandleParts
<1>4. cell % Gran = 0
  BY <1>1, <1>2, HandleOnGrain
<1>5. /\ used \in Nat /\ BinHeader <= used
      /\ Used' \in Nat /\ used + 4 + bytes <= Used' /\ Used' % Gran = 0
  BY <1>1, Sizes, UsedGrows
<1>6. Frontier' \in Nat /\ cell + 4 + bytes <= Frontier'
  <2>1. (Len(bins') - 1) * BinSize \in Nat
    BY <1>2, Sizes
  <2>2. Frontier' = (Len(bins') - 1) * BinSize + Used'
    BY DEF Frontier, Handle
  <2>3. cell = (Len(bins') - 1) * BinSize + used
    BY <1>1 DEF Handle
  <2> HIDE DEF cell
  <2> QED
    BY <1>5, <2>1, <2>2, <2>3
<1>7. /\ n \in Nat /\ Len(claims') = n
      /\ \A k \in 1..Len(claims) : claims'[k] = claims[k]
      /\ claims'[n] = [cell |-> cell, len |-> bytes]
      /\ \A k \in 1..Len(claims) :
           /\ claims[k].cell \in Nat /\ claims[k].len \in Nat
           /\ claims[k].cell + 4 + claims[k].len <= cell
  BY ClaimAppends
<1> HIDE DEF cell, n
<1>8. \A k \in 1..n : k \in 1..Len(claims) \/ k = n
  BY <1>7 DEF n
<1>9. Placing'
  <2> SUFFICES ASSUME NEW k \in 1..n
               PROVE  /\ claims'[k].cell % Gran = 0
                      /\ BinHeader <= claims'[k].cell
                      /\ claims'[k].cell + 4 + claims'[k].len <= Frontier'
    BY <1>5, <1>7 DEF Placing
  <2>1. CASE k \in 1..Len(claims)
    <3>1. claims[k].cell % Gran = 0 /\ BinHeader <= claims[k].cell
      BY <2>1 DEF Placing
    <3> QED
      BY <1>3, <1>6, <1>7, <2>1, <3>1
  <2>2. CASE k = n
    BY <1>3, <1>4, <1>6, <1>7, <2>2
  <2> QED
    BY <1>8, <2>1, <2>2
<1>10. CellsKept'
  <2> DEFINE Kept(c, b) == LET index  == c.cell \div BinSize
                               offset == c.cell % BinSize
                           IN  /\ index < Len(b)
                               /\ BinHeader <= offset
                               /\ offset + 4 + c.len <= b[index + 1]
                               /\ b[index + 1] + 4 <= BinSize
  <2> SUFFICES ASSUME NEW k \in 1..n PROVE Kept(claims'[k], bins')
    BY <1>7 DEF CellsKept
  <2>1. CASE k \in 1..Len(claims)
    <3> DEFINE index  == claims[k].cell \div BinSize
               offset == claims[k].cell % BinSize
    <3>1. index \in Nat /\ offset \in Nat /\ claims[k].len \in Nat
      <4>1. claims[k].cell \in Nat /\ claims[k].len \in Nat
        BY <1>7, <2>1
      <4>2. \A a, b \in Nat : b # 0 => a \div b \in Nat /\ a % b \in Nat
        BY SMT
      <4> QED
        BY <4>1, <4>2, Sizes
    <3>2. index < Len(bins) /\ BinHeader <= offset /\ offset + 4 + claims[k].len <= bins[index + 1]
      BY <2>1 DEF CellsKept
    <3>3. Len(bins) \in Nat /\ \A m \in 1..Len(bins) : bins[m] \in Nat
      BY CurrentBin DEF TypeOK
    <3> HIDE DEF index, offset
    <3>4. index + 1 \in 1..Len(bins) /\ index + 1 \in 1..Len(bins')
      BY <1>1, <1>2, <3>1, <3>2, <3>3
    <3>5. bins[index + 1] <= bins'[index + 1] /\ bins'[index + 1] <= Usable
      BY <1>1, <1>2, <3>4
    <3>6. /\ index < Len(bins') /\ offset + 4 + claims[k].len <= bins'[index + 1]
          /\ bins'[index + 1] + 4 <= BinSize
      <4>1. index < Len(bins')
        BY <1>1, <1>2, <3>1, <3>2, <3>3
      <4>2. bins[index + 1] \in Nat /\ bins'[index + 1] \in Nat
        BY <1>2, <3>3, <3>4
      <4>3. offset + 4 + claims[k].len <= bins'[index + 1]
        BY <3>1, <3>2, <3>5, <4>2
      <4>4. bins'[index + 1] + 4 <= BinSize
        BY <3>5, <4>2, Sizes
      <4> QED
        BY <4>1, <4>3, <4>4
    <3> QED
      BY <1>7, <2>1, <3>2, <3>6 DEF index, offset
  <2>2. CASE k = n
    <3>1. Len(bins') - 1 < Len(bins') /\ (Len(bins') - 1) + 1 = Len(bins')
      BY <1>2
    <3>2. used + 4 + bytes <= bins'[Len(bins')] /\ bins'[Len(bins')] + 4 <= BinSize
      BY <1>2, <1>5, Sizes
    <3> QED
      BY <1>3, <1>5, <1>7, <2>2, <3>1, <3>2
  <2> QED
    BY <1>8, <2>1, <2>2
<1> QED
  BY <1>1, <1>3, <1>4, <1>9, <1>10 DEF cell

(* ---- what the calls of makecell hold ---- *)

\* The keys and values handed to export.
LEMMA TreeTypes ==
  ASSUME tree \in Trees
  PROVE  /\ Root \in DOMAIN tree.subkeys
         /\ \A key \in DOMAIN tree.subkeys :
              /\ Subkeys(key) \in Seq(DOMAIN tree.subkeys)
              /\ Values(key) \in Seq([size : Nat, name : Nat])
              /\ HeaderLen(key) \in Nat
<1> DEFINE keys == DOMAIN tree.subkeys
<1>1. /\ tree.root \in keys
      /\ tree.subkeys \in [keys -> Seq(keys)]
      /\ tree.values \in [keys -> Seq([size : Nat, name : Nat])]
      /\ tree.name \in [keys -> Nat]
  BY TreeAssumption
<1> HIDE DEF keys
<1>2. \A key \in keys : HeaderLen(key) \in Nat
  <2> SUFFICES ASSUME NEW key \in keys PROVE HeaderLen(key) \in Nat
    OBVIOUS
  <2>1. tree.name[key] \in Nat
    BY <1>1
  <2>2. roundup(tree.name[key], 4) \in Nat
    BY <2>1, RoundupUp
  <2> QED
    BY <2>2, Sizes DEF HeaderLen
<1>3. /\ Root \in keys
      /\ \A key \in keys : Subkeys(key) \in Seq(keys) /\ Values(key) \in Seq([size : Nat, name : Nat])
  BY <1>1 DEF Root, Subkeys, Values
<1> QED
  BY <1>2, <1>3 DEF keys

\* The innermost call.
LEMMA TopCall ==
  ASSUME TypeOK, Building
  PROVE  /\ Len(stack) \in Nat /\ Len(stack) >= 1 /\ Top \in Call
         /\ Under \in Seq(Call) /\ Len(Under) = Len(stack) - 1
         /\ \A k \in 1..(Len(stack) - 1) : Under[k] = stack[k]
<1>1. stack \in Seq(Call) /\ stack # <<>>
  BY DEF TypeOK, Building
<1> HIDE DEF Call
<1>2. Len(stack) \in Nat /\ Len(stack) # 0
  BY <1>1
<1>3. Top \in Call
  BY <1>1, <1>2, ElementOf DEF Top
<1>4. /\ Under \in Seq(Call) /\ Len(Under) = Len(stack) - 1
      /\ \A k \in 1..(Len(stack) - 1) : Under[k] = stack[k]
  BY <1>1, <1>2, AllButLast DEF Under
<1> QED
  BY <1>2, <1>3, <1>4

\* What the innermost call holds, and what it does next.
LEMMA TopTypes ==
  ASSUME TypeOK, tree \in Trees, Building
  PROVE  /\ Top.key \in DOMAIN tree.subkeys
         /\ Top.cell \in Nat /\ Top.parent \in Cell /\ Top.data \in Cell
         /\ Top.valcells \in Seq(Nat) /\ Top.keycells \in Seq(Nat)
         /\ Top.keylist \in Cell /\ Top.valuelist \in Cell
         /\ ValuesLeft => NextValue.size \in Nat /\ NextValue.name \in Nat
         /\ KeysLeft => NextSubkey \in DOMAIN tree.subkeys
<1>1. Top \in Call
  BY TopCall
<1>2. /\ Top.key \in DOMAIN tree.subkeys
      /\ Top.cell \in Nat /\ Top.parent \in Cell /\ Top.data \in Cell
      /\ Top.valcells \in Seq(Nat) /\ Top.keycells \in Seq(Nat)
      /\ Top.keylist \in Cell /\ Top.valuelist \in Cell
  BY <1>1 DEF Call
<1>3. Values(Top.key) \in Seq([size : Nat, name : Nat]) /\ Subkeys(Top.key) \in Seq(DOMAIN tree.subkeys)
  BY <1>2, TreeTypes
<1>4. /\ Len(Top.valcells) \in Nat /\ Len(Top.keycells) \in Nat
      /\ Len(Values(Top.key)) \in Nat /\ Len(Subkeys(Top.key)) \in Nat
  BY <1>2, <1>3
<1>5. ValuesLeft => NextValue.size \in Nat /\ NextValue.name \in Nat
  <2> SUFFICES ASSUME ValuesLeft PROVE NextValue.size \in Nat /\ NextValue.name \in Nat
    OBVIOUS
  <2>1. Len(Top.valcells) + 1 \in 1..Len(Values(Top.key))
    BY <1>4 DEF ValuesLeft
  <2>2. NextValue \in [size : Nat, name : Nat]
    BY <1>3, <2>1, ElementOf DEF NextValue
  <2> QED
    BY <2>2
<1>6. KeysLeft => NextSubkey \in DOMAIN tree.subkeys
  <2> SUFFICES ASSUME KeysLeft PROVE NextSubkey \in DOMAIN tree.subkeys
    OBVIOUS
  <2>1. Len(Top.keycells) + 1 \in 1..Len(Subkeys(Top.key))
    BY <1>4 DEF KeysLeft
  <2> QED
    BY <1>3, <2>1, ElementOf DEF NextSubkey
<1> QED
  BY <1>2, <1>5, <1>6

\* A call that has collected one more thing.
LEMMA TopReplaced ==
  ASSUME TypeOK, Building, NEW frame \in Call, ReplaceTop(frame)
  PROVE  /\ stack' \in Seq(Call) /\ Len(stack') = Len(stack) /\ stack'[Len(stack)] = frame
         /\ \A k \in 1..(Len(stack) - 1) : stack'[k] = stack[k]
<1>1. stack \in Seq(Call) /\ Len(stack) \in Nat /\ Len(stack) >= 1
  BY TopCall DEF TypeOK
<1>2. stack' = [stack EXCEPT ![Len(stack)] = frame]
  BY DEF ReplaceTop
<1> HIDE DEF Call
<1> QED
  BY <1>1, <1>2

LEMMA NewFrame ==
  ASSUME NEW key \in DOMAIN tree.subkeys, NEW cell \in Nat, NEW parent \in Cell
  PROVE  Frame(key, cell, parent) \in Call
<1>1. <<>> \in Seq(Nat) /\ Null \in Cell
  BY DEF Cell
<1> QED
  BY <1>1 DEF Frame, Call

\* What a write does to the cells written.
LEMMA WriteAppends ==
  ASSUME IsSequence(writes), NEW cell, NEW bytes, NEW content, Write(cell, bytes, content)
  PROVE  /\ IsSequence(writes')
         /\ Len(writes) \in Nat /\ Len(writes') = Len(writes) + 1
         /\ \A k \in 1..Len(writes) : writes'[k] = writes[k]
         /\ writes'[Len(writes) + 1].cell = cell /\ writes'[Len(writes) + 1].len = bytes
         /\ writes'[Len(writes) + 1].content = content
<1> DEFINE e == [cell |-> cell, len |-> bytes, content |-> content]
           S == {writes[k] : k \in 1..Len(writes)} \cup {e}
           T == {writes'[k] : k \in 1..Len(writes')}
<1>1. writes' = Append(writes, e)
  BY DEF Write
<1>2. writes \in Seq(S)
  <2>1. writes \in Seq({writes[k] : k \in 1..Len(writes)})
    BY DEF IsSequence
  <2> QED
    BY <2>1
<1>3. e \in S /\ e.cell = cell /\ e.len = bytes /\ e.content = content
  OBVIOUS
<1> HIDE DEF S, e
<1>4. /\ writes' \in Seq(S)
      /\ Len(writes) \in Nat /\ Len(writes') = Len(writes) + 1
      /\ \A k \in 1..Len(writes) : writes'[k] = writes[k]
      /\ writes'[Len(writes) + 1] = e
  BY <1>1, <1>2, <1>3, Appended
<1>5. writes' \in Seq(T)
  BY <1>4
<1> QED
  BY <1>3, <1>4, <1>5 DEF IsSequence

(* ---- the three kinds of step ---- *)

\* The calls in progress are those before, though they have collected more.
SameCalls(n) ==
  /\ stack' \in Seq(Call) /\ Len(stack') = n
  /\ \A k \in 1..n : stack'[k].cell = stack[k].cell /\ stack'[k].key = stack[k].key

\* A cell is claimed and written at once, and the innermost call keeps its handle.
Collects(bytes) ==
  /\ bytes \in Nat
  /\ \E content : ClaimWrite(bytes, content)
  /\ SameCalls(Len(stack))
  /\ pc = "building"
  /\ UNCHANGED <<pc, tree, keycell>>

\* A call for a key begins, and claims the key's cell.
Calls(key, parent) ==
  /\ key \in DOMAIN tree.subkeys /\ HeaderLen(key) \in Nat
  /\ Claim(HeaderLen(key))
  /\ stack' = Append(stack, Frame(key, ClaimedCell(HeaderLen(key)), parent))
  /\ Frame(key, ClaimedCell(HeaderLen(key)), parent) \in Call
  /\ pc = "building"
  /\ UNCHANGED <<pc, tree, writes, keycell>>

\* A frame whose handles are replaced is a frame.
LEMMA TopKept ==
  ASSUME TypeOK, tree \in Trees, Building, tree' = tree,
         NEW frame \in Call, ReplaceTop(frame), frame.cell = Top.cell, frame.key = Top.key
  PROVE  SameCalls(Len(stack))
<1>1. /\ stack' \in Seq(Call) /\ Len(stack') = Len(stack) /\ stack'[Len(stack)] = frame
      /\ \A k \in 1..(Len(stack) - 1) : stack'[k] = stack[k]
  BY TopReplaced
<1>2. Len(stack) \in Nat /\ Top = stack[Len(stack)]
  BY TopCall DEF Top
<1>3. \A k \in 1..Len(stack) : k \in 1..(Len(stack) - 1) \/ k = Len(stack)
  BY <1>2
<1> QED
  BY <1>1, <1>2, <1>3 DEF SameCalls

LEMMA CellAfterClaim ==
  ASSUME IInv, NEW bytes \in Nat, Claim(bytes)
  PROVE  ClaimedCell(bytes) \in Nat
  BY ClaimAppends DEF IInv

LEMMA WriteDataCollects ==
  ASSUME IInv, WriteData
  PROVE  Collects(NextValue.size)
<1>1. /\ TypeOK /\ tree \in Trees /\ Building /\ ValuesLeft /\ UNCHANGED <<pc, tree, keycell>>
      /\ \E content : ClaimWrite(NextValue.size, content)
  BY DEF WriteData, IInv
<1>2. NextValue.size \in Nat /\ Claim(NextValue.size)
  BY <1>1, TopTypes DEF ClaimWrite
<1>3. ClaimedCell(NextValue.size) \in Nat
  BY <1>2, CellAfterClaim
<1> DEFINE frame == [Top EXCEPT !.data = ClaimedCell(NextValue.size)]
<1>4. frame \in Call /\ frame.cell = Top.cell /\ frame.key = Top.key
  BY <1>1, <1>3, TopCall DEF Call, Cell
<1>5. ReplaceTop(frame)
  BY DEF WriteData
<1> HIDE DEF frame
<1>6. SameCalls(Len(stack))
  BY <1>1, <1>4, <1>5, TopKept
<1> QED
  BY <1>1, <1>2, <1>6 DEF Collects, Building

LEMMA WriteValueCollects ==
  ASSUME IInv, WriteValue
  PROVE  Collects(ValueLen + roundup(NextValue.name, 4))
<1> DEFINE bytes == ValueLen + roundup(NextValue.name, 4)
<1>1. /\ TypeOK /\ tree \in Trees /\ Building /\ ValuesLeft /\ UNCHANGED <<pc, tree, keycell>>
      /\ \E content : ClaimWrite(bytes, content)
  BY DEF WriteValue, IInv
<1>2. NextValue.name \in Nat
  BY <1>1, TopTypes
<1>3. bytes \in Nat
  BY <1>2, RoundupUp, Sizes
<1>4. ReplaceTop([Top EXCEPT !.valcells = Append(@, ClaimedCell(bytes)), !.data = Null])
  BY DEF WriteValue
<1> HIDE DEF bytes
<1>5. Claim(bytes) /\ ClaimedCell(bytes) \in Nat
  BY <1>1, <1>3, CellAfterClaim DEF ClaimWrite
<1> DEFINE frame == [Top EXCEPT !.valcells = Append(@, ClaimedCell(bytes)), !.data = Null]
<1>6. frame \in Call /\ frame.cell = Top.cell /\ frame.key = Top.key
  <2>1. Append(Top.valcells, ClaimedCell(bytes)) \in Seq(Nat) /\ Null \in Cell
    BY <1>1, <1>5, TopTypes DEF Cell
  <2> QED
    BY <1>1, <2>1, TopCall DEF Call
<1> HIDE DEF frame
<1>7. SameCalls(Len(stack))
  BY <1>1, <1>4, <1>6, TopKept DEF frame
<1> QED
  BY <1>1, <1>3, <1>7 DEF Collects, Building, bytes

LEMMA WriteKeyListCollects ==
  ASSUME IInv, WriteKeyList
  PROVE  Collects(4 + 8 * Len(Top.keycells))
<1> DEFINE bytes == 4 + 8 * Len(Top.keycells)
<1>1. /\ TypeOK /\ tree \in Trees /\ Building /\ UNCHANGED <<pc, tree, keycell>>
      /\ \E content : ClaimWrite(bytes, content)
      /\ ReplaceTop([Top EXCEPT !.keylist = ClaimedCell(bytes)])
  BY DEF WriteKeyList, IInv
<1>2. Top.keycells \in Seq(Nat)
  BY <1>1, TopTypes
<1>3. bytes \in Nat
  BY <1>2
<1> HIDE DEF bytes
<1>4. Claim(bytes) /\ ClaimedCell(bytes) \in Nat
  BY <1>1, <1>3, CellAfterClaim DEF ClaimWrite
<1> DEFINE frame == [Top EXCEPT !.keylist = ClaimedCell(bytes)]
<1>5. frame \in Call /\ frame.cell = Top.cell /\ frame.key = Top.key
  BY <1>1, <1>4, TopCall DEF Call, Cell
<1> HIDE DEF frame
<1>6. SameCalls(Len(stack))
  BY <1>1, <1>5, TopKept DEF frame
<1> QED
  BY <1>1, <1>3, <1>6 DEF Collects, Building, bytes

LEMMA WriteValueListCollects ==
  ASSUME IInv, WriteValueList
  PROVE  Collects(4 * Len(Top.valcells))
<1> DEFINE bytes == 4 * Len(Top.valcells)
<1>1. /\ TypeOK /\ tree \in Trees /\ Building /\ UNCHANGED <<pc, tree, keycell>>
      /\ \E content : ClaimWrite(bytes, content)
      /\ ReplaceTop([Top EXCEPT !.valuelist = ClaimedCell(bytes)])
  BY DEF WriteValueList, IInv
<1>2. Top.valcells \in Seq(Nat)
  BY <1>1, TopTypes
<1>3. bytes \in Nat
  BY <1>2
<1> HIDE DEF bytes
<1>4. Claim(bytes) /\ ClaimedCell(bytes) \in Nat
  BY <1>1, <1>3, CellAfterClaim DEF ClaimWrite
<1> DEFINE frame == [Top EXCEPT !.valuelist = ClaimedCell(bytes)]
<1>5. frame \in Call /\ frame.cell = Top.cell /\ frame.key = Top.key
  BY <1>1, <1>4, TopCall DEF Call, Cell
<1> HIDE DEF frame
<1>6. SameCalls(Len(stack))
  BY <1>1, <1>5, TopKept DEF frame
<1> QED
  BY <1>1, <1>3, <1>6 DEF Collects, Building, bytes

LEMMA StartRootCalls ==
  ASSUME IInv, StartRoot
  PROVE  Calls(Root, Null) /\ stack = <<>>
<1>1. /\ Root \in DOMAIN tree.subkeys /\ HeaderLen(Root) \in Nat /\ Claim(HeaderLen(Root))
      /\ stack = <<>> /\ pc = "building" /\ UNCHANGED <<pc, tree, writes, keycell>>
      /\ stack' = <<Frame(Root, ClaimedCell(HeaderLen(Root)), Null)>>
  BY TreeTypes DEF StartRoot, IInv
<1>2. ClaimedCell(HeaderLen(Root)) \in Nat /\ Null \in Cell
  BY <1>1, CellAfterClaim DEF Cell
<1>3. Frame(Root, ClaimedCell(HeaderLen(Root)), Null) \in Call
  BY <1>1, <1>2, NewFrame
<1>4. stack' = Append(stack, Frame(Root, ClaimedCell(HeaderLen(Root)), Null))
  BY <1>1
<1> QED
  BY <1>1, <1>3, <1>4 DEF Calls

LEMMA EnterSubkeyCalls ==
  ASSUME IInv, EnterSubkey
  PROVE  Calls(NextSubkey, Top.cell)
<1>1. TypeOK /\ tree \in Trees /\ Building /\ KeysLeft
  BY DEF EnterSubkey, IInv
<1>2. NextSubkey \in DOMAIN tree.subkeys /\ Top.cell \in Nat
  BY <1>1, TopTypes
<1>3. HeaderLen(NextSubkey) \in Nat /\ Claim(HeaderLen(NextSubkey))
  BY <1>1, <1>2, TreeTypes DEF EnterSubkey
<1>4. ClaimedCell(HeaderLen(NextSubkey)) \in Nat /\ Top.cell \in Cell
  BY <1>2, <1>3, CellAfterClaim DEF Cell
<1>5. Frame(NextSubkey, ClaimedCell(HeaderLen(NextSubkey)), Top.cell) \in Call
  BY <1>2, <1>4, NewFrame
<1> QED
  BY <1>1, <1>2, <1>3, <1>5 DEF Calls, EnterSubkey, Building

\* A call ends: the key's cell is written, and the calls around it go on.
LEMMA FinishKeyReturns ==
  ASSUME IInv, FinishKey
  PROVE  /\ Building /\ pc' \in {"building", "done"} /\ (pc' = "done" => stack' = <<>>)
         /\ \E content : Write(Top.cell, HeaderLen(Top.key), content)
         /\ Top.cell \in Nat /\ HeaderLen(Top.key) \in Nat /\ keycell' \in Cell
         /\ SameCalls(Len(stack) - 1)
         /\ UNCHANGED <<tree, bins, claims>>
<1>1. /\ TypeOK /\ tree \in Trees /\ Building /\ UNCHANGED <<tree, bins, claims>>
      /\ \E content : Write(Top.cell, HeaderLen(Top.key), content)
      /\ stack' = ReturnTo(Under, Top.cell)
      /\ pc' = IF Under = <<>> THEN "done" ELSE pc
      /\ keycell' = IF Under = <<>> THEN Top.cell ELSE keycell
  BY DEF FinishKey, IInv
<1>2. Top.cell \in Nat /\ HeaderLen(Top.key) \in Nat
  BY <1>1, TopTypes, TreeTypes
<1>3. keycell' \in Cell
  BY <1>1, <1>2 DEF TypeOK, Cell
<1>4. /\ Under \in Seq(Call) /\ Len(Under) = Len(stack) - 1 /\ Len(stack) \in Nat
      /\ \A k \in 1..(Len(stack) - 1) : Under[k] = stack[k]
  BY <1>1, TopCall
<1>5. CASE Under = <<>>
  <2>1. stack' = <<>> /\ Len(stack) - 1 = 0
    BY <1>1, <1>4, <1>5 DEF ReturnTo
  <2>2. SameCalls(Len(stack) - 1)
    <3>1. <<>> \in Seq(Call)
      OBVIOUS
    <3>2. stack' \in Seq(Call) /\ Len(stack') = 0
      BY <2>1, <3>1
    <3>3. SameCalls(0)
      <4>1. \A k \in 1..0 : FALSE
        OBVIOUS
      <4> QED
        BY <3>2, <4>1, Zenon DEF SameCalls
    <3> HIDE DEF SameCalls
    <3> QED
      BY <2>1, <3>3, Zenon
  <2> QED
    BY <1>1, <1>2, <1>3, <1>5, <2>1, <2>2
<1>6. CASE Under # <<>>
  <2> DEFINE n == Len(Under)
             frame == [Under[n] EXCEPT !.keycells = Append(@, Top.cell)]
  <2>1. n \in Nat /\ n # 0 /\ n \in 1..n
    BY <1>4, <1>6
  <2>2. Under[n] \in Call
    BY <1>4, <2>1, ElementOf
  <2>3. frame \in Call /\ frame.cell = Under[n].cell /\ frame.key = Under[n].key
    <3>1. Append(Under[n].keycells, Top.cell) \in Seq(Nat)
      BY <1>2, <2>2 DEF Call
    <3> QED
      BY <2>2, <3>1 DEF Call
  <2>4. stack' = [Under EXCEPT ![n] = frame]
    BY <1>1, <1>6 DEF ReturnTo
  <2> HIDE DEF frame, n, Call
  <2>5. /\ stack' \in Seq(Call) /\ Len(stack') = n /\ stack'[n] = frame
        /\ \A k \in 1..(n - 1) : stack'[k] = Under[k]
    BY <1>4, <2>1, <2>3, <2>4 DEF n
  <2>6. \A k \in 1..n : k \in 1..(n - 1) \/ k = n
    BY <2>1
  <2>7. n = Len(stack) - 1 /\ \A k \in 1..n : Under[k] = stack[k]
    BY <1>4 DEF n
  <2>8. SameCalls(Len(stack) - 1)
    BY <2>3, <2>5, <2>6, <2>7 DEF SameCalls
  <2> QED
    BY <1>1, <1>2, <1>3, <1>6, <2>8 DEF Building
<1> QED
  BY <1>5, <1>6

(* ---- every step keeps the cells in their places ---- *)

LEMMA SameCallType ==
  ASSUME tree' = tree
  PROVE  Call' = Call
  BY DEF Call

LEMMA InitIInv ==
  ASSUME Init
  PROVE  IInv
<1>1. /\ pc = "building" /\ tree \in Trees /\ bins = <<BinHeader>> /\ claims = <<>>
      /\ writes = <<>> /\ stack = <<>> /\ keycell = Null
  BY DEF Init
<1>2. bins \in Seq(BinHeader..Usable) /\ bins # <<>> /\ Used = BinHeader
  BY <1>1, Sizes DEF Used
<1>3. claims \in Seq([cell : Nat, len : Nat]) /\ Len(claims) = 0 /\ Len(writes) = 0
  BY <1>1
<1>4. stack \in Seq(Call) /\ keycell \in Cell
  BY <1>1 DEF Cell
<1>5. IsSequence(writes)
  BY <1>1 DEF IsSequence
<1>6. TypeOK
  BY <1>1, <1>2, <1>3, <1>4 DEF TypeOK
<1>7. Placing /\ CellsKept
  BY <1>2, <1>3, Sizes DEF Placing, CellsKept
<1> QED
  BY <1>1, <1>5, <1>6, <1>7 DEF IInv

LEMMA CollectsIInv ==
  ASSUME IInv, NEW bytes, Collects(bytes)
  PROVE  IInv'
<1>1. PICK content : Claim(bytes) /\ Write(ClaimedCell(bytes), bytes, content)
  BY DEF Collects, ClaimWrite
<1>2. bytes \in Nat /\ stack' \in Seq(Call) /\ UNCHANGED <<pc, tree, keycell>>
  BY DEF Collects, SameCalls
<1>3. ClaimedCell(bytes) \in Nat /\ claims' \in Seq([cell : Nat, len : Nat])
  BY <1>1, <1>2, ClaimAppends DEF IInv
<1>4. bins' \in Seq(BinHeader..Usable) /\ bins' # <<>> /\ Placing' /\ CellsKept'
  BY <1>1, <1>2, ClaimKeeps DEF IInv
<1>5. /\ IsSequence(writes')
      /\ \A k \in 1..Len(writes') : writes'[k].cell \in Nat /\ writes'[k].len \in Nat
  <2>1. /\ IsSequence(writes') /\ Len(writes) \in Nat /\ Len(writes') = Len(writes) + 1
        /\ \A k \in 1..Len(writes) : writes'[k] = writes[k]
        /\ writes'[Len(writes) + 1].cell = ClaimedCell(bytes)
        /\ writes'[Len(writes) + 1].len = bytes
    BY <1>1, WriteAppends DEF IInv
  <2>2. \A k \in 1..Len(writes') : k \in 1..Len(writes) \/ k = Len(writes) + 1
    BY <2>1
  <2> QED
    BY <1>2, <1>3, <2>1, <2>2 DEF IInv, TypeOK
<1>6. Call' = Call
  BY <1>2, SameCallType
<1>7. TypeOK'
  BY <1>2, <1>3, <1>4, <1>5, <1>6 DEF IInv, TypeOK
<1>8. IsSequence(writes)'
  BY <1>5 DEF IsSequence
<1> QED
  BY <1>2, <1>4, <1>7, <1>8 DEF IInv

LEMMA CallsIInv ==
  ASSUME IInv, NEW key, NEW parent, Calls(key, parent)
  PROVE  IInv'
<1> DEFINE bytes == HeaderLen(key)
           frame == Frame(key, ClaimedCell(bytes), parent)
<1>1. /\ bytes \in Nat /\ Claim(bytes) /\ frame \in Call /\ stack' = Append(stack, frame)
      /\ UNCHANGED <<pc, tree, writes, keycell>>
  BY DEF Calls
<1> HIDE DEF bytes, frame
<1>2. claims' \in Seq([cell : Nat, len : Nat])
  BY <1>1, ClaimAppends DEF IInv
<1>3. bins' \in Seq(BinHeader..Usable) /\ bins' # <<>> /\ Placing' /\ CellsKept'
  BY <1>1, ClaimKeeps DEF IInv
<1>4. stack' \in Seq(Call) /\ Call' = Call
  BY <1>1, Appended, SameCallType DEF IInv, TypeOK
<1>5. TypeOK'
  BY <1>1, <1>2, <1>3, <1>4 DEF IInv, TypeOK
<1>6. IsSequence(writes)'
  BY <1>1 DEF IInv, IsSequence
<1> QED
  BY <1>1, <1>3, <1>5, <1>6 DEF IInv

LEMMA FinishKeyIInv ==
  ASSUME IInv, FinishKey
  PROVE  IInv'
<1>1. PICK content : Write(Top.cell, HeaderLen(Top.key), content)
  BY FinishKeyReturns
<1>2. /\ pc' \in {"building", "done"} /\ UNCHANGED <<tree, bins, claims>>
      /\ Top.cell \in Nat /\ HeaderLen(Top.key) \in Nat /\ keycell' \in Cell
      /\ stack' \in Seq(Call)
  BY FinishKeyReturns DEF SameCalls
<1>3. /\ IsSequence(writes')
      /\ \A k \in 1..Len(writes') : writes'[k].cell \in Nat /\ writes'[k].len \in Nat
  <2>1. /\ IsSequence(writes') /\ Len(writes) \in Nat /\ Len(writes') = Len(writes) + 1
        /\ \A k \in 1..Len(writes) : writes'[k] = writes[k]
        /\ writes'[Len(writes) + 1].cell = Top.cell
        /\ writes'[Len(writes) + 1].len = HeaderLen(Top.key)
    BY <1>1, WriteAppends DEF IInv
  <2>2. \A k \in 1..Len(writes') : k \in 1..Len(writes) \/ k = Len(writes) + 1
    BY <2>1
  <2> QED
    BY <1>2, <2>1, <2>2 DEF IInv, TypeOK
<1>4. Call' = Call
  BY <1>2, SameCallType
<1>5. TypeOK'
  BY <1>2, <1>3, <1>4 DEF IInv, TypeOK, Cell
<1>6. Placing' /\ CellsKept'
  BY <1>2 DEF IInv, Placing, CellsKept, Frontier, Used
<1>7. IsSequence(writes)'
  BY <1>3 DEF IsSequence
<1> QED
  BY <1>2, <1>5, <1>6, <1>7 DEF IInv

\* A claim that fails leaves an empty bin behind.
LEMMA ClaimFailsIInv ==
  ASSUME IInv, ClaimFails
  PROVE  IInv'
<1>1. /\ bins' = Append(bins, BinHeader) /\ pc' = "failed"
      /\ UNCHANGED <<tree, claims, writes, stack, keycell>>
  BY DEF ClaimFails
<1>2. BinHeader \in BinHeader..Usable /\ bins \in Seq(BinHeader..Usable) /\ bins # <<>>
  BY Sizes DEF IInv, TypeOK
<1>3. /\ bins' \in Seq(BinHeader..Usable) /\ bins' # <<>>
      /\ Len(bins) \in Nat /\ Len(bins') = Len(bins) + 1
      /\ \A k \in 1..Len(bins) : bins'[k] = bins[k]
      /\ bins'[Len(bins) + 1] = BinHeader
  BY <1>1, <1>2, Appended
<1>4. Used' = BinHeader /\ Frontier' = Handle(Len(bins), BinHeader)
  BY <1>3 DEF Used, Frontier, Handle
<1>5. Frontier \in Nat /\ Frontier <= Frontier' /\ Frontier' \in Nat
  BY <1>2, <1>3, <1>4, FrontierOfNewBin, HandleParts
<1>6. claims \in Seq([cell : Nat, len : Nat])
  BY DEF IInv, TypeOK
<1>7. \A k \in 1..Len(claims) : claims[k].cell \in Nat /\ claims[k].len \in Nat
  <2>1. \A k \in 1..Len(claims) : claims[k] \in [cell : Nat, len : Nat]
    BY <1>6, ElementOf
  <2> QED
    BY <2>1
<1>8. Placing'
  <2>1. Used' % Gran = 0
    BY <1>4, Sizes
  <2>2. ASSUME NEW k \in 1..Len(claims)
        PROVE  /\ claims[k].cell % Gran = 0 /\ BinHeader <= claims[k].cell
               /\ claims[k].cell + 4 + claims[k].len <= Frontier'
    <3>1. /\ claims[k].cell % Gran = 0 /\ BinHeader <= claims[k].cell
          /\ claims[k].cell + 4 + claims[k].len <= Frontier
      BY DEF IInv, Placing
    <3> DEFINE end == claims[k].cell + 4 + claims[k].len
    <3>2. end \in Nat
      BY <1>7
    <3> HIDE DEF end
    <3>3. end <= Frontier'
      BY <1>5, <3>1, <3>2 DEF end
    <3> QED
      BY <3>1, <3>3 DEF end
  <2> QED
    BY <1>1, <2>1, <2>2 DEF Placing
<1>9. CellsKept'
  <2> SUFFICES ASSUME NEW k \in 1..Len(claims)
               PROVE  LET index  == claims[k].cell \div BinSize
                          offset == claims[k].cell % BinSize
                      IN  /\ index < Len(bins')
                          /\ BinHeader <= offset
                          /\ offset + 4 + claims[k].len <= bins'[index + 1]
                          /\ bins'[index + 1] + 4 <= BinSize
    BY <1>1 DEF CellsKept
  <2> DEFINE index  == claims[k].cell \div BinSize
             offset == claims[k].cell % BinSize
  <2>1. index \in Nat
    <3>1. \A a, b \in Nat : b # 0 => a \div b \in Nat
      BY SMT
    <3> QED
      BY <1>7, <3>1, Sizes
  <2>2. /\ index < Len(bins) /\ BinHeader <= offset
        /\ offset + 4 + claims[k].len <= bins[index + 1] /\ bins[index + 1] + 4 <= BinSize
    BY DEF IInv, CellsKept
  <2> HIDE DEF index, offset
  <2>3. index + 1 \in 1..Len(bins)
    BY <1>3, <2>1, <2>2
  <2>4. bins'[index + 1] = bins[index + 1] /\ index < Len(bins')
    BY <1>3, <2>1, <2>2, <2>3
  <2>5. /\ index < Len(bins') /\ BinHeader <= offset
        /\ offset + 4 + claims[k].len <= bins'[index + 1] /\ bins'[index + 1] + 4 <= BinSize
    BY <2>2, <2>4
  <2> QED
    BY <2>5 DEF index, offset
<1>10. TypeOK'
  <2>1. Call' = Call
    BY <1>1, SameCallType
  <2> QED
    BY <1>1, <1>3, <2>1 DEF IInv, TypeOK, Cell
<1>11. IsSequence(writes)'
  BY <1>1 DEF IInv, IsSequence
<1> QED
  BY <1>1, <1>8, <1>9, <1>10, <1>11 DEF IInv

LEMMA NextIInv ==
  ASSUME IInv, [Next]_vars
  PROVE  IInv'
<1>1. CASE StartRoot
  BY <1>1, StartRootCalls, CallsIInv
<1>2. CASE WriteData
  BY <1>2, WriteDataCollects, CollectsIInv
<1>3. CASE WriteValue
  BY <1>3, WriteValueCollects, CollectsIInv
<1>4. CASE EnterSubkey
  BY <1>4, EnterSubkeyCalls, CallsIInv
<1>5. CASE WriteKeyList
  BY <1>5, WriteKeyListCollects, CollectsIInv
<1>6. CASE WriteValueList
  BY <1>6, WriteValueListCollects, CollectsIInv
<1>7. CASE FinishKey
  BY <1>7, FinishKeyIInv
<1>8. CASE ClaimFails
  BY <1>8, ClaimFailsIInv
<1>9. CASE UNCHANGED vars
  <2>1. Call' = Call
    BY <1>9, SameCallType DEF vars
  <2>2. TypeOK' /\ tree' \in Trees
    BY <1>9, <2>1 DEF vars, IInv, TypeOK, Cell
  <2>3. IsSequence(writes)' /\ Placing' /\ CellsKept'
    BY <1>9 DEF vars, IInv, IsSequence, Placing, CellsKept, Frontier, Used
  <2> QED
    BY <2>2, <2>3 DEF IInv
<1> QED
  BY <1>1, <1>2, <1>3, <1>4, <1>5, <1>6, <1>7, <1>8, <1>9 DEF Next

\* However the cells of keys and values interleave, every state of a hive under
\* construction is one (TypeOK).
THEOREM TypeCorrect == Spec => []TypeOK
<1>1. IInv => TypeOK
  BY DEF IInv
<1> QED
  BY <1>1, InitIInv, NextIInv, PTL DEF Spec

\* hbin.export keeps every cell that regf.claim handed out: whole, in its own bin,
\* where its handle says (CellsKept).
THEOREM NoCellCut == Spec => []CellsKept
<1>1. IInv => CellsKept
  BY DEF IInv
<1> QED
  BY <1>1, InitIInv, NextIInv, PTL DEF Spec

(* ---- claims are regions ---- *)

\* The regions that stand for the claims.
CellRegion(k, c) == [owner |-> k, lo |-> c.cell, hi |-> c.cell + 4 + c.len]

Taken == {CellRegion(k, claims[k]) : k \in 1..Len(claims)}

\* A claim is a Reserve of Regions.
LEMMA ClaimReserves ==
  ASSUME IInv, NEW bytes \in Nat, Claim(bytes)
  PROVE  Cells!Reserve
<1> DEFINE n == Len(claims) + 1
           r == CellRegion(n, [cell |-> ClaimedCell(bytes), len |-> bytes])
<1>1. /\ ClaimedCell(bytes) \in Nat /\ n \in Nat /\ Len(claims) \in Nat /\ Len(claims') = n
      /\ \A k \in 1..Len(claims) : claims'[k] = claims[k]
      /\ claims'[n] = [cell |-> ClaimedCell(bytes), len |-> bytes]
      /\ \A k \in 1..Len(claims) :
           /\ claims[k].cell \in Nat /\ claims[k].len \in Nat
           /\ claims[k].cell + 4 + claims[k].len <= ClaimedCell(bytes)
  BY ClaimAppends DEF IInv
<1>2. BinHeader <= ClaimedCell(bytes) /\ ClaimedCell(bytes) % Gran = 0
  BY ClaimKeeps DEF IInv
<1>3. BinHeader <= r.lo /\ r.lo <= r.hi /\ r.lo % Gran = 0
  BY <1>1, <1>2 DEF CellRegion
<1>4. \A q \in Taken : q.owner # r.owner /\ Cells!Apart(q, r)
  <2> SUFFICES ASSUME NEW k \in 1..Len(claims)
               PROVE  /\ CellRegion(k, claims[k]).owner # r.owner
                      /\ Cells!Apart(CellRegion(k, claims[k]), r)
    BY DEF Taken
  <2> QED
    BY <1>1 DEF CellRegion, Cells!Apart
<1> HIDE DEF r
<1>5. Taken' = Taken \cup {r}
  <2>1. CellRegion(n, claims'[n]) = r
    BY <1>1 DEF r
  <2>2. 1..n = 1..Len(claims) \cup {n}
    BY <1>1
  <2>3. Taken' = {CellRegion(k, claims'[k]) : k \in 1..n}
    BY <1>1 DEF Taken
  <2>4. \A k \in 1..Len(claims) : CellRegion(k, claims'[k]) = CellRegion(k, claims[k])
    BY <1>1
  <2> HIDE DEF n
  <2> QED
    BY <2>1, <2>2, <2>3, <2>4 DEF Taken
<1>6. /\ Taken = {[owner |-> k, lo |-> claims[k].cell,
                   hi |-> claims[k].cell + 4 + claims[k].len] : k \in 1..Len(claims)}
      /\ Taken' = {[owner |-> k, lo |-> claims'[k].cell,
                    hi |-> claims'[k].cell + 4 + claims'[k].len] : k \in 1..Len(claims')}
  BY DEF Taken, CellRegion
<1>7. r \in Taken'
  BY <1>5
<1> QED
  BY <1>3, <1>4, <1>5, <1>6, <1>7 DEF Cells!Reserve

\* Every step reserves the region of a cell or leaves the claims alone.
LEMMA NextReserves ==
  ASSUME IInv, [Next]_vars
  PROVE  Cells!Reserve \/ Taken' = Taken
<1>1. CASE \E bytes : Collects(bytes)
  BY <1>1, ClaimReserves DEF Collects, ClaimWrite
<1>2. CASE \E key, parent : Calls(key, parent)
  BY <1>2, ClaimReserves DEF Calls
<1>3. CASE FinishKey \/ ClaimFails \/ UNCHANGED vars
  BY <1>3 DEF FinishKey, ClaimFails, vars, Taken
<1> QED
  BY <1>1, <1>2, <1>3, StartRootCalls, WriteDataCollects, WriteValueCollects,
     EnterSubkeyCalls, WriteKeyListCollects, WriteValueListCollects DEF Next

\* hbin.claim and regf.claim together are an allocator as Regions promises: a cell
\* is clear of all cells before it, its size field included, also when it is the
\* first of a new bin (PlacesCells).
THEOREM CellsArePlaced == Spec => PlacesCells
<1>1. Init => Cells!Init
  <2> SUFFICES ASSUME Init PROVE Cells!Init
    OBVIOUS
  <2>1. Len(claims) = 0
    BY DEF Init
  <2> QED
    BY <2>1 DEF Cells!Init
<1>2. IInv /\ [Next]_vars =>
        [Cells!Next]_({[owner |-> k, lo |-> claims[k].cell,
                        hi |-> claims[k].cell + 4 + claims[k].len] : k \in 1..Len(claims)})
  BY NextReserves DEF Taken, CellRegion, Cells!Next
<1> QED
  BY <1>1, <1>2, InitIInv, NextIInv, PTL DEF Spec, PlacesCells, Cells!Spec

(* ---- what is written is what was claimed ---- *)

LEMMA InitWInv ==
  ASSUME Init
  PROVE  WInv
<1>1. /\ pc = "building" /\ Len(claims) = 0 /\ Len(writes) = 0 /\ Len(stack) = 0
  BY DEF Init
<1> QED
  BY <1>1, InitIInv DEF WInv, Pending, WritesAsClaimed

\* A cell that is claimed and written at once.
LEMMA CollectsWInv ==
  ASSUME WInv, NEW bytes, Collects(bytes)
  PROVE  WInv'
<1>1. PICK content : Claim(bytes) /\ Write(ClaimedCell(bytes), bytes, content)
  BY DEF Collects, ClaimWrite
<1> DEFINE cell == ClaimedCell(bytes)
           n == Len(claims) + 1
           m == Len(writes) + 1
<1>2. IInv /\ bytes \in Nat /\ pc' = "building" /\ tree' = tree /\ SameCalls(Len(stack))
  BY DEF Collects, WInv
<1>3. /\ cell \in Nat /\ n \in Nat /\ Len(claims) \in Nat /\ Len(claims') = n
      /\ \A k \in 1..Len(claims) : claims'[k] = claims[k]
      /\ claims'[n] = [cell |-> cell, len |-> bytes]
      /\ \A k \in 1..Len(claims) : claims[k].cell # cell
  <2>1. \A k \in 1..Len(claims) : /\ claims[k].cell \in Nat /\ claims[k].len \in Nat
                                  /\ claims[k].cell + 4 + claims[k].len <= cell
    BY <1>1, <1>2, ClaimAppends DEF IInv
  <2>2. cell \in Nat
    BY <1>1, <1>2, CellAfterClaim
  <2>3. \A k \in 1..Len(claims) : claims[k].cell # cell
    BY <2>1, <2>2
  <2> QED
    BY <1>1, <1>2, <2>2, <2>3, ClaimAppends DEF IInv
<1>4. /\ Len(writes) \in Nat /\ m \in Nat /\ Len(writes') = m
      /\ \A k \in 1..Len(writes) : writes'[k] = writes[k]
      /\ writes'[m].cell = cell /\ writes'[m].len = bytes
  BY <1>1, <1>2, WriteAppends DEF IInv
<1>5. /\ Len(stack') = Len(stack) /\ Len(stack) \in Nat
      /\ \A k \in 1..Len(stack) : stack'[k].cell = stack[k].cell /\ stack'[k].key = stack[k].key
  BY <1>2 DEF SameCalls, IInv, TypeOK
<1>6. \A k \in 1..Len(stack) : HeaderLen(stack[k].key)' = HeaderLen(stack[k].key)
  BY <1>2, <1>5 DEF HeaderLen
<1> HIDE DEF cell, n, m
<1>7. /\ \A k \in 1..n : k \in 1..Len(claims) \/ k = n
      /\ \A k \in 1..m : k \in 1..Len(writes) \/ k = m
      /\ \A k \in 1..Len(claims) : k \in 1..n
      /\ n \in 1..n /\ n = Len(claims) + 1 /\ m = Len(writes) + 1
  BY <1>3, <1>4 DEF n, m
<1>8. \A k \in 1..Len(writes) : writes[k].cell # cell
  BY <1>3 DEF WInv, WritesAsClaimed
<1>9. \A k \in 1..Len(stack) : stack[k].cell # cell
  BY <1>3 DEF WInv, Pending
<1>10. Pending'
  <2>1. Len(claims') = Len(writes') + Len(stack')
    BY <1>3, <1>4, <1>5, <1>7 DEF WInv, Pending
  <2>2. ASSUME NEW k \in 1..Len(stack)
        PROVE  \E c \in 1..n : /\ claims'[c].cell = stack'[k].cell
                               /\ claims'[c].len = HeaderLen(stack[k].key)'
    <3>1. PICK c \in 1..Len(claims) : /\ claims[c].cell = stack[k].cell
                                      /\ claims[c].len = HeaderLen(stack[k].key)
      BY DEF WInv, Pending
    <3> QED
      BY <1>3, <1>5, <1>6, <1>7, <3>1
  <2>3. ASSUME NEW k \in 1..Len(stack), NEW w \in 1..m
        PROVE  writes'[w].cell # stack'[k].cell
    <3>1. stack'[k].cell = stack[k].cell
      BY <1>5
    <3>2. CASE w = m
      BY <1>4, <1>9, <3>1, <3>2
    <3>3. CASE w \in 1..Len(writes)
      <4>1. writes[w].cell # stack[k].cell
        BY <3>3 DEF WInv, Pending
      <4> QED
        BY <1>4, <3>1, <3>3, <4>1
    <3> QED
      BY <1>7, <3>2, <3>3
  <2>4. \A k, l \in 1..Len(stack) : k < l => stack'[k].cell # stack'[l].cell
    BY <1>5 DEF WInv, Pending
  <2> QED
    BY <1>2, <1>3, <1>4, <1>5, <2>1, <2>2, <2>3, <2>4 DEF Pending
<1>11. WritesAsClaimed'
  <2>1. ASSUME NEW k \in 1..m
        PROVE  \E c \in 1..n : claims'[c].cell = writes'[k].cell /\ claims'[c].len = writes'[k].len
    <3>1. CASE k \in 1..Len(writes)
      <4>1. PICK c \in 1..Len(claims) : /\ claims[c].cell = writes[k].cell
                                        /\ claims[c].len = writes[k].len
        BY <3>1 DEF WInv, WritesAsClaimed
      <4> QED
        BY <1>3, <1>4, <1>7, <3>1, <4>1
    <3>2. CASE k = m
      BY <1>3, <1>4, <1>7, <3>2
    <3> QED
      BY <1>7, <3>1, <3>2
  <2>2. ASSUME NEW k \in 1..m, NEW l \in 1..m, writes'[k].cell = writes'[l].cell
        PROVE  k = l
    BY <1>4, <1>7, <1>8, <2>2 DEF WInv, WritesAsClaimed
  <2> QED
    BY <1>2, <1>3, <1>4, <2>1, <2>2 DEF WritesAsClaimed
<1>12. IInv'
  BY <1>2, CollectsIInv
<1> QED
  BY <1>10, <1>11, <1>12 DEF WInv

\* A cell that is claimed for a key, and written when the call for the key ends.
LEMMA CallsWInv ==
  ASSUME WInv, NEW key, NEW parent, Calls(key, parent)
  PROVE  WInv'
<1> DEFINE bytes == HeaderLen(key)
           cell == ClaimedCell(bytes)
           frame == Frame(key, cell, parent)
           n == Len(claims) + 1
           d == Len(stack) + 1
<1>1. /\ IInv /\ bytes \in Nat /\ Claim(bytes) /\ stack' = Append(stack, frame) /\ frame \in Call
      /\ pc' = "building" /\ UNCHANGED <<tree, writes>>
  BY DEF Calls, WInv
<1>2. frame.cell = cell /\ frame.key = key
  BY DEF Frame
<1>3. HeaderLen(key) = bytes
  OBVIOUS
<1> HIDE DEF bytes
<1>4. /\ cell \in Nat /\ n \in Nat /\ Len(claims) \in Nat /\ Len(claims') = n
      /\ \A k \in 1..Len(claims) : claims'[k] = claims[k]
      /\ claims'[n] = [cell |-> cell, len |-> bytes]
      /\ \A k \in 1..Len(claims) : claims[k].cell # cell
  <2>1. \A k \in 1..Len(claims) : /\ claims[k].cell \in Nat /\ claims[k].len \in Nat
                                  /\ claims[k].cell + 4 + claims[k].len <= cell
    BY <1>1, ClaimAppends DEF IInv
  <2>2. cell \in Nat
    BY <1>1, CellAfterClaim
  <2>3. \A k \in 1..Len(claims) : claims[k].cell # cell
    BY <2>1, <2>2
  <2> QED
    BY <1>1, <2>2, <2>3, ClaimAppends DEF IInv
<1> HIDE DEF frame, cell
<1>5. /\ Len(stack) \in Nat /\ Len(stack') = d
      /\ \A k \in 1..Len(stack) : stack'[k] = stack[k]
      /\ stack'[d] = frame
  BY <1>1, Appended DEF IInv, TypeOK
<1>6. /\ \A k \in 1..Len(stack) : HeaderLen(stack[k].key)' = HeaderLen(stack[k].key)
      /\ \A k : k = d => HeaderLen(stack[k].key)' = bytes
  <2>1. \A k \in 1..Len(stack) : HeaderLen(stack[k].key)' = HeaderLen(stack[k].key)
    BY <1>1, <1>5 DEF HeaderLen
  <2>2. bytes = KeyLen + roundup(tree.name[key], 4)
    BY <1>3 DEF HeaderLen
  <2>3. ASSUME NEW k, k = d PROVE HeaderLen(stack[k].key)' = bytes
    <3>1. stack'[k].key = key
      BY <1>2, <1>5, <2>3
    <3> QED
      BY <1>1, <2>2, <3>1 DEF HeaderLen
  <2> QED
    BY <2>1, <2>3
<1>7. Len(writes) \in Nat
  BY DEF WInv, IInv, IsSequence
<1> HIDE DEF n, d
<1>8. /\ \A k \in 1..n : k \in 1..Len(claims) \/ k = n
      /\ \A k \in 1..d : k \in 1..Len(stack) \/ k = d
      /\ \A k \in 1..Len(claims) : k \in 1..n
      /\ n \in 1..n /\ n = Len(claims) + 1 /\ d = Len(stack) + 1 /\ d \in Nat
  BY <1>4, <1>5 DEF n, d
<1>9. \A k \in 1..Len(writes) : writes[k].cell # cell
  BY <1>4 DEF WInv, WritesAsClaimed
<1>10. \A k \in 1..Len(stack) : stack[k].cell # cell
  BY <1>4 DEF WInv, Pending
<1>11. Pending'
  <2>1. Len(claims') = Len(writes') + Len(stack')
    BY <1>1, <1>4, <1>5, <1>7, <1>8 DEF WInv, Pending
  <2>2. ASSUME NEW k \in 1..d
        PROVE  \E c \in 1..n : /\ claims'[c].cell = stack'[k].cell
                               /\ claims'[c].len = HeaderLen(stack[k].key)'
    <3>1. CASE k \in 1..Len(stack)
      <4>1. PICK c \in 1..Len(claims) : /\ claims[c].cell = stack[k].cell
                                        /\ claims[c].len = HeaderLen(stack[k].key)
        BY <3>1 DEF WInv, Pending
      <4> QED
        BY <1>4, <1>5, <1>6, <1>8, <3>1, <4>1
    <3>2. CASE k = d
      BY <1>2, <1>4, <1>5, <1>6, <1>8, <3>2
    <3> QED
      BY <1>8, <3>1, <3>2
  <2>3. ASSUME NEW k \in 1..d, NEW w \in 1..Len(writes)
        PROVE  writes[w].cell # stack'[k].cell
    BY <1>2, <1>5, <1>8, <1>9 DEF WInv, Pending
  <2>4. ASSUME NEW k \in 1..d, NEW l \in 1..d, k < l
        PROVE  stack'[k].cell # stack'[l].cell
    <3>1. CASE l \in 1..Len(stack)
      <4>1. k \in 1..Len(stack)
        BY <1>5, <2>4, <3>1
      <4> QED
        BY <1>5, <2>4, <3>1, <4>1 DEF WInv, Pending
    <3>2. CASE l = d
      <4>1. k \in 1..Len(stack)
        BY <1>5, <1>8, <2>4, <3>2
      <4> QED
        BY <1>2, <1>5, <1>10, <3>2, <4>1
    <3> QED
      BY <1>8, <3>1, <3>2
  <2> QED
    BY <1>1, <1>4, <1>5, <2>1, <2>2, <2>3, <2>4 DEF Pending
<1>12. WritesAsClaimed'
  <2>1. ASSUME NEW k \in 1..Len(writes)
        PROVE  \E c \in 1..n : claims'[c].cell = writes[k].cell /\ claims'[c].len = writes[k].len
    <3>1. PICK c \in 1..Len(claims) : /\ claims[c].cell = writes[k].cell
                                      /\ claims[c].len = writes[k].len
      BY DEF WInv, WritesAsClaimed
    <3> QED
      BY <1>4, <1>8, <3>1
  <2> QED
    BY <1>1, <1>4, <2>1 DEF WInv, WritesAsClaimed
<1>13. IInv'
  BY <1>1, CallsIInv
<1> QED
  BY <1>11, <1>12, <1>13 DEF WInv

\* The key's own cell, with its whole subtree written in between.
LEMMA FinishKeyWInv ==
  ASSUME WInv, FinishKey
  PROVE  WInv'
<1>1. PICK content : Write(Top.cell, HeaderLen(Top.key), content)
  BY FinishKeyReturns DEF WInv
<1> DEFINE cell == Top.cell
           d == Len(stack)
           m == Len(writes) + 1
<1>2. /\ IInv /\ tree' = tree /\ claims' = claims /\ SameCalls(d - 1)
      /\ (pc' = "done" => stack' = <<>>)
  BY FinishKeyReturns DEF WInv
<1>3. /\ d \in Nat /\ d >= 1 /\ d \in 1..d
      /\ stack[d].cell = cell /\ stack[d].key = Top.key
  BY <1>2, TopCall, FinishKeyReturns DEF IInv, Top
<1>4. /\ Len(writes) \in Nat /\ m \in Nat /\ Len(writes') = m
      /\ \A k \in 1..Len(writes) : writes'[k] = writes[k]
      /\ writes'[m].cell = cell /\ writes'[m].len = HeaderLen(Top.key)
  BY <1>1, <1>2, WriteAppends DEF IInv
<1>5. /\ Len(stack') = d - 1
      /\ \A k \in 1..(d - 1) : stack'[k].cell = stack[k].cell /\ stack'[k].key = stack[k].key
  BY <1>2 DEF SameCalls
<1>6. \A k \in 1..(d - 1) : HeaderLen(stack[k].key)' = HeaderLen(stack[k].key)
  BY <1>2, <1>5 DEF HeaderLen
<1> HIDE DEF cell
<1>7. PICK own \in 1..Len(claims) :
        claims[own].cell = cell /\ claims[own].len = HeaderLen(Top.key)
  BY <1>3 DEF WInv, Pending
<1>8. \A k \in 1..Len(writes) : writes[k].cell # cell
  BY <1>3 DEF WInv, Pending
<1>9. \A k \in 1..(d - 1) : k \in 1..d /\ stack[k].cell # cell
  <2> SUFFICES ASSUME NEW k \in 1..(d - 1) PROVE k \in 1..d /\ stack[k].cell # cell
    OBVIOUS
  <2>1. k \in 1..d /\ k < d
    BY <1>3
  <2> HIDE DEF d
  <2>2. \A a, b \in 1..d : a < b => stack[a].cell # stack[b].cell
    BY DEF WInv, Pending, d
  <2> QED
    BY <1>3, <2>1, <2>2
<1>10. Len(claims) \in Nat /\ Len(claims) = Len(writes) + d
  BY <1>2 DEF WInv, IInv, TypeOK, Pending
<1> HIDE DEF d, m
<1>11. /\ \A k \in 1..m : k \in 1..Len(writes) \/ k = m
       /\ m = Len(writes) + 1
  BY <1>4 DEF m
<1>12. Pending'
  <2>1. Len(claims') = Len(writes') + Len(stack')
    BY <1>2, <1>3, <1>4, <1>5, <1>10, <1>11
  <2>2. ASSUME NEW k \in 1..(d - 1)
        PROVE  \E c \in 1..Len(claims) : /\ claims[c].cell = stack'[k].cell
                                         /\ claims[c].len = HeaderLen(stack[k].key)'
    <3>1. PICK c \in 1..Len(claims) : /\ claims[c].cell = stack[k].cell
                                      /\ claims[c].len = HeaderLen(stack[k].key)
      BY <1>9 DEF WInv, Pending, d
    <3> QED
      BY <1>5, <1>6, <3>1
  <2>3. ASSUME NEW k \in 1..(d - 1), NEW w \in 1..m
        PROVE  writes'[w].cell # stack'[k].cell
    <3>1. CASE w \in 1..Len(writes)
      <4>1. writes[w].cell # stack[k].cell
        BY <1>9, <3>1 DEF WInv, Pending, d
      <4> QED
        BY <1>4, <1>5, <3>1, <4>1
    <3>2. CASE w = m
      BY <1>4, <1>5, <1>9, <3>2
    <3> QED
      BY <1>11, <3>1, <3>2
  <2>4. ASSUME NEW k \in 1..(d - 1), NEW l \in 1..(d - 1), k < l
        PROVE  stack'[k].cell # stack'[l].cell
    <3>1. stack[k].cell # stack[l].cell
      BY <1>9, <2>4 DEF WInv, Pending, d
    <3> QED
      BY <1>5, <3>1
  <2> QED
    BY <1>2, <1>4, <1>5, <2>1, <2>2, <2>3, <2>4 DEF Pending
<1>13. WritesAsClaimed'
  <2>1. ASSUME NEW k \in 1..m
        PROVE  \E c \in 1..Len(claims) : /\ claims[c].cell = writes'[k].cell
                                         /\ claims[c].len = writes'[k].len
    <3>1. CASE k \in 1..Len(writes)
      BY <1>4, <3>1 DEF WInv, WritesAsClaimed
    <3>2. CASE k = m
      BY <1>4, <1>7, <3>2
    <3> QED
      BY <1>11, <3>1, <3>2
  <2>2. ASSUME NEW k \in 1..m, NEW l \in 1..m, writes'[k].cell = writes'[l].cell
        PROVE  k = l
    <3>1. CASE k \in 1..Len(writes) /\ l \in 1..Len(writes)
      BY <1>4, <2>2, <3>1 DEF WInv, WritesAsClaimed
    <3>2. CASE k = m \/ l = m
      BY <1>4, <1>8, <1>11, <2>2, <3>2
    <3> QED
      BY <1>11, <3>1, <3>2
  <2>3. pc' = "done" => Len(writes') = Len(claims')
    <3>1. pc' = "done" => Len(stack') = 0
      BY <1>2
    <3> QED
      BY <1>2, <1>3, <1>4, <1>5, <1>10, <1>11, <3>1
  <2> QED
    BY <1>2, <1>4, <2>1, <2>2, <2>3 DEF WritesAsClaimed
<1>14. IInv'
  BY <1>2, FinishKeyIInv
<1> QED
  BY <1>12, <1>13, <1>14 DEF WInv

\* A failed claim writes nothing.
LEMMA ClaimFailsWInv ==
  ASSUME WInv, ClaimFails
  PROVE  WInv'
<1>1. /\ pc' = "failed" /\ UNCHANGED <<tree, claims, writes, stack>>
  BY DEF ClaimFails
<1>2. Pending' /\ WritesAsClaimed'
  BY <1>1 DEF WInv, Pending, WritesAsClaimed, HeaderLen
<1>3. IInv'
  BY ClaimFailsIInv DEF WInv
<1> QED
  BY <1>2, <1>3 DEF WInv

LEMMA NextWInv ==
  ASSUME WInv, [Next]_vars
  PROVE  WInv'
<1>1. IInv
  BY DEF WInv
<1>2. CASE \E bytes : Collects(bytes)
  BY <1>2, CollectsWInv
<1>3. CASE \E key, parent : Calls(key, parent)
  BY <1>3, CallsWInv
<1>4. CASE FinishKey
  BY <1>4, FinishKeyWInv
<1>5. CASE ClaimFails
  BY <1>5, ClaimFailsWInv
<1>6. CASE UNCHANGED vars
  <2>1. UNCHANGED <<pc, tree, claims, writes, stack>>
    BY <1>6 DEF vars
  <2>2. Pending'
    BY <2>1 DEF WInv, Pending, HeaderLen
  <2>3. WritesAsClaimed'
    BY <2>1 DEF WInv, WritesAsClaimed
  <2> QED
    BY <1>1, <1>6, <2>2, <2>3, NextIInv DEF WInv
<1> QED
  BY <1>1, <1>2, <1>3, <1>4, <1>5, <1>6, StartRootCalls, WriteDataCollects, WriteValueCollects,
     EnterSubkeyCalls, WriteKeyListCollects, WriteValueListCollects DEF Next

\* Though a key's cell is written long after it is claimed, every write is of a claimed
\* cell and as long as the claim, no cell is written twice, and when export is done
\* none is left unwritten (WritesAsClaimed).
THEOREM WrittenAsClaimed == Spec => []WritesAsClaimed
<1>1. WInv => WritesAsClaimed
  BY DEF WInv
<1> QED
  BY <1>1, InitWInv, NextWInv, PTL DEF Spec

(* ---- what is read back is what was exported ---- *)

\* Among the cells written, W, the one at h holds content.
Holds(W, h, content) == \E k \in 1..Len(W) : W[k].cell = h /\ W[k].content = content

HeaderIn(W, h, key, up) ==
  \E k \in 1..Len(W) : /\ W[k].cell = h /\ W[k].content.kind = "key"
                       /\ W[k].content.key = key /\ W[k].content.parent = up

ValueIn(W, h, size) ==
  \E k \in 1..Len(W) : /\ W[k].cell = h /\ W[k].content.kind = "value" /\ W[k].content.size = size
                       /\ Holds(W, W[k].content.data, [kind |-> "data", size |-> size])

SubkeysIn(W, cells, subs, up) == \A j \in 1..Len(cells) : HeaderIn(W, cells[j], subs[j], up)
ValuesIn(W, cells, vals) == \A j \in 1..Len(cells) : ValueIn(W, cells[j], vals[j].size)

KeyListIn(W, h, subs, up) ==
  \E k \in 1..Len(W) : /\ W[k].cell = h /\ W[k].content.kind = "keylist"
                       /\ Len(W[k].content.cells) = Len(subs)
                       /\ SubkeysIn(W, W[k].content.cells, subs, up)

ValueListIn(W, h, vals) ==
  \E k \in 1..Len(W) : /\ W[k].cell = h /\ W[k].content.kind = "valuelist"
                       /\ Len(W[k].content.cells) = Len(vals)
                       /\ ValuesIn(W, W[k].content.cells, vals)

\* What a call of makecell for a key with these subkeys and values has collected.
CallIn(W, f, subs, vals) ==
  /\ Len(f.keycells) <= Len(subs) /\ SubkeysIn(W, f.keycells, subs, f.cell)
  /\ Len(f.valcells) <= Len(vals) /\ ValuesIn(W, f.valcells, vals)
  /\ f.data # Null => Holds(W, f.data, [kind |-> "data", size |-> vals[Len(f.valcells) + 1].size])
  /\ f.keylist # Null => KeyListIn(W, f.keylist, subs, f.cell)
  /\ f.valuelist # Null => ValueListIn(W, f.valuelist, vals)

\* A header w and what it names.
LeadsIn(W, w, subs, vals) ==
  /\ w.content.subkeys = Len(subs) /\ KeyListIn(W, w.content.keylist, subs, w.cell)
  /\ w.content.values = Len(vals) /\ ValueListIn(W, w.content.valuelist, vals)

\* Each call was made for the next subkey of the call around it, which will get the
\* cell it returns.
Called(caller, f, subs) ==
  /\ f.parent = caller.cell
  /\ Len(caller.keycells) < Len(subs)
  /\ f.key = subs[Len(caller.keycells) + 1]

Linked ==
  /\ \A k \in 1..Len(writes) : writes[k].content.kind = "key" =>
       LeadsIn(writes, writes[k], Subkeys(writes[k].content.key), Values(writes[k].content.key))
  /\ \A k \in 1..Len(stack) : CallIn(writes, stack[k], Subkeys(stack[k].key), Values(stack[k].key))
  /\ stack # <<>> => stack[1].key = Root /\ stack[1].parent = Null
  /\ \A k \in 1..(Len(stack) - 1) : Called(stack[k], stack[k + 1], Subkeys(stack[k].key))
  /\ pc = "done" => HeaderIn(writes, keycell, Root, Null)

LInv == WInv /\ Linked

\* What is written stays written.
Extends(W, V) ==
  /\ Len(W) \in Nat /\ Len(V) \in Nat /\ Len(W) <= Len(V)
  /\ \A k \in 1..Len(W) : V[k] = W[k]

LEMMA HeldStays ==
  ASSUME NEW W, NEW V, Extends(W, V)
  PROVE  /\ \A h, content : Holds(W, h, content) => Holds(V, h, content)
         /\ \A h, key, up : HeaderIn(W, h, key, up) => HeaderIn(V, h, key, up)
         /\ \A h, size : ValueIn(W, h, size) => ValueIn(V, h, size)
<1>1. \A k \in 1..Len(W) : k \in 1..Len(V) /\ V[k] = W[k]
  BY DEF Extends
<1>2. \A h, content : Holds(W, h, content) => Holds(V, h, content)
  BY <1>1 DEF Holds
<1>3. \A h, key, up : HeaderIn(W, h, key, up) => HeaderIn(V, h, key, up)
  BY <1>1 DEF HeaderIn
<1>4. \A h, size : ValueIn(W, h, size) => ValueIn(V, h, size)
  BY <1>1, <1>2 DEF ValueIn
<1> QED
  BY <1>2, <1>3, <1>4

LEMMA ListedStays ==
  ASSUME NEW W, NEW V, Extends(W, V)
  PROVE  /\ \A cells, subs, up : SubkeysIn(W, cells, subs, up) => SubkeysIn(V, cells, subs, up)
         /\ \A cells, vals : ValuesIn(W, cells, vals) => ValuesIn(V, cells, vals)
         /\ \A h, subs, up : KeyListIn(W, h, subs, up) => KeyListIn(V, h, subs, up)
         /\ \A h, vals : ValueListIn(W, h, vals) => ValueListIn(V, h, vals)
<1>1. \A cells, subs, up : SubkeysIn(W, cells, subs, up) => SubkeysIn(V, cells, subs, up)
  BY HeldStays DEF SubkeysIn
<1>2. \A cells, vals : ValuesIn(W, cells, vals) => ValuesIn(V, cells, vals)
  BY HeldStays DEF ValuesIn
<1>3. \A h, subs, up : KeyListIn(W, h, subs, up) => KeyListIn(V, h, subs, up)
  BY <1>1 DEF KeyListIn, Extends
<1>4. \A h, vals : ValueListIn(W, h, vals) => ValueListIn(V, h, vals)
  BY <1>2 DEF ValueListIn, Extends
<1> QED
  BY <1>1, <1>2, <1>3, <1>4

LEMMA LinksStay ==
  ASSUME NEW W, NEW V, Extends(W, V)
  PROVE  /\ \A f, subs, vals : CallIn(W, f, subs, vals) => CallIn(V, f, subs, vals)
         /\ \A w, subs, vals : LeadsIn(W, w, subs, vals) => LeadsIn(V, w, subs, vals)
<1>1. \A f, subs, vals : CallIn(W, f, subs, vals) => CallIn(V, f, subs, vals)
  BY HeldStays, ListedStays DEF CallIn
<1>2. \A w, subs, vals : LeadsIn(W, w, subs, vals) => LeadsIn(V, w, subs, vals)
  BY ListedStays DEF LeadsIn
<1> QED
  BY <1>1, <1>2

\* A write adds one content to those held.
LEMMA WriteHolds ==
  ASSUME IInv, NEW cell, NEW bytes, NEW content, Write(cell, bytes, content)
  PROVE  /\ Extends(writes, writes') /\ Holds(writes', cell, content)
         /\ \A k \in 1..Len(writes') :
              \/ k \in 1..Len(writes) /\ writes'[k] = writes[k]
              \/ writes'[k].cell = cell /\ writes'[k].content = content
<1>1. /\ Len(writes) \in Nat /\ Len(writes') = Len(writes) + 1
      /\ \A k \in 1..Len(writes) : writes'[k] = writes[k]
      /\ writes'[Len(writes) + 1].cell = cell
      /\ writes'[Len(writes) + 1].content = content
  BY WriteAppends DEF IInv
<1>2. /\ Len(writes) + 1 \in 1..Len(writes')
      /\ \A k \in 1..Len(writes') : k \in 1..Len(writes) \/ k = Len(writes) + 1
  BY <1>1
<1>3. Extends(writes, writes')
  BY <1>1 DEF Extends
<1>4. Holds(writes', cell, content)
  BY <1>1, <1>2 DEF Holds
<1> QED
  BY <1>1, <1>2, <1>3, <1>4

\* The innermost call writes something other than a header and keeps its handle.
LEMMA CollectsLinked ==
  ASSUME LInv, Building, UNCHANGED <<pc, tree, keycell>>,
         NEW cell, NEW bytes, NEW content, Write(cell, bytes, content), content.kind # "key",
         NEW frame \in Call, ReplaceTop(frame),
         frame.key = Top.key, frame.cell = Top.cell, frame.parent = Top.parent,
         frame.keycells = Top.keycells,
         CallIn(writes', frame, Subkeys(Top.key), Values(Top.key))
  PROVE  Linked'
<1> DEFINE n == Len(stack)
<1>1. IInv /\ TypeOK /\ Linked
  BY DEF LInv, WInv, IInv
<1>2. n \in Nat /\ n >= 1 /\ Top = stack[n] /\ stack # <<>>
  BY <1>1, TopCall DEF Top, Building
<1>3. /\ stack' \in Seq(Call) /\ Len(stack') = n /\ stack'[n] = frame
      /\ \A k \in 1..(n - 1) : stack'[k] = stack[k]
  BY <1>1, TopReplaced
<1>4. /\ Extends(writes, writes')
      /\ \A k \in 1..Len(writes') :
           \/ k \in 1..Len(writes) /\ writes'[k] = writes[k]
           \/ writes'[k].content.kind # "key"
  BY <1>1, WriteHolds
<1> HIDE DEF n, Call
<1>5. /\ \A k \in 1..n : k \in 1..(n - 1) \/ k = n
      /\ \A k \in 1..(n - 1) : k \in 1..n /\ k + 1 \in 1..n
      /\ 1 \in 1..n /\ n \in 1..n
  BY <1>2
<1>6. /\ \A key : Subkeys(key)' = tree.subkeys[key] /\ Subkeys(key) = tree.subkeys[key]
      /\ \A key : Values(key)' = tree.values[key] /\ Values(key) = tree.values[key]
  BY DEF Subkeys, Values
<1>7. /\ \A k \in 1..n : /\ stack'[k].key = stack[k].key /\ stack'[k].cell = stack[k].cell
                         /\ stack'[k].parent = stack[k].parent
                         /\ stack'[k].keycells = stack[k].keycells
  BY <1>2, <1>3, <1>5
<1>8. \A k \in 1..Len(writes') : writes'[k].content.kind = "key" =>
        LeadsIn(writes', writes'[k], tree.subkeys[writes'[k].content.key],
                                     tree.values[writes'[k].content.key])
  BY <1>1, <1>4, LinksStay DEF Linked, Subkeys, Values
<1>9. \A k \in 1..n : CallIn(writes', stack'[k], tree.subkeys[stack'[k].key], tree.values[stack'[k].key])
  <2>1. CallIn(writes', frame, tree.subkeys[frame.key], tree.values[frame.key])
    BY DEF Subkeys, Values
  <2>2. \A k \in 1..(n - 1) :
          CallIn(writes', stack[k], tree.subkeys[stack[k].key], tree.values[stack[k].key])
    BY <1>1, <1>4, <1>5, LinksStay DEF Linked, Subkeys, Values, n
  <2> QED
    BY <1>3, <1>5, <2>1, <2>2
<1>10. stack'[1].key = tree.root /\ stack'[1].parent = Null
  BY <1>1, <1>2, <1>5, <1>7 DEF Linked, Root
<1>11. \A k \in 1..(n - 1) : Called(stack'[k], stack'[k + 1], tree.subkeys[stack'[k].key])
  BY <1>1, <1>5, <1>7 DEF Linked, Called, Subkeys, n
<1>12. pc' # "done"
  BY DEF Building
<1> QED
  BY <1>3, <1>8, <1>9, <1>10, <1>11, <1>12 DEF Linked, Subkeys, Values, Root

LEMMA TopIsLinked ==
  ASSUME LInv, Building
  PROVE  CallIn(writes, Top, Subkeys(Top.key), Values(Top.key))
<1>1. Len(stack) \in 1..Len(stack)
  BY TopCall DEF LInv, WInv, IInv
<1> QED
  BY <1>1 DEF LInv, Linked, Top

LEMMA WriteDataLinked ==
  ASSUME LInv, WriteData
  PROVE  Linked'
<1> DEFINE cell == ClaimedCell(NextValue.size)
           content == [kind |-> "data", size |-> NextValue.size]
           frame == [Top EXCEPT !.data = cell]
           subs == Subkeys(Top.key)
           vals == Values(Top.key)
<1>1. /\ IInv /\ TypeOK /\ tree \in Trees /\ Building /\ ValuesLeft /\ UNCHANGED <<pc, tree, keycell>>
      /\ Claim(NextValue.size) /\ Write(cell, NextValue.size, content) /\ ReplaceTop(frame)
  BY DEF WriteData, ClaimWrite, LInv, WInv, IInv
<1>2. NextValue.size \in Nat /\ Top \in Call
  BY <1>1, TopTypes, TopCall
<1>3. cell \in Nat
  BY <1>1, <1>2, CellAfterClaim
<1>4. /\ frame \in Call /\ frame.key = Top.key /\ frame.cell = Top.cell /\ frame.parent = Top.parent
      /\ frame.keycells = Top.keycells /\ frame.valcells = Top.valcells /\ frame.data = cell
      /\ frame.keylist = Top.keylist /\ frame.valuelist = Top.valuelist
  BY <1>2, <1>3 DEF Call, Cell
<1>5. content.kind # "key" /\ NextValue = vals[Len(Top.valcells) + 1]
  BY DEF NextValue
<1>6. Extends(writes, writes') /\ Holds(writes', cell, [kind |-> "data", size |-> NextValue.size])
  BY <1>1, WriteHolds
<1> HIDE DEF cell, content, frame, subs, vals
<1>7. CallIn(writes', Top, subs, vals)
  BY <1>1, <1>6, TopIsLinked, LinksStay DEF subs, vals, LInv
<1>8. CallIn(writes', frame, subs, vals)
  BY <1>4, <1>5, <1>6, <1>7 DEF CallIn
<1> QED
  BY <1>1, <1>4, <1>5, <1>8, CollectsLinked DEF subs, vals

LEMMA WriteValueLinked ==
  ASSUME LInv, WriteValue
  PROVE  Linked'
<1> DEFINE bytes == ValueLen + roundup(NextValue.name, 4)
           cell == ClaimedCell(bytes)
           content == [kind |-> "value", size |-> NextValue.size, data |-> Top.data]
           frame == [Top EXCEPT !.valcells = Append(@, cell), !.data = Null]
           subs == Subkeys(Top.key)
           vals == Values(Top.key)
<1>1. /\ IInv /\ TypeOK /\ tree \in Trees /\ Building /\ ValuesLeft /\ UNCHANGED <<pc, tree, keycell>>
      /\ Top.data # Null
      /\ Claim(bytes) /\ Write(cell, bytes, content) /\ ReplaceTop(frame)
  BY DEF WriteValue, ClaimWrite, LInv, WInv, IInv
<1>2. /\ NextValue.name \in Nat /\ Top \in Call /\ Top.valcells \in Seq(Nat)
      /\ Top.key \in DOMAIN tree.subkeys
  BY <1>1, TopTypes, TopCall
<1>3. bytes \in Nat
  <2>1. NextValue.name \in Nat
    BY <1>2
  <2>2. roundup(NextValue.name, 4) \in Nat
    BY <2>1, RoundupUp
  <2> QED
    BY <2>2, Sizes
<1> HIDE DEF bytes
<1>4. cell \in Nat
  BY <1>1, <1>3, CellAfterClaim
<1> DEFINE cells == Append(Top.valcells, cell)
<1>5. /\ cells \in Seq(Nat) /\ Len(Top.valcells) \in Nat /\ Len(cells) = Len(Top.valcells) + 1
      /\ \A j \in 1..Len(Top.valcells) : cells[j] = Top.valcells[j]
      /\ cells[Len(Top.valcells) + 1] = cell
  BY <1>2, <1>4, Appended
<1> HIDE DEF cells, cell
<1>6. /\ frame \in Call /\ frame.key = Top.key /\ frame.cell = Top.cell /\ frame.parent = Top.parent
      /\ frame.keycells = Top.keycells /\ frame.valcells = cells /\ frame.data = Null
      /\ frame.keylist = Top.keylist /\ frame.valuelist = Top.valuelist
  BY <1>2, <1>5 DEF Call, Cell, cells
<1>7. /\ content.kind = "value" /\ content.size = NextValue.size /\ content.data = Top.data
      /\ NextValue = vals[Len(Top.valcells) + 1]
  BY DEF NextValue
<1>8. Extends(writes, writes') /\ Holds(writes', cell, content)
  BY <1>1, WriteHolds
<1> HIDE DEF content, frame, subs, vals
<1>9. CallIn(writes', Top, subs, vals)
  BY <1>1, <1>8, TopIsLinked, LinksStay DEF subs, vals, LInv
<1>10. ValueIn(writes', cell, NextValue.size)
  <2>1. Holds(writes', Top.data, [kind |-> "data", size |-> NextValue.size])
    BY <1>1, <1>7, <1>9 DEF CallIn
  <2>2. PICK k \in 1..Len(writes') : writes'[k].cell = cell /\ writes'[k].content = content
    BY <1>8 DEF Holds
  <2> QED
    BY <1>7, <2>1, <2>2 DEF ValueIn
<1>11. Len(cells) <= Len(vals) /\ ValuesIn(writes', cells, vals)
  <2>1. Len(Top.valcells) < Len(vals) /\ Len(vals) \in Nat
    BY <1>1, <1>2, TreeTypes DEF ValuesLeft, vals
  <2>2. \A j \in 1..Len(cells) : j \in 1..Len(Top.valcells) \/ j = Len(Top.valcells) + 1
    BY <1>5
  <2>3. \A j \in 1..Len(Top.valcells) : ValueIn(writes', Top.valcells[j], vals[j].size)
    BY <1>9 DEF CallIn, ValuesIn
  <2>4. \A j \in 1..Len(cells) : ValueIn(writes', cells[j], vals[j].size)
    BY <1>5, <1>7, <1>10, <2>2, <2>3
  <2> QED
    BY <1>5, <2>1, <2>4 DEF ValuesIn
<1>12. CallIn(writes', frame, subs, vals)
  BY <1>6, <1>9, <1>11 DEF CallIn
<1>13. content.kind # "key"
  BY <1>7
<1> QED
  BY <1>1, <1>6, <1>12, <1>13, CollectsLinked DEF subs, vals

LEMMA WriteKeyListLinked ==
  ASSUME LInv, WriteKeyList
  PROVE  Linked'
<1> DEFINE bytes == 4 + 8 * Len(Top.keycells)
           cell == ClaimedCell(bytes)
           content == [kind |-> "keylist", cells |-> Top.keycells]
           frame == [Top EXCEPT !.keylist = cell]
           subs == Subkeys(Top.key)
           vals == Values(Top.key)
<1>1. /\ IInv /\ TypeOK /\ tree \in Trees /\ Building /\ ListsLeft /\ UNCHANGED <<pc, tree, keycell>>
      /\ Claim(bytes) /\ Write(cell, bytes, content) /\ ReplaceTop(frame)
  BY DEF WriteKeyList, ClaimWrite, LInv, WInv, IInv
<1>2. Top \in Call /\ Top.keycells \in Seq(Nat) /\ Top.key \in DOMAIN tree.subkeys
  BY <1>1, TopTypes, TopCall
<1>3. bytes \in Nat
  BY <1>2
<1> HIDE DEF bytes
<1>4. cell \in Nat
  BY <1>1, <1>3, CellAfterClaim
<1>5. /\ frame \in Call /\ frame.key = Top.key /\ frame.cell = Top.cell /\ frame.parent = Top.parent
      /\ frame.keycells = Top.keycells /\ frame.valcells = Top.valcells /\ frame.data = Top.data
      /\ frame.keylist = cell /\ frame.valuelist = Top.valuelist
  BY <1>2, <1>4 DEF Call, Cell
<1>6. content.kind = "keylist" /\ content.cells = Top.keycells
  OBVIOUS
<1>7. Extends(writes, writes') /\ Holds(writes', cell, content)
  BY <1>1, WriteHolds
<1> HIDE DEF cell, content, frame, subs, vals
<1>8. CallIn(writes', Top, subs, vals)
  BY <1>1, <1>7, TopIsLinked, LinksStay DEF subs, vals, LInv
<1>9. KeyListIn(writes', cell, subs, Top.cell)
  <2>1. Len(Top.keycells) \in Nat /\ Len(subs) \in Nat /\ ~(Len(Top.keycells) < Len(subs))
    BY <1>1, <1>2, TreeTypes DEF ListsLeft, KeysLeft, subs
  <2>2. Len(Top.keycells) = Len(subs) /\ SubkeysIn(writes', Top.keycells, subs, Top.cell)
    BY <1>8, <2>1 DEF CallIn
  <2>3. PICK k \in 1..Len(writes') : writes'[k].cell = cell /\ writes'[k].content = content
    BY <1>7 DEF Holds
  <2> QED
    BY <1>6, <2>2, <2>3 DEF KeyListIn
<1>10. CallIn(writes', frame, subs, vals)
  BY <1>5, <1>8, <1>9 DEF CallIn
<1>11. content.kind # "key"
  BY <1>6
<1> QED
  BY <1>1, <1>5, <1>10, <1>11, CollectsLinked DEF subs, vals

LEMMA WriteValueListLinked ==
  ASSUME LInv, WriteValueList
  PROVE  Linked'
<1> DEFINE bytes == 4 * Len(Top.valcells)
           cell == ClaimedCell(bytes)
           content == [kind |-> "valuelist", cells |-> Top.valcells]
           frame == [Top EXCEPT !.valuelist = cell]
           subs == Subkeys(Top.key)
           vals == Values(Top.key)
<1>1. /\ IInv /\ TypeOK /\ tree \in Trees /\ Building /\ ListsLeft /\ UNCHANGED <<pc, tree, keycell>>
      /\ Claim(bytes) /\ Write(cell, bytes, content) /\ ReplaceTop(frame)
  BY DEF WriteValueList, ClaimWrite, LInv, WInv, IInv
<1>2. Top \in Call /\ Top.valcells \in Seq(Nat) /\ Top.key \in DOMAIN tree.subkeys
  BY <1>1, TopTypes, TopCall
<1>3. bytes \in Nat
  BY <1>2
<1> HIDE DEF bytes
<1>4. cell \in Nat
  BY <1>1, <1>3, CellAfterClaim
<1>5. /\ frame \in Call /\ frame.key = Top.key /\ frame.cell = Top.cell /\ frame.parent = Top.parent
      /\ frame.keycells = Top.keycells /\ frame.valcells = Top.valcells /\ frame.data = Top.data
      /\ frame.keylist = Top.keylist /\ frame.valuelist = cell
  BY <1>2, <1>4 DEF Call, Cell
<1>6. content.kind = "valuelist" /\ content.cells = Top.valcells
  OBVIOUS
<1>7. Extends(writes, writes') /\ Holds(writes', cell, content)
  BY <1>1, WriteHolds
<1> HIDE DEF cell, content, frame, subs, vals
<1>8. CallIn(writes', Top, subs, vals)
  BY <1>1, <1>7, TopIsLinked, LinksStay DEF subs, vals, LInv
<1>9. ValueListIn(writes', cell, vals)
  <2>1. Len(Top.valcells) \in Nat /\ Len(vals) \in Nat /\ ~(Len(Top.valcells) < Len(vals))
    BY <1>1, <1>2, TopTypes, TreeTypes DEF ListsLeft, ValuesLeft, vals
  <2>2. Len(Top.valcells) = Len(vals) /\ ValuesIn(writes', Top.valcells, vals)
    BY <1>8, <2>1 DEF CallIn
  <2>3. PICK k \in 1..Len(writes') : writes'[k].cell = cell /\ writes'[k].content = content
    BY <1>7 DEF Holds
  <2> QED
    BY <1>6, <2>2, <2>3 DEF ValueListIn
<1>10. CallIn(writes', frame, subs, vals)
  BY <1>5, <1>8, <1>9 DEF CallIn
<1>11. content.kind # "key"
  BY <1>6
<1> QED
  BY <1>1, <1>5, <1>10, <1>11, CollectsLinked DEF subs, vals

\* A call that begins has collected nothing.
LEMMA NewCallLinked ==
  ASSUME LInv, NEW key, NEW parent, Calls(key, parent),
         stack = <<>> => key = Root /\ parent = Null,
         stack # <<>> => Called(Top, Frame(key, ClaimedCell(HeaderLen(key)), parent), Subkeys(Top.key))
  PROVE  Linked'
<1> DEFINE frame == Frame(key, ClaimedCell(HeaderLen(key)), parent)
           n == Len(stack)
           d == Len(stack) + 1
<1>1. /\ Linked /\ stack' = Append(stack, frame) /\ frame \in Call /\ key \in DOMAIN tree.subkeys
      /\ pc' # "done" /\ UNCHANGED <<tree, writes>> /\ stack \in Seq(Call) /\ tree \in Trees
  BY DEF Calls, LInv, WInv, IInv, TypeOK
<1>2. /\ frame.key = key /\ frame.parent = parent /\ frame.keycells = <<>> /\ frame.valcells = <<>>
      /\ frame.data = Null /\ frame.keylist = Null /\ frame.valuelist = Null
  BY DEF Frame
<1> HIDE DEF frame
<1>3. /\ n \in Nat /\ Len(stack') = d /\ stack' # <<>>
      /\ \A k \in 1..n : stack'[k] = stack[k]
      /\ stack'[d] = frame
  BY <1>1, Appended
<1>4. CallIn(writes, frame, tree.subkeys[key], tree.values[key])
  <2>1. Len(tree.subkeys[key]) \in Nat /\ Len(tree.values[key]) \in Nat
    BY <1>1, TreeTypes DEF Subkeys, Values
  <2>2. Len(frame.keycells) = 0 /\ Len(frame.valcells) = 0
    BY <1>2
  <2>3. SubkeysIn(writes, frame.keycells, tree.subkeys[key], frame.cell)
    BY <2>2 DEF SubkeysIn
  <2>4. ValuesIn(writes, frame.valcells, tree.values[key])
    BY <2>2 DEF ValuesIn
  <2> QED
    BY <1>2, <2>1, <2>2, <2>3, <2>4 DEF CallIn
<1> HIDE DEF d
<1>5. /\ \A k \in 1..d : k \in 1..n \/ k = d
      /\ \A k \in 1..(d - 1) : \/ k \in 1..(n - 1) /\ k \in 1..n /\ k + 1 \in 1..n
                               \/ k = n /\ k \in 1..n /\ k + 1 = d
      /\ d = n + 1 /\ 1 \in 1..d
  BY <1>3 DEF d
<1>6. \A k \in 1..d : CallIn(writes, stack'[k], tree.subkeys[stack'[k].key], tree.values[stack'[k].key])
  BY <1>1, <1>2, <1>3, <1>4, <1>5 DEF Linked, Subkeys, Values
<1>7. stack'[1].key = tree.root /\ stack'[1].parent = Null
  <2>1. CASE stack = <<>>
    BY <1>2, <1>3, <1>5, <2>1 DEF Root
  <2>2. CASE stack # <<>>
    <3>1. 1 \in 1..n
      BY <1>1, <2>2
    <3> QED
      BY <1>1, <1>3, <2>2, <3>1 DEF Linked, Root
  <2> QED
    BY <2>1, <2>2
<1>8. \A k \in 1..(d - 1) : Called(stack'[k], stack'[k + 1], tree.subkeys[stack'[k].key])
  <2>1. ASSUME NEW k \in 1..(d - 1), k \in 1..(n - 1), k + 1 \in 1..n
        PROVE  Called(stack'[k], stack'[k + 1], tree.subkeys[stack'[k].key])
    BY <1>1, <1>3, <1>5, <2>1 DEF Linked, Subkeys
  <2>2. ASSUME NEW k \in 1..(d - 1), k = n, k \in 1..n, k + 1 = d
        PROVE  Called(stack'[k], stack'[k + 1], tree.subkeys[stack'[k].key])
    <3>1. stack # <<>> /\ stack'[k] = Top /\ stack'[k + 1] = frame
      BY <1>3, <2>2 DEF Top
    <3> QED
      BY <3>1 DEF Subkeys, frame
  <2> QED
    BY <1>5, <2>1, <2>2
<1>9. \A k \in 1..Len(writes) : writes[k].content.kind = "key" =>
        LeadsIn(writes, writes[k], tree.subkeys[writes[k].content.key], tree.values[writes[k].content.key])
  BY <1>1 DEF Linked, Subkeys, Values
<1> QED
  BY <1>1, <1>3, <1>6, <1>7, <1>8, <1>9 DEF Linked, Subkeys, Values, Root

\* The header names the lists, and the call around it receives the header's cell.
LEMMA FinishKeyLinked ==
  ASSUME LInv, FinishKey
  PROVE  Linked'
<1> DEFINE n == Len(stack)
           w == HeaderContent(Top)
           subs == Subkeys(Top.key)
           vals == Values(Top.key)
<1>1. /\ IInv /\ TypeOK /\ tree \in Trees /\ Linked /\ Building /\ tree' = tree
      /\ Top.keylist # Null /\ Top.valuelist # Null
      /\ Write(Top.cell, HeaderLen(Top.key), w)
      /\ stack' = ReturnTo(Under, Top.cell)
      /\ pc' = (IF Under = <<>> THEN "done" ELSE pc)
      /\ keycell' = (IF Under = <<>> THEN Top.cell ELSE keycell)
  BY DEF FinishKey, LInv, WInv, IInv
<1>2. /\ w.kind = "key" /\ w.key = Top.key /\ w.parent = Top.parent
      /\ w.subkeys = Len(subs) /\ w.keylist = Top.keylist
      /\ w.values = Len(vals) /\ w.valuelist = Top.valuelist
  BY DEF HeaderContent
<1>3. /\ n \in Nat /\ n >= 1 /\ Top = stack[n] /\ stack # <<>> /\ Top.cell \in Nat
      /\ Under \in Seq(Call) /\ Len(Under) = n - 1
      /\ \A k \in 1..(n - 1) : Under[k] = stack[k]
  BY <1>1, TopCall, TopTypes DEF Top, Building
<1>4. /\ Extends(writes, writes') /\ Holds(writes', Top.cell, w)
      /\ \A k \in 1..Len(writes') :
           \/ k \in 1..Len(writes) /\ writes'[k] = writes[k]
           \/ writes'[k].cell = Top.cell /\ writes'[k].content = w
  BY <1>1, WriteHolds
<1> HIDE DEF n, w, subs, vals
<1>5. CallIn(writes', Top, subs, vals)
  BY <1>1, <1>4, TopIsLinked, LinksStay DEF subs, vals
<1>6. \A k \in 1..Len(writes') : writes'[k].content.kind = "key" =>
        LeadsIn(writes', writes'[k], tree.subkeys[writes'[k].content.key],
                                     tree.values[writes'[k].content.key])
  <2>1. ASSUME NEW k \in 1..Len(writes), writes'[k] = writes[k], writes[k].content.kind = "key"
        PROVE  LeadsIn(writes', writes[k], tree.subkeys[writes[k].content.key],
                                           tree.values[writes[k].content.key])
    BY <1>1, <1>4, <2>1, LinksStay DEF Linked, Subkeys, Values
  <2>2. ASSUME NEW k \in 1..Len(writes'), writes'[k].cell = Top.cell, writes'[k].content = w
        PROVE  LeadsIn(writes', writes'[k], tree.subkeys[writes'[k].content.key],
                                            tree.values[writes'[k].content.key])
    <3>1. KeyListIn(writes', Top.keylist, subs, Top.cell) /\ ValueListIn(writes', Top.valuelist, vals)
      BY <1>1, <1>5 DEF CallIn
    <3>2. tree.subkeys[w.key] = subs /\ tree.values[w.key] = vals
      BY <1>2 DEF subs, vals, Subkeys, Values
    <3> QED
      BY <1>2, <2>2, <3>1, <3>2 DEF LeadsIn
  <2> QED
    BY <1>4, <2>1, <2>2
<1>7. HeaderIn(writes', Top.cell, Top.key, Top.parent)
  BY <1>2, <1>4 DEF Holds, HeaderIn
<1>8. CASE Under = <<>>
  <2>1. stack' = <<>> /\ Len(stack') = 0 /\ keycell' = Top.cell
    BY <1>1, <1>8 DEF ReturnTo
  <2>2. n = 1
    BY <1>3, <1>8
  <2>3. Top.key = tree.root /\ Top.parent = Null
    BY <1>1, <1>3, <2>2 DEF Linked, Root
  <2>4. HeaderIn(writes', keycell', tree.root, Null)
    BY <1>7, <2>1, <2>3
  <2>5. /\ \A k \in 1..Len(stack') : FALSE
        /\ \A k \in 1..(Len(stack') - 1) : FALSE
    BY <2>1
  <2> QED
    BY <1>1, <1>6, <2>1, <2>4, <2>5 DEF Linked, Subkeys, Values, Root
<1>9. CASE Under # <<>>
  <2> DEFINE m == n - 1
             caller == stack[m]
             frame == [caller EXCEPT !.keycells = Append(@, Top.cell)]
             cells == Append(caller.keycells, Top.cell)
             outer == tree.subkeys[caller.key]
  <2>1. m \in Nat /\ m >= 1 /\ m \in 1..n /\ m \in 1..m /\ m = Len(Under) /\ m + 1 = n
    BY <1>3, <1>9
  <2>2. /\ \A k \in 1..m : k \in 1..n /\ (k \in 1..(m - 1) \/ k = m)
        /\ \A k \in 1..(m - 1) : k \in 1..m /\ k + 1 \in 1..m /\ k \in 1..(n - 1)
        /\ m \in 1..(n - 1) /\ 1 \in 1..m
    BY <2>1
  <2> HIDE DEF m
  <2>3. caller = Under[m] /\ caller \in Call
    BY <1>3, <2>1, <2>2, ElementOf
  <2> HIDE DEF caller
  <2>4. /\ cells \in Seq(Nat) /\ Len(caller.keycells) \in Nat /\ Len(cells) = Len(caller.keycells) + 1
        /\ \A j \in 1..Len(caller.keycells) : cells[j] = caller.keycells[j]
        /\ cells[Len(caller.keycells) + 1] = Top.cell
    <3>1. caller.keycells \in Seq(Nat)
      BY <2>3 DEF Call
    <3> QED
      BY <1>3, <3>1, Appended
  <2>5. /\ frame.key = caller.key /\ frame.cell = caller.cell /\ frame.parent = caller.parent
        /\ frame.keycells = cells /\ frame.valcells = caller.valcells /\ frame.data = caller.data
        /\ frame.keylist = caller.keylist /\ frame.valuelist = caller.valuelist
        /\ frame \in Call
    BY <2>3, <2>4 DEF Call
  <2>6. stack' = [Under EXCEPT ![m] = frame]
    BY <1>1, <1>9, <2>1, <2>3 DEF ReturnTo
  <2> HIDE DEF frame, cells, Call
  <2>7. /\ Len(stack') = m /\ stack' # <<>> /\ stack'[m] = frame
        /\ \A k \in 1..(m - 1) : stack'[k] = stack[k]
    <3>1. /\ Len(stack') = m /\ stack'[m] = frame
          /\ \A k \in 1..(m - 1) : stack'[k] = Under[k]
      BY <1>3, <2>1, <2>5, <2>6
    <3> QED
      BY <1>3, <2>1, <2>2, <3>1
  <2>8. Called(caller, Top, outer)
    BY <1>1, <1>3, <2>1, <2>2 DEF Linked, Subkeys, caller, n
  <2>9. CallIn(writes', caller, outer, tree.values[caller.key])
    BY <1>1, <1>4, <2>1, LinksStay DEF Linked, Subkeys, Values, caller, n
  <2>10. Len(outer) \in Nat
    <3>1. caller.key \in DOMAIN tree.subkeys
      BY <2>3 DEF Call
    <3> QED
      BY <1>1, <3>1, TreeTypes DEF Subkeys
  <2> HIDE DEF outer
  <2>11. Len(cells) <= Len(outer) /\ SubkeysIn(writes', cells, outer, caller.cell)
    <3>1. Len(caller.keycells) < Len(outer)
      BY <2>8 DEF Called
    <3>2. HeaderIn(writes', Top.cell, outer[Len(caller.keycells) + 1], caller.cell)
      BY <1>7, <2>8 DEF Called
    <3>3. \A j \in 1..Len(caller.keycells) : HeaderIn(writes', caller.keycells[j], outer[j], caller.cell)
      BY <2>9 DEF CallIn, SubkeysIn
    <3>4. \A j \in 1..Len(cells) : j \in 1..Len(caller.keycells) \/ j = Len(caller.keycells) + 1
      BY <2>4
    <3>5. \A j \in 1..Len(cells) : HeaderIn(writes', cells[j], outer[j], caller.cell)
      BY <2>4, <3>2, <3>3, <3>4
    <3> QED
      BY <2>4, <2>10, <3>1, <3>5 DEF SubkeysIn
  <2>12. CallIn(writes', frame, outer, tree.values[caller.key])
    BY <2>5, <2>9, <2>11 DEF CallIn
  <2>13. \A k \in 1..m : CallIn(writes', stack'[k], tree.subkeys[stack'[k].key], tree.values[stack'[k].key])
    <3>1. \A k \in 1..(m - 1) :
            CallIn(writes', stack[k], tree.subkeys[stack[k].key], tree.values[stack[k].key])
      BY <1>1, <1>4, <2>2, LinksStay DEF Linked, Subkeys, Values, n
    <3> QED
      BY <2>2, <2>5, <2>7, <2>12, <3>1 DEF outer
  <2>14. /\ \A k \in 1..m : stack'[k].key = stack[k].key /\ stack'[k].parent = stack[k].parent
                            /\ stack'[k].cell = stack[k].cell
    BY <2>2, <2>5, <2>7 DEF caller
  <2>15. stack'[1].key = tree.root /\ stack'[1].parent = Null
    BY <1>1, <1>3, <2>2, <2>14 DEF Linked, Root
  <2>16. \A k \in 1..(m - 1) : Called(stack'[k], stack'[k + 1], tree.subkeys[stack'[k].key])
    <3>1. \A k \in 1..(m - 1) : Called(stack[k], stack[k + 1], tree.subkeys[stack[k].key])
      BY <1>1, <2>2 DEF Linked, Subkeys, n
    <3> QED
      BY <2>2, <2>7, <2>14, <3>1 DEF Called
  <2>17. pc' # "done"
    BY <1>1, <1>9 DEF Building
  <2> QED
    BY <1>1, <1>6, <2>7, <2>13, <2>15, <2>16, <2>17 DEF Linked, Subkeys, Values, Root
<1> QED
  BY <1>8, <1>9

LEMMA InitLInv ==
  ASSUME Init
  PROVE  LInv
<1>1. pc = "building" /\ Len(writes) = 0 /\ stack = <<>> /\ Len(stack) = 0
  BY DEF Init
<1>2. Linked
  BY <1>1 DEF Linked
<1> QED
  BY <1>2, InitWInv DEF LInv

LEMMA NextLInv ==
  ASSUME LInv, [Next]_vars
  PROVE  LInv'
<1>1. WInv /\ IInv /\ Linked /\ WInv'
  BY NextWInv DEF LInv, WInv
<1>2. CASE StartRoot
  BY <1>1, <1>2, StartRootCalls, NewCallLinked DEF LInv
<1>3. CASE EnterSubkey
  <2>1. Calls(NextSubkey, Top.cell) /\ Building /\ KeysLeft
    BY <1>1, <1>3, EnterSubkeyCalls DEF EnterSubkey
  <2>2. Called(Top, Frame(NextSubkey, ClaimedCell(HeaderLen(NextSubkey)), Top.cell), Subkeys(Top.key))
    BY <2>1 DEF Called, Frame, NextSubkey, KeysLeft
  <2> QED
    BY <1>1, <2>1, <2>2, NewCallLinked DEF LInv, Building
<1>4. CASE ClaimFails \/ UNCHANGED vars
  <2>1. UNCHANGED <<tree, writes, stack, keycell>> /\ (pc' = "done" => pc = "done")
    BY <1>4 DEF ClaimFails, vars
  <2> QED
    BY <1>1, <2>1 DEF LInv, Linked, Subkeys, Values, Root
<1> QED
  BY <1>1, <1>2, <1>3, <1>4, WriteDataLinked, WriteValueLinked, WriteKeyListLinked,
     WriteValueListLinked, FinishKeyLinked DEF Next, LInv

\* A handle leads to the one content written there.
LEMMA ContentHeld ==
  ASSUME WritesAsClaimed
  PROVE  /\ \A k \in 1..Len(writes) : ContentAt(writes[k].cell) = writes[k].content
         /\ \A h, content : Holds(writes, h, content) => ContentAt(h) = content
<1>1. ASSUME NEW k \in 1..Len(writes)
      PROVE  ContentAt(writes[k].cell) = writes[k].content
  <2> DEFINE l == CHOOSE l \in 1..Len(writes) : writes[l].cell = writes[k].cell
  <2>1. l \in 1..Len(writes) /\ writes[l].cell = writes[k].cell
    OBVIOUS
  <2>2. l = k
    BY <2>1 DEF WritesAsClaimed
  <2> QED
    BY <2>2 DEF ContentAt
<1> QED
  BY <1>1 DEF Holds

LEMMA LinkedDecodes ==
  ASSUME LInv
  PROVE  HiveDecodes
<1>1. WritesAsClaimed /\ Linked
  BY DEF LInv, WInv
<1>2. \A h, key, up : HeaderIn(writes, h, key, up) => HeaderAt(h, key, up)
  BY <1>1, ContentHeld DEF HeaderIn, HeaderAt
<1>3. \A h, size : ValueIn(writes, h, size) => ValueAt(h, size)
  BY <1>1, ContentHeld DEF ValueIn, ValueAt
<1>4. \A h, subs, up : KeyListIn(writes, h, subs, up) =>
        /\ ContentAt(h).kind = "keylist" /\ Len(ContentAt(h).cells) = Len(subs)
        /\ \A j \in 1..Len(subs) : HeaderAt(ContentAt(h).cells[j], subs[j], up)
  BY <1>1, <1>2, ContentHeld DEF KeyListIn, SubkeysIn
<1>5. \A h, vals : ValueListIn(writes, h, vals) =>
        /\ ContentAt(h).kind = "valuelist" /\ Len(ContentAt(h).cells) = Len(vals)
        /\ \A j \in 1..Len(vals) : ValueAt(ContentAt(h).cells[j], vals[j].size)
  BY <1>1, <1>3, ContentHeld DEF ValueListIn, ValuesIn
<1>6. ASSUME NEW k \in 1..Len(writes), writes[k].content.kind = "key"
      PROVE  Leads(writes[k].cell)
  <2> DEFINE w == writes[k]
             header == w.content
  <2>1. LeadsIn(writes, w, Subkeys(header.key), Values(header.key)) /\ ContentAt(w.cell) = header
    BY <1>1, <1>6, ContentHeld DEF Linked
  <2> HIDE DEF w
  <2> QED
    BY <1>4, <1>5, <2>1 DEF Leads, LeadsIn, w
<1> QED
  BY <1>1, <1>2, <1>6 DEF HiveDecodes, Linked

\* Reading the hive from the root's handle finds the tree that was exported, every key
\* with its parent, its subkeys and its values (HiveDecodes).
THEOREM HiveReadsBack == Spec => []HiveDecodes
<1> QED
  BY InitLInv, NextLInv, LinkedDecodes, PTL DEF Spec

=============================================================================
