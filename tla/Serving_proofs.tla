---------------------------- MODULE Serving_proofs ----------------------------
(***************************************************************************)
(* Proofs about how the Site answers: Serving, for any packs, Stored       *)
(* Indexes, requests at once, time a pack is remembered for and end of     *)
(* time, however long a read or a transaction takes; and EnginePacks, for  *)
(* every set of packs, any number of asks at once, and every size of the   *)
(* disk.                                                                   *)
(***************************************************************************)
EXTENDS Serving, EnginePacks, FiniteSetTheorems, TLAPS

-----------------------------------------------------------------------------
(* Serving: an answer is of a pack that was the repository's meanwhile *)

\* A pack on its way from the database to the memory, and what has overtaken it.
Finding(p, overtaken) ==
  \/ warm.pc = "read" /\ warm.pack = p /\ warm.overtaken = overtaken
  \/ \E r \in Requests :
       request[r].pc = "read" /\ request[r].found = p /\ request[r].overtaken = overtaken

Doubled(q) == q.removed \/ q.late \/ \E a, b \in q.seen : a # b

\* What a request has seen, since it read the row, of what is served.
SeesServed(q) ==
  /\ served \in q.seen /\ q.after <= reportAt /\ q.si \in Ids
  /\ \E p \in q.seen : IdOf(p) = q.si
  /\ q.removed \/ ~going
  /\ ~q.removed /\ q.after = second => (q.seen = {served} \/ Doubled(q)) /\ served # NoPack

\* It asks with what it has seen, or with what was late, and again only when that was replaced.
AsksWithSeen(q) ==
  /\ q.tries > 0 \/ q.pc = "none" => Doubled(q)
  /\ q.pc = "asks" => q.tries < 2
  /\ q.pc \in {"asks", "again", "answered"} => q.pack # NoPack /\ (q.removed \/ q.late \/ q.pack \in q.seen)
  /\ q.pc = "read" => q.found \in q.seen \cup {NoPack}
  /\ q.pc = "read" /\ q.found = NoPack => Doubled(q)

\* It has seen what others find, or a publication of its own second or an earlier one has
\* overtaken them; and what they remember of a later one, in time.
Trusts(q) ==
  /\ \A p \in StorePacks, overtaken \in SUBSET Seconds :
       Finding(p, overtaken) => p \in q.seen \/ \E at \in overtaken : at <= q.after
  /\ \A x \in Ids : memo[x].at > q.after => memo[x].late \/ memo[x].pack \in q.seen \cup {NoPack}

\* Nothing older is remembered once a pack was refused, but late.
Refused(q) ==
  q.pc = "again" /\ ~q.removed /\ ~q.late =>
    q.after < second /\ (memo[q.si].late \/ memo[q.si].pack \in q.seen \cup {NoPack})

Good(q) == q.pc # "idle" => SeesServed(q) /\ AsksWithSeen(q) /\ Trusts(q) /\ Refused(q)

\* What is found is what is served, until a publication overtakes it.
FoundIsServed ==
  \A p \in StorePacks, overtaken \in SUBSET Seconds :
    Finding(p, overtaken) =>
      /\ \A at \in overtaken : at <= reportAt
      /\ overtaken = {} /\ served # NoPack => p = served

\* From the second after a publication on, nobody remembers an older pack, but late; nor will
\* anybody when the transaction under way is committed.
MemoIsCurrent ==
  \A x \in Ids :
    /\ memo[x].at <= second
    /\ memo[x].at > reportAt /\ served # NoPack => memo[x].late \/ memo[x].pack \in {served, NoPack}
    /\ publishing.pack # NoPack /\ memo[x].at > publishing.at => memo[x].late \/ memo[x].pack = NoPack

StampsNow ==
  /\ reportAt <= second
  /\ publishing.pack # NoPack => reportAt <= publishing.at /\ publishing.at <= second

ServingInv ==
  /\ ServingTypeOK /\ ServedIsKept /\ StampsNow /\ FoundIsServed /\ MemoIsCurrent
  /\ \A r \in Requests : Good(request[r])
  /\ warm.pc \in {"known", "read"} => warm.si \in Ids

-----------------------------------------------------------------------------
(* What is remembered, and found, may change *)

MemoType == [pack : StorePacks \cup {NoPack}, at : Seconds, late : BOOLEAN]
Warms == [pc : {"idle", "known", "read", "asks"}, si : Ids \cup {NoIndexId},
          pack : StorePacks \cup {NoPack}, overtaken : SUBSET Seconds]

MemoTypes == memo' \in [Ids -> MemoType]

\* A memory is forgotten, or is what somebody just found.
MemoMoves ==
  \A x \in Ids :
    \/ memo'[x] = memo[x] \/ memo'[x] = NoMemo
    \/ /\ memo'[x].at = second /\ memo'[x].pack \in StorePacks
       /\ \E overtaken \in SUBSET Seconds :
            Finding(memo'[x].pack, overtaken) /\ memo'[x].late = IsLate(overtaken)

\* What is found anew is what is served.
FindsMove ==
  \A p \in StorePacks, overtaken \in SUBSET Seconds :
    Finding(p, overtaken)' => Finding(p, overtaken) \/ (p = served /\ overtaken = {})

Settled == UNCHANGED <<served, going, second, reportAt, publishing>>

LEMMA SecondsAreNats == Seconds \subseteq Nat /\ 0 \in Seconds /\ MaxSecond \in Nat
BY ServingAssumption DEF Seconds

LEMMA MemoOfType ==
  /\ ServingInv => memo \in [Ids -> MemoType]
  /\ NoMemo \in MemoType /\ NoMemo.pack = NoPack /\ NoMemo.at = 0
BY SecondsAreNats DEF ServingInv, ServingTypeOK, MemoType, NoMemo

LEMMA IdsOfPacks ==
  /\ NoPack \notin StorePacks /\ NoIndexId \notin Ids
  /\ \A p \in StorePacks : IdOf(p) = IndexOf[p] /\ IndexOf[p] \in Ids
  /\ IdOf(NoPack) = NoIndexId
BY ServingAssumption, StoreAssumption DEF Ids, IdOf

\* A request that goes on as it was trusts what is remembered and found now.
LEMMA StillTrusts ==
  ASSUME ServingInv, Settled, MemoTypes, MemoMoves, FindsMove,
         NEW q \in Request, q.pc # "idle", SeesServed(q), Trusts(q)
  PROVE  SeesServed(q)' /\ Trusts(q)'
<1>1. q.after \in Nat /\ second \in Nat /\ \A x \in Ids : memo[x].at \in Nat
  BY SecondsAreNats DEF ServingInv, ServingTypeOK, Request
<1>2. SeesServed(q)'
  BY DEF Settled, SeesServed
<1>3. ASSUME NEW p \in StorePacks, NEW overtaken \in SUBSET Seconds, Finding(p, overtaken)'
      PROVE  p \in q.seen \/ \E at \in overtaken : at <= q.after
  BY <1>3 DEF FindsMove, Trusts, SeesServed
<1>4. ASSUME NEW x \in Ids, memo'[x].at > q.after
      PROVE  memo'[x].late \/ memo'[x].pack \in q.seen \cup {NoPack}
  <2>1. CASE memo'[x] = memo[x]
    BY <1>4, <2>1 DEF Trusts
  <2>2. CASE memo'[x] = NoMemo
    BY <2>2 DEF NoMemo
  <2>3. CASE memo'[x] # memo[x] /\ memo'[x] # NoMemo /\ ~memo'[x].late
    <3>1. /\ memo'[x].at = second /\ memo'[x].pack \in StorePacks
          /\ \E overtaken \in SUBSET Seconds :
               Finding(memo'[x].pack, overtaken) /\ memo'[x].late = IsLate(overtaken)
      BY <2>3 DEF MemoMoves
    <3>2. PICK overtaken \in SUBSET Seconds :
            Finding(memo'[x].pack, overtaken) /\ memo'[x].late = IsLate(overtaken)
      BY <3>1
    <3>3. \A at \in overtaken : ~(at <= q.after)
      <4>. SUFFICES ASSUME NEW at \in overtaken, at <= q.after  PROVE FALSE
        OBVIOUS
      <4>1. at \in Nat /\ at < second
        BY <1>1, <1>4, <3>1, SecondsAreNats
      <4>. QED  BY <2>3, <3>2, <4>1 DEF IsLate
    <3>. QED  BY <3>2, <3>1, <3>3 DEF Trusts
  <2>. QED  BY <2>1, <2>2, <2>3
<1>5. Trusts(q)'
  BY <1>3, <1>4 DEF Trusts
<1>. QED  BY <1>2, <1>5

LEMMA StillGood ==
  ASSUME ServingInv, Settled, MemoTypes, MemoMoves, FindsMove, NEW q \in Request, Good(q)
  PROVE  Good(q)'
<1>. SUFFICES ASSUME q.pc # "idle"
     PROVE  Good(q)'
  BY DEF Good
<1>1. SeesServed(q)' /\ Trusts(q)'
  BY StillTrusts DEF Good
<1>2. AsksWithSeen(q)'
  BY DEF Good, AsksWithSeen, Doubled
<1>3. ASSUME q.pc = "again", ~q.removed, ~q.late
      PROVE  /\ q.after < second'
             /\ memo'[q.si].late \/ memo'[q.si].pack \in q.seen \cup {NoPack}
  <2>1. /\ q.after < second /\ q.si \in Ids
        /\ memo[q.si].late \/ memo[q.si].pack \in q.seen \cup {NoPack}
    BY <1>3 DEF Good, Refused, SeesServed
  <2>2. CASE memo'[q.si] = memo[q.si]
    BY <2>1, <2>2 DEF Settled
  <2>3. CASE memo'[q.si] = NoMemo
    BY <2>1, <2>3 DEF Settled, NoMemo
  <2>4. CASE memo'[q.si].at = second
    BY <1>1, <2>1, <2>4 DEF Settled, Trusts
  <2>. QED  BY <2>1, <2>2, <2>3, <2>4 DEF MemoMoves
<1>. QED  BY <1>1, <1>2, <1>3 DEF Good, Refused

LEMMA MemoStaysCurrent ==
  ASSUME ServingInv, Settled, MemoTypes, MemoMoves, FindsMove
  PROVE  FoundIsServed' /\ MemoIsCurrent'
<1>1. second \in Nat /\ reportAt \in Nat /\ publishing.at \in Nat /\ \A x \in Ids : memo[x].at \in Nat
  BY SecondsAreNats DEF ServingInv, ServingTypeOK
<1>2. FoundIsServed'
  BY DEF Settled, FindsMove, ServingInv, FoundIsServed
<1>3. ASSUME NEW x \in Ids
      PROVE  /\ memo'[x].at <= second
             /\ memo'[x].at > reportAt /\ served # NoPack => memo'[x].late \/ memo'[x].pack \in {served, NoPack}
             /\ publishing.pack # NoPack /\ memo'[x].at > publishing.at
                  => memo'[x].late \/ memo'[x].pack = NoPack
  <2>1. CASE memo'[x] = memo[x]
    BY <2>1 DEF ServingInv, MemoIsCurrent
  <2>2. CASE memo'[x] = NoMemo
    BY <1>1, <2>2 DEF NoMemo
  <2>3. CASE memo'[x] # memo[x] /\ memo'[x] # NoMemo
    <3>1. memo'[x].at = second /\ memo'[x].pack \in StorePacks
      BY <2>3 DEF MemoMoves
    <3>2. PICK overtaken \in SUBSET Seconds :
            Finding(memo'[x].pack, overtaken) /\ memo'[x].late = IsLate(overtaken)
      BY <2>3 DEF MemoMoves
    <3>3. ASSUME ~memo'[x].late, memo'[x].at > reportAt, served # NoPack
          PROVE  memo'[x].pack = served
      <4>1. \A at \in overtaken : at <= reportAt /\ at \in Nat
        BY <3>1, <3>2, SecondsAreNats DEF ServingInv, FoundIsServed
      <4>2. overtaken = {}
        BY <1>1, <3>1, <3>2, <3>3, <4>1 DEF IsLate
      <4>. QED  BY <3>1, <3>2, <3>3, <4>2 DEF ServingInv, FoundIsServed
    <3>4. publishing.pack # NoPack /\ memo'[x].at > publishing.at => memo'[x].late
      BY <1>1, <3>1, <3>2 DEF IsLate
    <3>. QED  BY <1>1, <3>1, <3>3, <3>4
  <2>. QED  BY <2>1, <2>2, <2>3
<1>. QED  BY <1>2, <1>3 DEF MemoIsCurrent, Settled

\* A step of a request, of the one who warms, or of a cache.
LEMMA QuietKeeps ==
  ASSUME ServingInv, Settled, MemoTypes, MemoMoves, FindsMove,
         kept' \subseteq StorePacks, served \in kept => served \in kept',
         cached' \subseteq StorePacks, notices' \in Seq(Ids),
         request' \in [Requests -> Request],
         \A r \in Requests : request'[r] = request[r] \/ \E q \in Request : q = request'[r] /\ Good(q)',
         warm' \in Warms,
         warm'.pc \in {"known", "read"} => warm'.si \in Ids
  PROVE  ServingInv'
<1>1. ServingTypeOK'
  BY DEF ServingInv, ServingTypeOK, StoreTypeOK, Settled, MemoTypes, MemoType, Warms
<1>2. ServedIsKept' /\ StampsNow'
  BY DEF ServingInv, ServedIsKept, StampsNow, Settled
<1>3. ASSUME NEW r \in Requests
      PROVE  Good(request[r])'
  <2>1. CASE request'[r] = request[r]
    <3>1. PICK q \in Request : q = request[r]
      BY DEF ServingInv, ServingTypeOK
    <3>2. Good(q)
      BY <3>1 DEF ServingInv
    <3>3. Good(q)' /\ q = request'[r]
      BY <3>1, <3>2, <2>1, StillGood
    <3>. QED  BY <3>3
  <2>2. CASE \E q \in Request : q = request'[r] /\ Good(q)'
    <3>1. PICK q \in Request : q = request'[r] /\ Good(q)'
      BY <2>2
    <3>. QED  BY <3>1
  <2>. QED  BY <2>1, <2>2
<1>. QED  BY <1>1, <1>2, <1>3, MemoStaysCurrent DEF ServingInv

-----------------------------------------------------------------------------
(* Requests *)

OthersStand == UNCHANGED <<storeVars, second, reportAt, publishing, notices, warm>>

LEMMA RequestIsRequest ==
  ASSUME ServingInv, NEW r \in Requests
  PROVE  request[r] \in Request /\ Good(request[r])
BY DEF ServingInv, ServingTypeOK

LEMMA RequestMoves ==
  ASSUME ServingInv, NEW r \in Requests, NEW q \in Request, To(r, q), OthersStand,
         cached' \subseteq StorePacks, MemoTypes, MemoMoves,
         q.pc = "read" => q.found \in {served, NoPack} /\ q.overtaken = {},
         FindsMove => Good(q)'
  PROVE  ServingInv'
<1>1. request' = [request EXCEPT ![r] = q] /\ request \in [Requests -> Request]
  BY DEF To, ServingInv, ServingTypeOK
<1>2. request' \in [Requests -> Request] /\ request'[r] = q
      /\ \A x \in Requests : x # r => request'[x] = request[x]
  BY <1>1
<1>3. UNCHANGED <<served, kept, going, second, reportAt, publishing, notices, warm>>
  BY DEF OthersStand, storeVars
<1>4. FindsMove
  BY <1>2, <1>3, IdsOfPacks DEF FindsMove, Finding
<1>5. \A x \in Requests : request'[x] = request[x] \/ \E g \in Request : g = request'[x] /\ Good(g)'
  BY <1>2, <1>4
<1>6. warm \in Warms /\ (warm.pc \in {"known", "read"} => warm.si \in Ids)
  BY DEF ServingInv, ServingTypeOK, Warms
<1>. QED  BY <1>2, <1>3, <1>4, <1>5, <1>6, QuietKeeps DEF ServingInv, ServingTypeOK, StoreTypeOK, Settled

\* What a request is good for before the step, while nothing else is remembered, it is after it.
LEMMA RequestGoesOn ==
  ASSUME ServingInv, NEW r \in Requests, NEW q \in Request, To(r, q), OthersStand,
         cached' \subseteq StorePacks, MemoTypes, MemoMoves,
         q.pc = "read" => q.found \in {served, NoPack} /\ q.overtaken = {},
         Good(q)
  PROVE  ServingInv'
<1>1. Settled
  BY DEF OthersStand, storeVars, Settled
<1>2. FindsMove => Good(q)'
  BY <1>1, StillGood
<1>. QED  BY <1>2, RequestMoves

LEMMA MemoStands == ServingInv /\ UNCHANGED memo => MemoTypes /\ MemoMoves
BY DEF ServingInv, ServingTypeOK, MemoTypes, MemoMoves, MemoType

LEMMA ReadsRowKeeps ==
  ASSUME ServingInv, NEW r \in Requests, RequestReadsRow(r)
  PROVE  ServingInv'
<1>1. PICK q : q = [NoRequest EXCEPT !.pc = "row", !.si = IndexOf[served], !.after = reportAt,
                                     !.seen = {served}, !.removed = going]
  OBVIOUS
<1>2. served \in StorePacks /\ going \in BOOLEAN /\ reportAt \in Seconds
  BY DEF RequestReadsRow, ServingInv, ServingTypeOK, StoreTypeOK
<1>3. /\ q.pc = "row" /\ q.si = IndexOf[served] /\ q.after = reportAt /\ q.seen = {served}
      /\ q.removed = going /\ q.tries = 0
  BY <1>1 DEF NoRequest
<1>4. q \in Request
  <2>1. q = [pc |-> "row", si |-> IndexOf[served], after |-> reportAt, pack |-> NoPack,
             tries |-> 0, found |-> NoPack, seen |-> {served}, removed |-> going,
             overtaken |-> {}, late |-> FALSE]
    BY <1>1 DEF NoRequest
  <2>2. IndexOf[served] \in Ids
    BY <1>2, IdsOfPacks
  <2>. QED  BY <1>2, <2>1, <2>2 DEF Request
<1>5. SeesServed(q)
  BY <1>2, <1>3, IdsOfPacks, SecondsAreNats DEF SeesServed
<1>6. Trusts(q)
  <2>1. \A p \in StorePacks, overtaken \in SUBSET Seconds :
          Finding(p, overtaken) => p \in q.seen \/ \E at \in overtaken : at <= q.after
    BY <1>2, <1>3, IdsOfPacks DEF ServingInv, FoundIsServed
  <2>2. \A x \in Ids : memo[x].at > q.after => memo[x].late \/ memo[x].pack \in q.seen \cup {NoPack}
    BY <1>2, <1>3, IdsOfPacks DEF ServingInv, MemoIsCurrent
  <2>. QED  BY <2>1, <2>2 DEF Trusts
<1>7. AsksWithSeen(q) /\ Refused(q)
  BY <1>3 DEF AsksWithSeen, Refused
<1>8. To(r, q) /\ OthersStand /\ UNCHANGED <<memo, cached>>
  BY <1>1 DEF RequestReadsRow, OthersStand
<1>. QED  BY <1>3, <1>4, <1>5, <1>6, <1>7, <1>8, MemoStands, RequestGoesOn
          DEF Good, ServingInv, ServingTypeOK

\* With: a pack that was seen is asked with, or the request has seen two.
LEMMA WithIsGood ==
  ASSUME ServingInv, NEW q \in Request, Good(q), q.pc \in {"row", "read", "again"},
         NEW p \in StorePacks \cup {NoPack},
         p # NoPack => q.removed \/ q.late \/ p \in q.seen, p = NoPack => Doubled(q)
  PROVE  With(q, p) \in Request /\ Good(With(q, p)) /\ With(q, p).pc # "read"
<1>1. SeesServed(q) /\ AsksWithSeen(q) /\ Trusts(q)
  BY DEF Good
<1>2. CASE p = NoPack \/ q.tries = 2 \/ (q.tries > 0 /\ p = q.pack)
  <2>1. PICK g : g = [q EXCEPT !.pc = "none", !.found = NoPack, !.overtaken = {}]
    OBVIOUS
  <2>2. g \in Request /\ g.pc = "none" /\ g.si = q.si /\ g.after = q.after /\ g.seen = q.seen
        /\ g.removed = q.removed /\ g.late = q.late
    BY <2>1 DEF Request
  <2>3. Doubled(g)
    BY <1>1, <1>2, <2>2 DEF AsksWithSeen, Doubled
  <2>4. SeesServed(g) /\ AsksWithSeen(g) /\ Trusts(g) /\ Refused(g)
    BY <1>1, <2>2, <2>3 DEF SeesServed, AsksWithSeen, Trusts, Refused
  <2>. QED  BY <1>2, <2>1, <2>2, <2>4 DEF With, Good
<1>3. CASE ~(p = NoPack \/ q.tries = 2 \/ (q.tries > 0 /\ p = q.pack))
  <2>1. PICK g : g = [q EXCEPT !.pc = "asks", !.pack = p, !.found = NoPack, !.overtaken = {}]
    OBVIOUS
  <2>2. g \in Request /\ g.pc = "asks" /\ g.si = q.si /\ g.after = q.after /\ g.seen = q.seen
        /\ g.removed = q.removed /\ g.late = q.late /\ g.tries = q.tries /\ g.pack = p
    BY <2>1 DEF Request
  <2>3. SeesServed(g) /\ Trusts(g) /\ Refused(g)
    BY <1>1, <2>2 DEF SeesServed, Doubled, Trusts, Refused
  <2>4. g.tries < 2 /\ (g.tries > 0 => Doubled(g))
    BY <1>1, <1>3, <2>2 DEF Request, AsksWithSeen, Doubled
  <2>5. AsksWithSeen(g)
    BY <1>3, <2>2, <2>4 DEF AsksWithSeen
  <2>. QED  BY <1>3, <2>1, <2>2, <2>3, <2>5 DEF With, Good
<1>. QED  BY <1>2, <1>3

LEMMA RemembersKeeps ==
  ASSUME ServingInv, NEW r \in Requests, RequestRemembers(r)
  PROVE  ServingInv'
<1>1. PICK q \in Request : q = request[r] /\ Good(q)
  BY RequestIsRequest
<1>2. PICK p : p = memo[q.si].pack
  OBVIOUS
<1>3. q.pc \in {"row", "again"} /\ SeesServed(q) /\ q.si \in Ids /\ Fresh(q.si)
  BY <1>1 DEF RequestRemembers, Known, Good, SeesServed
<1>4. p \in StorePacks
  BY <1>2, <1>3 DEF Fresh, ServingInv, ServingTypeOK
<1>5. PICK h : h = [q EXCEPT !.late = @ \/ memo[q.si].late]
  OBVIOUS
<1>6. PICK late \in BOOLEAN : late = memo[q.si].late
  BY <1>3, MemoOfType DEF MemoType
<1>7. /\ h \in Request /\ h.pc = q.pc /\ h.si = q.si /\ h.after = q.after /\ h.seen = q.seen
      /\ h.removed = q.removed /\ h.tries = q.tries /\ h.pack = q.pack /\ h.found = q.found
      /\ (h.late <=> q.late \/ late)
  <2>1. PICK b \in BOOLEAN : b = (q.late \/ late)
    OBVIOUS
  <2>2. h = [q EXCEPT !.late = b]
    BY <1>5, <1>6, <2>1
  <2>. QED  BY <2>1, <2>2 DEF Request
<1>8. Good(h)
  BY <1>1, <1>3, <1>7 DEF Good, SeesServed, AsksWithSeen, Doubled, Trusts, Refused
<1>9. h.removed \/ h.late \/ p \in h.seen
  <2>1. CASE q.pc = "row"
    BY <1>1, <1>2, <1>3, <1>4, <1>6, <1>7, <2>1, IdsOfPacks DEF RequestRemembers, Known, Good, Trusts
  <2>2. CASE q.pc = "again"
    BY <1>1, <1>2, <1>3, <1>4, <1>6, <1>7, <2>2, IdsOfPacks DEF Good, Refused
  <2>. QED  BY <1>3, <2>1, <2>2
<1>10. PICK g : g = With(h, p)
  OBVIOUS
<1>11. g \in Request /\ Good(g) /\ g.pc # "read"
  BY <1>3, <1>4, <1>7, <1>8, <1>9, <1>10, IdsOfPacks, WithIsGood
<1>12. To(r, g) /\ OthersStand /\ UNCHANGED <<memo, cached>>
  BY <1>1, <1>2, <1>5, <1>10 DEF RequestRemembers, OthersStand
<1>. QED  BY <1>11, <1>12, MemoStands, RequestGoesOn DEF ServingInv, ServingTypeOK

\* The row still points at the index a request came with, or the request has seen two.
LEMMA QueriesKeeps ==
  ASSUME ServingInv, NEW r \in Requests, RequestQueries(r)
  PROVE  ServingInv'
<1>1. PICK q \in Request : q = request[r] /\ Good(q)
  BY RequestIsRequest
<1>2. PICK g : g = [q EXCEPT !.pc = "read", !.found = PackInRow(q.si), !.overtaken = {}]
  OBVIOUS
<1>3. q.pc \in {"row", "again"} /\ SeesServed(q) /\ AsksWithSeen(q) /\ Trusts(q)
  BY <1>1 DEF RequestQueries, Good
<1>4. PackInRow(q.si) \in {served, NoPack} /\ served \in StorePacks \cup {NoPack}
  BY DEF PackInRow, ServingInv, ServingTypeOK, StoreTypeOK
<1>5. PackInRow(q.si) = NoPack => IdOf(served) # q.si
  BY <1>3, IdsOfPacks DEF PackInRow, SeesServed
<1>6. g \in Request /\ g.pc = "read" /\ g.si = q.si /\ g.after = q.after /\ g.seen = q.seen
      /\ g.removed = q.removed /\ g.late = q.late /\ g.tries = q.tries /\ g.found = PackInRow(q.si)
      /\ g.overtaken = {}
  BY <1>2, <1>4 DEF Request
<1>7. SeesServed(g) /\ Trusts(g) /\ Refused(g)
  BY <1>3, <1>6 DEF SeesServed, Doubled, Trusts, Refused
<1>8. g.found = NoPack => Doubled(g)
  BY <1>3, <1>5, <1>6 DEF SeesServed, Doubled
<1>9. AsksWithSeen(g)
  BY <1>3, <1>4, <1>6, <1>8 DEF SeesServed, AsksWithSeen, Doubled
<1>10. To(r, g) /\ OthersStand /\ UNCHANGED <<memo, cached>>
  BY <1>1, <1>2 DEF RequestQueries, OthersStand
<1>. QED  BY <1>4, <1>6, <1>7, <1>9, <1>10, MemoStands, RequestGoesOn
          DEF Good, ServingInv, ServingTypeOK

LEMMA RememberedMoves ==
  ASSUME ServingInv, NEW x \in Ids, NEW p \in StorePacks, NEW overtaken \in SUBSET Seconds,
         Finding(p, overtaken), memo' = Remembered(x, p, overtaken)
  PROVE  MemoTypes /\ MemoMoves
<1>1. memo \in [Ids -> MemoType] /\ second \in Seconds
  BY MemoOfType DEF ServingInv, ServingTypeOK
<1>2. PICK late \in BOOLEAN : late = IsLate(overtaken)
  BY DEF IsLate
<1>3. PICK m : m = [pack |-> p, at |-> second, late |-> late]
  OBVIOUS
<1>4. memo' = [memo EXCEPT ![x] = m] /\ m \in MemoType /\ m.pack = p /\ m.at = second /\ m.late = late
  BY <1>1, <1>2, <1>3 DEF Remembered, MemoType
<1>5. memo'[x] = m /\ \A y \in Ids : y # x => memo'[y] = memo[y]
  BY <1>1, <1>4
<1>. QED  BY <1>1, <1>2, <1>4, <1>5 DEF MemoTypes, MemoMoves

LEMMA ForgottenMoves ==
  ASSUME ServingInv, NEW x \in Ids, memo' = [memo EXCEPT ![x] = NoMemo]
  PROVE  MemoTypes /\ MemoMoves /\ memo'[x] = NoMemo
BY MemoOfType DEF MemoTypes, MemoMoves

LEMMA LearnsKeeps ==
  ASSUME ServingInv, NEW r \in Requests, RequestLearns(r)
  PROVE  ServingInv'
<1>1. PICK q \in Request : q = request[r] /\ Good(q)
  BY RequestIsRequest
<1>2. /\ q.pc = "read" /\ q.found \in StorePacks \cup {NoPack} /\ q.si \in Ids
      /\ q.overtaken \in SUBSET Seconds
  BY <1>1 DEF RequestLearns, Good, SeesServed, Request
<1>3. PICK g : g = With(q, q.found)
  OBVIOUS
<1>4. (q.found # NoPack => q.found \in q.seen) /\ (q.found = NoPack => Doubled(q))
  BY <1>1, <1>2 DEF Good, AsksWithSeen
<1>5. g \in Request /\ Good(g) /\ g.pc # "read"
  BY <1>1, <1>2, <1>3, <1>4, WithIsGood
<1>6. MemoTypes /\ MemoMoves
  <2>1. CASE q.found = NoPack
    BY <1>1, <2>1, MemoStands DEF RequestLearns
  <2>2. CASE q.found # NoPack
    <3>1. Finding(q.found, q.overtaken)
      BY <1>1, <1>2 DEF Finding
    <3>2. memo' = Remembered(q.si, q.found, q.overtaken)
      BY <1>1, <2>2 DEF RequestLearns
    <3>. QED  BY <1>2, <2>2, <3>1, <3>2, RememberedMoves
  <2>. QED  BY <2>1, <2>2
<1>7. To(r, g) /\ OthersStand /\ UNCHANGED cached
  BY <1>1, <1>3 DEF RequestLearns, OthersStand
<1>. QED  BY <1>5, <1>6, <1>7, RequestGoesOn DEF ServingInv, ServingTypeOK

\* A pack refused is not what is served: that is in R2.
LEMMA RefusesKeeps ==
  ASSUME ServingInv, NEW r \in Requests, EngineRefuses(r)
  PROVE  ServingInv'
<1>1. PICK q \in Request : q = request[r] /\ Good(q)
  BY RequestIsRequest
<1>2. q.pc = "asks" /\ q.pack \notin kept /\ SeesServed(q) /\ AsksWithSeen(q) /\ Trusts(q)
  BY <1>1 DEF EngineRefuses, Good
<1>3. q.si \in Ids /\ q.tries < 2 /\ q.pack # NoPack /\ (q.removed \/ q.late \/ q.pack \in q.seen)
      /\ q.tries + 1 \in 0 .. 2 /\ q.tries + 1 > 0
  BY <1>2 DEF SeesServed, AsksWithSeen, Request
<1>4. PICK g : g = [q EXCEPT !.pc = "again", !.tries = @ + 1, !.late = @ \/ q.after = second]
  OBVIOUS
<1>5. /\ g \in Request /\ g.pc = "again" /\ g.si = q.si /\ g.after = q.after /\ g.seen = q.seen
      /\ g.removed = q.removed /\ g.tries > 0 /\ g.pack = q.pack
      /\ (g.late <=> q.late \/ q.after = second)
  <2>1. PICK late \in BOOLEAN : late = (q.late \/ q.after = second)
    OBVIOUS
  <2>2. g = [q EXCEPT !.pc = "again", !.tries = @ + 1, !.late = late]
    BY <1>4, <2>1
  <2>. QED  BY <1>3, <2>1, <2>2 DEF Request
<1>6. q.removed \/ q.pack # served
  BY <1>2, <1>3 DEF SeesServed, ServingInv, ServedIsKept
<1>7. Doubled(g)
  BY <1>2, <1>3, <1>5, <1>6 DEF SeesServed, Doubled
<1>8. SeesServed(g) /\ AsksWithSeen(g) /\ Trusts(g)
  BY <1>2, <1>3, <1>5, <1>7 DEF SeesServed, AsksWithSeen, Trusts
<1>9. g.removed \/ g.late \/ g.after < second
  <2>1. g.after \in Nat /\ reportAt \in Nat /\ second \in Nat /\ g.after <= reportAt /\ reportAt <= second
    BY <1>5, <1>8, SecondsAreNats DEF SeesServed, ServingInv, StampsNow, ServingTypeOK, Request
  <2>. QED  BY <1>5, <2>1
<1>10. To(r, g) /\ OthersStand /\ UNCHANGED cached /\ memo' = [memo EXCEPT ![q.si] = NoMemo]
  BY <1>1, <1>4 DEF EngineRefuses, OthersStand
<1>11. MemoTypes /\ MemoMoves /\ memo'[g.si] = NoMemo
  BY <1>3, <1>5, <1>10, ForgottenMoves
<1>12. Settled
  BY <1>10 DEF OthersStand, storeVars, Settled
<1>13. ASSUME FindsMove
       PROVE  Good(g)'
  <2>1. SeesServed(g)' /\ Trusts(g)'
    BY <1>5, <1>8, <1>11, <1>12, <1>13, StillTrusts
  <2>2. AsksWithSeen(g)'
    BY <1>8 DEF AsksWithSeen, Doubled
  <2>3. g.removed \/ g.late \/ g.after < second'
    BY <1>9, <1>12 DEF Settled
  <2>4. memo'[g.si].pack = NoPack
    BY <1>11 DEF NoMemo
  <2>. QED  BY <2>1, <2>2, <2>3, <2>4 DEF Good, Refused
<1>14. g.pc = "read" => g.found \in {served, NoPack} /\ g.overtaken = {}
  BY <1>5
<1>. QED  BY <1>5, <1>10, <1>11, <1>13, <1>14, RequestMoves DEF ServingInv, ServingTypeOK

LEMMA AnswersKeeps ==
  ASSUME ServingInv, NEW r \in Requests, EngineAnswers(r)
  PROVE  ServingInv'
<1>1. PICK q \in Request : q = request[r] /\ Good(q)
  BY RequestIsRequest
<1>2. q.pc = "asks" /\ SeesServed(q) /\ AsksWithSeen(q) /\ Trusts(q)
  BY <1>1 DEF EngineAnswers, Good
<1>3. PICK g : g = [q EXCEPT !.pc = "answered"]
  OBVIOUS
<1>4. g \in Request /\ g.pc = "answered" /\ g.si = q.si /\ g.after = q.after /\ g.seen = q.seen
      /\ g.removed = q.removed /\ g.tries = q.tries /\ g.pack = q.pack /\ g.late = q.late
  BY <1>3 DEF Request
<1>5. Good(g)
  BY <1>2, <1>4 DEF Good, SeesServed, AsksWithSeen, Trusts, Refused, Doubled
<1>6. To(r, g) /\ OthersStand /\ UNCHANGED memo
  BY <1>1, <1>3 DEF EngineAnswers, OthersStand
<1>7. cached' \subseteq StorePacks
  BY DEF EngineAnswers, ServingInv, ServingTypeOK, StoreTypeOK
<1>. QED  BY <1>4, <1>5, <1>6, <1>7, MemoStands, RequestGoesOn

LEMMA EndsKeeps ==
  ASSUME ServingInv, NEW r \in Requests, RequestEnds(r)
  PROVE  ServingInv'
<1>1. PICK g : g = NoRequest
  OBVIOUS
<1>2. g \in Request /\ g.pc = "idle"
  BY <1>1, SecondsAreNats DEF NoRequest, Request
<1>3. To(r, g) /\ OthersStand /\ UNCHANGED <<memo, cached>>
  BY <1>1 DEF RequestEnds, OthersStand
<1>. QED  BY <1>2, <1>3, MemoStands, RequestGoesOn DEF Good, ServingInv, ServingTypeOK

-----------------------------------------------------------------------------
(* The one who warms, and the caches *)

LEMMA WarmMoves ==
  ASSUME ServingInv, UNCHANGED <<storeVars, second, reportAt, publishing, request>>,
         cached' \subseteq StorePacks, notices' \in Seq(Ids), MemoTypes, MemoMoves,
         NEW w \in Warms,
         warm' = w,
         w.pc \in {"known", "read"} => w.si \in Ids,
         w.pc = "read" => w = warm \/ (w.pack \in {served, NoPack} /\ w.overtaken = {})
  PROVE  ServingInv'
<1>1. FindsMove
  BY IdsOfPacks DEF FindsMove, Finding, storeVars
<1>2. UNCHANGED <<served, kept, going>>
  BY DEF storeVars
<1>. QED  BY <1>1, <1>2, QuietKeeps DEF ServingInv, ServingTypeOK, StoreTypeOK, Settled

LEMMA WarmTypes ==
  ServingInv => /\ warm \in Warms
                /\ warm.pc \in {"known", "read"} => warm.si \in Ids
                /\ cached \subseteq StorePacks /\ notices \in Seq(Ids)
                /\ served \in StorePacks \cup {NoPack} /\ kept \subseteq StorePacks
                /\ memo \in [Ids -> MemoType]
BY DEF ServingInv, ServingTypeOK, StoreTypeOK, MemoType, Warms

LEMMA NoWarmIsIdle ==
  /\ NoWarm.pc = "idle"
  /\ NoWarm \in Warms
BY DEF NoWarm, Warms

LEMMA ForgetsKeeps ==
  ASSUME ServingInv, WarmForgets
  PROVE  ServingInv'
<1>1. PICK si : si = Head(notices)
  OBVIOUS
<1>2. si \in Ids /\ Tail(notices) \in Seq(Ids)
  BY <1>1, WarmTypes DEF WarmForgets
<1>3. memo' = [memo EXCEPT ![si] = NoMemo]
  BY <1>1 DEF WarmForgets
<1>4. PICK w : warm' = w
  OBVIOUS
<1>5. w = NoWarm \/ w = [NoWarm EXCEPT !.pc = "known", !.si = si]
  BY <1>1, <1>4 DEF WarmForgets
<1>6. /\ w \in Warms
      /\ w.pc \in {"idle", "known"} /\ (w.pc = "known" => w.si \in Ids)
  BY <1>2, <1>5, NoWarmIsIdle DEF NoWarm, Warms
<1>. QED  BY <1>2, <1>3, <1>4, <1>6, WarmTypes, ForgottenMoves, WarmMoves DEF WarmForgets

LEMMA PackOfKeeps ==
  ASSUME ServingInv, WarmPackOf
  PROVE  ServingInv'
<1>1. PICK w : w = warm /\ w.pc = "known" /\ w.si \in Ids
               /\ w \in Warms
  BY WarmTypes DEF WarmPackOf
<1>2. PICK g : warm' = g
  OBVIOUS
<1>3. CASE Fresh(w.si)
  <2>1. g = [w EXCEPT !.pc = "asks", !.pack = memo[w.si].pack]
    BY <1>1, <1>2, <1>3 DEF WarmPackOf
  <2>2. memo[w.si].pack \in StorePacks \cup {NoPack}
    BY <1>1, WarmTypes DEF MemoType
  <2>3. g.pc = "asks" /\ g \in Warms
    BY <1>1, <2>1, <2>2 DEF Warms
  <2>. QED  BY <1>2, <2>3, WarmTypes, MemoStands, WarmMoves DEF WarmPackOf
<1>4. CASE ~Fresh(w.si)
  <2>1. g = [w EXCEPT !.pc = "read", !.pack = PackInRow(w.si), !.overtaken = {}]
    BY <1>1, <1>2, <1>4 DEF WarmPackOf
  <2>2. PackInRow(w.si) \in {served, NoPack} /\ PackInRow(w.si) \in StorePacks \cup {NoPack}
    BY WarmTypes DEF PackInRow
  <2>3. g.pc = "read" /\ g.si = w.si /\ g.pack = PackInRow(w.si) /\ g.overtaken = {}
        /\ g \in Warms
    BY <1>1, <2>1, <2>2 DEF Warms
  <2>. QED  BY <1>1, <1>2, <2>2, <2>3, WarmTypes, MemoStands, WarmMoves DEF WarmPackOf
<1>. QED  BY <1>3, <1>4

LEMMA WarmLearnsKeeps ==
  ASSUME ServingInv, WarmLearns
  PROVE  ServingInv'
<1>1. PICK w : w = warm /\ w.pc = "read" /\ w.si \in Ids
               /\ w \in Warms
  BY WarmTypes DEF WarmLearns
<1>2. MemoTypes /\ MemoMoves
  <2>1. CASE w.pack = NoPack
    BY <1>1, <2>1, MemoStands DEF WarmLearns
  <2>2. CASE w.pack # NoPack
    <3>1. w.pack \in StorePacks /\ w.overtaken \in SUBSET Seconds
      BY <1>1, <2>2 DEF Warms
    <3>2. Finding(w.pack, w.overtaken) /\ memo' = Remembered(w.si, w.pack, w.overtaken)
      BY <1>1, <2>2 DEF WarmLearns, Finding
    <3>. QED  BY <1>1, <3>1, <3>2, RememberedMoves
  <2>. QED  BY <2>1, <2>2
<1>3. PICK g : warm' = g
  OBVIOUS
<1>4. g = NoWarm \/ g = [w EXCEPT !.pc = "asks", !.overtaken = {}]
  BY <1>1, <1>3 DEF WarmLearns
<1>5. g.pc \in {"idle", "asks"}
      /\ g \in Warms
  BY <1>1, <1>4, NoWarmIsIdle DEF Warms
<1>. QED  BY <1>2, <1>3, <1>5, WarmTypes, WarmMoves DEF WarmLearns

LEMMA WarmAsksKeeps ==
  ASSUME ServingInv, WarmAsks
  PROVE  ServingInv'
<1>1. PICK g : warm' = g /\ g = NoWarm
  BY DEF WarmAsks
<1>2. cached' \subseteq StorePacks
  BY WarmTypes DEF WarmAsks
<1>. QED  BY <1>1, <1>2, NoWarmIsIdle, WarmTypes, MemoStands, WarmMoves DEF WarmAsks

LEMMA CacheKeeps ==
  ASSUME ServingInv, NEW p \in StorePacks, CacheDrops(p)
  PROVE  ServingInv'
<1>1. PICK g : warm' = g /\ g = warm
  BY DEF CacheDrops
<1>. QED  BY <1>1, WarmTypes, MemoStands, WarmMoves DEF CacheDrops

-----------------------------------------------------------------------------
(* The Builder, and time *)

LEMMA UploadsKeeps ==
  ASSUME ServingInv, NEW p \in StorePacks, Uploads(p) \/ DeletesReplaced(p)
  PROVE  ServingInv'
<1>1. kept' \subseteq StorePacks /\ (served \in kept => served \in kept')
      /\ UNCHANGED <<served, going>> /\ UNCHANGED siteVars
  BY WarmTypes DEF Uploads, DeletesReplaced, Stores, Discards
<1>2. UNCHANGED <<second, reportAt, publishing, memo, request, cached, notices, warm>>
  BY <1>1 DEF siteVars
<1>3. FindsMove
  BY <1>2 DEF FindsMove, Finding
<1>4. \A r \in Requests : request'[r] = request[r]
  BY <1>2
<1>. QED  BY <1>1, <1>2, <1>3, <1>4, WarmTypes, MemoStands, QuietKeeps
          DEF ServingInv, ServingTypeOK, Settled

LEMMA StampsKeeps ==
  ASSUME ServingInv, NEW p \in StorePacks, TransactionStamps(p)
  PROVE  ServingInv'
<1>1. UNCHANGED <<served, kept, going, second, reportAt, memo, request, cached, notices, warm>>
  BY DEF TransactionStamps, storeVars
<1>2. ServingTypeOK'
  BY <1>1 DEF ServingInv, ServingTypeOK, StoreTypeOK, TransactionStamps
<1>3. StampsNow' /\ publishing'.at = second
  BY <1>1, SecondsAreNats DEF ServingInv, ServingTypeOK, StampsNow, TransactionStamps
<1>4. ServedIsKept' /\ FoundIsServed' /\ (warm'.pc \in {"known", "read"} => warm'.si \in Ids)
  BY <1>1 DEF ServingInv, ServedIsKept, FoundIsServed, Finding
<1>5. MemoIsCurrent'
  <2>1. \A x \in Ids : memo[x].at \in Nat /\ memo[x].at <= second /\ second \in Nat
    BY SecondsAreNats DEF ServingInv, ServingTypeOK, MemoIsCurrent
  <2>. QED  BY <1>1, <1>3, <2>1 DEF ServingInv, MemoIsCurrent
<1>6. \A r \in Requests : Good(request[r])'
  BY <1>1 DEF ServingInv, Good, SeesServed, AsksWithSeen, Doubled, Trusts, Refused, Finding
<1>. QED  BY <1>2, <1>3, <1>4, <1>5, <1>6 DEF ServingInv

LEMMA TransactionFailsKeeps ==
  ASSUME ServingInv, TransactionFails
  PROVE  ServingInv'
<1>1. /\ UNCHANGED <<served, kept, going, second, reportAt, memo, request, cached, notices, warm>>
      /\ publishing' = [pack |-> NoPack, at |-> 0]
  BY DEF TransactionFails, storeVars
<1>2. ServingTypeOK'
  BY <1>1, SecondsAreNats DEF ServingInv, ServingTypeOK, StoreTypeOK
<1>3. StampsNow' /\ ServedIsKept' /\ FoundIsServed' /\ MemoIsCurrent'
  BY <1>1 DEF ServingInv, StampsNow, ServedIsKept, FoundIsServed, MemoIsCurrent, Finding
<1>4. \A r \in Requests : Good(request[r])'
  BY <1>1 DEF ServingInv, Good, SeesServed, AsksWithSeen, Doubled, Trusts, Refused, Finding
<1>. QED  BY <1>1, <1>2, <1>3, <1>4 DEF ServingInv

\* A step that every request under way takes note of: who reads from the database, and
\* what, stays.
LEMMA NotedStep ==
  ASSUME UNCHANGED warm,
         \A r \in Requests : /\ request'[r].pc = request[r].pc /\ request'[r].found = request[r].found
                             /\ request'[r].overtaken = request[r].overtaken
  PROVE  \A p, overtaken : Finding(p, overtaken)' <=> Finding(p, overtaken)
BY DEF Finding

LEMMA SeenMore ==
  ASSUME NEW q \in Request, NEW p \in StorePacks \cup {NoPack}
  PROVE  /\ Sees(q, p) \in Request /\ Sees(q, p).pc = q.pc
         /\ Sees(q, p).found = q.found /\ Sees(q, p).overtaken = q.overtaken
         /\ q.pc # "idle" => Sees(q, p) = [q EXCEPT !.seen = @ \cup {p}]
BY DEF Sees, Request

\* A publication notes itself in what a request has seen, and overtakes its read.
LEMMA NotesPublication ==
  ASSUME NEW q \in Request, NEW p \in StorePacks, NEW at \in Seconds
  PROVE  \E g \in Request :
           /\ g = Overtaken(Sees(q, p), at)
           /\ g.pc = q.pc /\ g.si = q.si /\ g.after = q.after /\ g.pack = q.pack /\ g.tries = q.tries
           /\ g.found = q.found /\ g.removed = q.removed /\ g.late = q.late
           /\ q.pc # "idle" => g.seen = q.seen \cup {p}
           /\ q.pc = "read" => g.overtaken = q.overtaken \cup {at}
<1>1. PICK h : h = Sees(q, p)
  OBVIOUS
<1>2. /\ h \in Request /\ h.pc = q.pc /\ h.si = q.si /\ h.after = q.after /\ h.pack = q.pack
      /\ h.tries = q.tries /\ h.found = q.found /\ h.removed = q.removed /\ h.late = q.late
      /\ (q.pc # "idle" => h.seen = q.seen \cup {p}) /\ h.overtaken = q.overtaken
  BY <1>1 DEF Sees, Request
<1>3. PICK g : g = Overtaken(h, at)
  OBVIOUS
<1>4. /\ g \in Request /\ g.pc = h.pc /\ g.si = h.si /\ g.after = h.after /\ g.pack = h.pack
      /\ g.tries = h.tries /\ g.found = h.found /\ g.removed = h.removed /\ g.late = h.late
      /\ g.seen = h.seen /\ (h.pc = "read" => g.overtaken = h.overtaken \cup {at})
  BY <1>2, <1>3 DEF Overtaken, Request
<1>. QED  BY <1>1, <1>2, <1>3, <1>4

LEMMA CommitsKeeps ==
  ASSUME ServingInv, TransactionCommits
  PROVE  ServingInv'
<1>1. PICK p \in StorePacks, at \in Seconds :
        /\ p = publishing.pack /\ at = publishing.at /\ p \in kept
        /\ served' = p /\ UNCHANGED <<kept, going>> /\ reportAt' = at
        /\ reportAt <= at /\ at <= second
  <2>1. publishing.pack \in StorePacks /\ publishing.at \in Seconds
    BY DEF TransactionCommits, ServingInv, ServingTypeOK
  <2>. QED  BY <2>1 DEF TransactionCommits, Publishes, ServingInv, StampsNow
<1>2. /\ publishing' = [pack |-> NoPack, at |-> 0] /\ notices' = Append(notices, IndexOf[p])
      /\ request' = [r \in Requests |-> Overtaken(Sees(request[r], p), at)]
      /\ warm' = Overtaken(warm, at)
      /\ UNCHANGED <<second, memo, cached>>
  BY <1>1 DEF TransactionCommits
<1>3. \A r \in Requests : request[r] \in Request /\ request'[r] = Overtaken(Sees(request[r], p), at)
  BY <1>2, RequestIsRequest
<1>4. request' \in [Requests -> Request]
  BY <1>2, <1>3, NotesPublication
<1>5. /\ warm' \in Warms /\ warm'.pc = warm.pc /\ warm'.si = warm.si /\ warm'.pack = warm.pack
      /\ (warm.pc = "read" => warm'.overtaken = warm.overtaken \cup {at})
  BY <1>2, WarmTypes DEF Overtaken, Warms
<1>6. \A x, overtaken : Finding(x, overtaken)' => \E o \in SUBSET Seconds : Finding(x, o) /\ overtaken = o \cup {at}
  <2>. SUFFICES ASSUME NEW x, NEW overtaken, Finding(x, overtaken)'
       PROVE  \E o \in SUBSET Seconds : Finding(x, o) /\ overtaken = o \cup {at}
    OBVIOUS
  <2>1. CASE warm'.pc = "read" /\ warm'.pack = x /\ warm'.overtaken = overtaken
    <3>1. warm.overtaken \in SUBSET Seconds /\ Finding(x, warm.overtaken) /\ overtaken = warm.overtaken \cup {at}
      BY <1>5, <2>1, WarmTypes DEF Finding, Warms
    <3>. QED  BY <3>1
  <2>2. CASE \E r \in Requests :
               request'[r].pc = "read" /\ request'[r].found = x /\ request'[r].overtaken = overtaken
    <3>1. PICK r \in Requests :
            request'[r].pc = "read" /\ request'[r].found = x /\ request'[r].overtaken = overtaken
      BY <2>2
    <3>2. request[r].pc = "read" /\ request[r].found = x /\ overtaken = request[r].overtaken \cup {at}
      BY <1>3, <3>1, NotesPublication
    <3>3. request[r].overtaken \in SUBSET Seconds
      BY <1>3 DEF Request
    <3>4. Finding(x, request[r].overtaken)
      BY <3>2 DEF Finding
    <3>. QED  BY <3>2, <3>3, <3>4
  <2>. QED  BY <2>1, <2>2 DEF Finding
<1>7. ServingTypeOK'
  <2>1. notices' \in Seq(Ids)
    BY <1>1, <1>2, IdsOfPacks DEF ServingInv, ServingTypeOK
  <2>2. publishing' \in [pack : StorePacks \cup {NoPack}, at : Seconds]
    BY <1>2, SecondsAreNats
  <2>. QED  BY <1>1, <1>2, <1>4, <1>5, <2>1, <2>2 DEF ServingInv, ServingTypeOK, StoreTypeOK, Warms
<1>8. second \in Nat /\ reportAt \in Nat /\ at \in Nat /\ \A x \in Ids : memo[x].at \in Nat
  BY SecondsAreNats DEF ServingInv, ServingTypeOK
<1>9. ServedIsKept' /\ StampsNow'
  BY <1>1, <1>2, <1>8 DEF ServedIsKept, StampsNow
<1>10. MemoIsCurrent'
  BY <1>1, <1>2, <1>8 DEF ServingInv, MemoIsCurrent
<1>11. FoundIsServed'
  <2>. SUFFICES ASSUME NEW x \in StorePacks, NEW overtaken \in SUBSET Seconds, Finding(x, overtaken)'
       PROVE  overtaken # {} /\ \A t \in overtaken : t <= at
    BY <1>1 DEF FoundIsServed
  <2>1. PICK o \in SUBSET Seconds : Finding(x, o) /\ overtaken = o \cup {at}
    BY <1>6
  <2>2. \A t \in o : t <= reportAt /\ t \in Nat
    BY <2>1, SecondsAreNats DEF ServingInv, FoundIsServed
  <2>. QED  BY <1>1, <1>8, <2>1, <2>2
<1>12. ASSUME NEW r \in Requests, request'[r].pc # "idle"
      PROVE  Good(request[r])'
  <2>1. PICK q \in Request : q = request[r] /\ Good(q)
    BY RequestIsRequest
  <2>2. PICK g \in Request :
          /\ g = request'[r]
          /\ g.pc = q.pc /\ g.si = q.si /\ g.after = q.after /\ g.pack = q.pack /\ g.tries = q.tries
          /\ g.found = q.found /\ g.removed = q.removed /\ g.late = q.late
          /\ (q.pc # "idle" => g.seen = q.seen \cup {p})
    BY <1>3, <2>1, NotesPublication
  <2>3. SeesServed(q) /\ AsksWithSeen(q) /\ Trusts(q) /\ Refused(q) /\ q.after \in Nat /\ g.seen = q.seen \cup {p}
    BY <1>12, <2>1, <2>2, SecondsAreNats DEF Good, Request
  <2>4. q.after <= reportAt
    BY <1>1, <1>8, <2>3 DEF SeesServed
  <2>5. SeesServed(g)'
    <3>1. served' = p /\ p # NoPack /\ served \in q.seen
      BY <1>1, <2>3, IdsOfPacks DEF SeesServed
    <3>2. g.seen = {p} \/ Doubled(g) \/ q.after # second
      <4>1. CASE Doubled(q)
        BY <2>2, <2>3, <4>1 DEF Doubled
      <4>2. CASE q.seen = {served}
        BY <2>3, <4>2 DEF Doubled
      <4>3. CASE q.removed
        BY <2>2, <4>3 DEF Doubled
      <4>. QED  BY <2>3, <4>1, <4>2, <4>3 DEF SeesServed
    <3>. QED  BY <1>1, <1>2, <1>8, <2>2, <2>3, <2>4, <3>1, <3>2 DEF SeesServed
  <2>6. AsksWithSeen(g)'
    BY <2>2, <2>3 DEF AsksWithSeen, Doubled
  <2>7. Trusts(g)'
    <3>1. ASSUME NEW x \in StorePacks, NEW overtaken \in SUBSET Seconds, Finding(x, overtaken)'
          PROVE  x \in g.seen \/ \E t \in overtaken : t <= g.after
      BY <1>6, <2>2, <2>3, <3>1 DEF Trusts
    <3>2. \A x \in Ids : memo'[x].at > g.after => memo'[x].late \/ memo'[x].pack \in g.seen \cup {NoPack}
      BY <1>2, <2>2, <2>3 DEF Trusts
    <3>. QED  BY <3>1, <3>2 DEF Trusts
  <2>8. Refused(g)'
    BY <1>2, <2>2, <2>3 DEF Refused
  <2>. QED  BY <2>2, <2>5, <2>6, <2>7, <2>8 DEF Good
<1>13. \A r \in Requests : Good(request[r])'
  BY <1>12 DEF Good
<1>14. warm'.pc \in {"known", "read"} => warm'.si \in Ids
  BY <1>5, WarmTypes
<1>. QED  BY <1>7, <1>9, <1>10, <1>11, <1>13, <1>14 DEF ServingInv

LEMMA RemovalKeeps ==
  ASSUME ServingInv, RemovalDeletes
  PROVE  ServingInv'
<1>1. /\ kept' = kept \ {served} /\ ~going /\ going' = TRUE /\ UNCHANGED served
      /\ UNCHANGED <<second, reportAt, publishing, memo, cached, notices, warm>>
  BY DEF RemovalDeletes, Empties
<1>2. \A r \in Requests : request'[r] = [request[r] EXCEPT !.removed = request[r].pc # "idle"]
  BY DEF RemovalDeletes
<1>3. \A r \in Requests :
        /\ request'[r] \in Request
        /\ request'[r].pc = request[r].pc /\ request'[r].found = request[r].found
        /\ request'[r].overtaken = request[r].overtaken
  <2>. TAKE r \in Requests
  <2>1. PICK q \in Request : q = request[r]
    BY RequestIsRequest
  <2>2. PICK b \in BOOLEAN : b = (q.pc # "idle")
    OBVIOUS
  <2>3. request'[r] = [q EXCEPT !.removed = b]
    BY <1>2, <2>1, <2>2
  <2>. QED  BY <2>1, <2>3 DEF Request
<1>4. request' \in [Requests -> Request] /\ \A x, o : Finding(x, o)' <=> Finding(x, o)
  BY <1>1, <1>3, NotedStep DEF RemovalDeletes
<1>5. ServingTypeOK'
  BY <1>1, <1>4 DEF ServingInv, ServingTypeOK, StoreTypeOK
<1>6. ServedIsKept' /\ StampsNow' /\ FoundIsServed' /\ MemoIsCurrent'
  BY <1>1, <1>4 DEF ServingInv, ServedIsKept, StampsNow, FoundIsServed, MemoIsCurrent
<1>7. ASSUME NEW r \in Requests, request'[r].pc # "idle"
      PROVE  Good(request[r])'
  <2>1. PICK q \in Request : q = request[r] /\ Good(q) /\ q.pc # "idle"
    BY <1>3, <1>7, RequestIsRequest
  <2>2. PICK g : g = request'[r] /\ g = [q EXCEPT !.removed = TRUE]
    BY <1>2, <2>1
  <2>3. /\ g.pc = q.pc /\ g.si = q.si /\ g.after = q.after /\ g.pack = q.pack /\ g.tries = q.tries
        /\ g.found = q.found /\ g.removed = TRUE /\ g.seen = q.seen /\ g.late = q.late
    BY <2>2 DEF Request
  <2>4. SeesServed(q) /\ AsksWithSeen(q) /\ Trusts(q)
    BY <2>1 DEF Good
  <2>5. SeesServed(g)' /\ AsksWithSeen(g)' /\ Refused(g)'
    BY <1>1, <2>3, <2>4 DEF SeesServed, AsksWithSeen, Doubled, Refused
  <2>6. Trusts(g)'
    BY <1>1, <1>4, <2>3, <2>4 DEF Trusts
  <2>. QED  BY <2>2, <2>5, <2>6 DEF Good
<1>8. \A r \in Requests : Good(request[r])'
  BY <1>7 DEF Good
<1>. QED  BY <1>1, <1>5, <1>6, <1>8 DEF ServingInv

LEMMA RemovalRowKeeps ==
  ASSUME ServingInv, RemovalDeletesRow
  PROVE  ServingInv'
<1>1. /\ going = TRUE /\ served' = NoPack /\ going' = FALSE /\ UNCHANGED kept
      /\ publishing.pack = NoPack
      /\ request' = [r \in Requests |-> Sees(request[r], NoPack)]
      /\ UNCHANGED <<second, reportAt, publishing, memo, cached, notices, warm>>
  BY DEF RemovalDeletesRow, Withdraws, ServingInv, ServingTypeOK, StoreTypeOK
<1>2. \A r \in Requests : request[r] \in Request /\ request'[r] = Sees(request[r], NoPack)
  BY <1>1, RequestIsRequest
<1>3. request' \in [Requests -> Request] /\ \A x, o : Finding(x, o)' <=> Finding(x, o)
  BY <1>1, <1>2, SeenMore, NotedStep
<1>4. ServingTypeOK'
  BY <1>1, <1>3 DEF ServingInv, ServingTypeOK, StoreTypeOK
<1>5. ServedIsKept' /\ StampsNow' /\ FoundIsServed' /\ MemoIsCurrent'
  BY <1>1, <1>3 DEF ServingInv, ServedIsKept, StampsNow, FoundIsServed, MemoIsCurrent
<1>6. ASSUME NEW r \in Requests, request'[r].pc # "idle"
      PROVE  Good(request[r])'
  <2>1. PICK q \in Request : q = request[r] /\ Good(q) /\ q.pc # "idle"
    BY <1>2, <1>6, SeenMore, RequestIsRequest
  <2>2. PICK g : g = request'[r] /\ g = [q EXCEPT !.seen = @ \cup {NoPack}]
    BY <1>2, <2>1, SeenMore
  <2>3. /\ g.pc = q.pc /\ g.si = q.si /\ g.after = q.after /\ g.pack = q.pack /\ g.tries = q.tries
        /\ g.found = q.found /\ g.removed = q.removed /\ g.late = q.late /\ g.seen = q.seen \cup {NoPack}
    BY <2>2 DEF Request
  <2>4. SeesServed(q) /\ AsksWithSeen(q) /\ Trusts(q) /\ q.removed = TRUE
    BY <1>1, <2>1 DEF Good, SeesServed, Request
  <2>5. SeesServed(g)' /\ AsksWithSeen(g)' /\ Refused(g)'
    BY <1>1, <2>3, <2>4 DEF SeesServed, AsksWithSeen, Doubled, Refused
  <2>6. Trusts(g)'
    BY <1>1, <1>3, <2>3, <2>4 DEF Trusts
  <2>. QED  BY <2>2, <2>5, <2>6 DEF Good
<1>7. \A r \in Requests : Good(request[r])'
  BY <1>6 DEF Good
<1>. QED  BY <1>1, <1>4, <1>5, <1>7 DEF ServingInv

LEMMA TicksKeeps ==
  ASSUME ServingInv, Ticks
  PROVE  ServingInv'
<1>1. /\ second < MaxSecond /\ second' = second + 1
      /\ UNCHANGED <<served, kept, going, reportAt, publishing, memo, request, cached, notices, warm>>
  BY DEF Ticks, storeVars
<1>2. second \in Nat /\ reportAt \in Nat /\ publishing.at \in Nat /\ reportAt <= second
      /\ second' \in Seconds /\ \A x \in Ids : memo[x].at \in Nat /\ memo[x].at <= second
  BY <1>1, SecondsAreNats DEF ServingInv, ServingTypeOK, StampsNow, MemoIsCurrent, Seconds
<1>3. ServingTypeOK'
  BY <1>1, <1>2 DEF ServingInv, ServingTypeOK, StoreTypeOK
<1>4. \A x, o : Finding(x, o)' <=> Finding(x, o)
  BY <1>1 DEF Finding
<1>5. ServedIsKept' /\ StampsNow' /\ FoundIsServed' /\ MemoIsCurrent'
  BY <1>1, <1>2, <1>4 DEF ServingInv, ServedIsKept, StampsNow, FoundIsServed, MemoIsCurrent
<1>6. ASSUME NEW r \in Requests
      PROVE  Good(request[r])'
  <2>1. PICK q \in Request : q = request[r] /\ q = request'[r] /\ Good(q)
    BY <1>1, RequestIsRequest
  <2>2. q.after \in Nat
    BY SecondsAreNats DEF Request
  <2>3. Trusts(q) => Trusts(q)'
    BY <1>1, <1>4 DEF Trusts
  <2>4. SeesServed(q) => SeesServed(q)'
    BY <1>1, <1>2, <2>2 DEF SeesServed
  <2>5. (AsksWithSeen(q) => AsksWithSeen(q)') /\ (Refused(q) => Refused(q)')
    BY <1>1, <1>2, <2>2 DEF AsksWithSeen, Doubled, Refused
  <2>. QED  BY <2>1, <2>3, <2>4, <2>5 DEF Good
<1>. QED  BY <1>1, <1>3, <1>5, <1>6 DEF ServingInv

LEMMA ServingKeeps == ServingInv /\ [ServingNext]_servingVars => ServingInv'
<1>. SUFFICES ASSUME ServingInv, [ServingNext]_servingVars
     PROVE  ServingInv'
  OBVIOUS
<1>1. CASE UNCHANGED servingVars
  <2>1. UNCHANGED <<served, kept, going, second, reportAt, publishing, memo, request, cached, notices, warm>>
    BY <1>1 DEF servingVars, storeVars, siteVars
  <2>2. \A x, o : Finding(x, o)' <=> Finding(x, o)
    BY <2>1 DEF Finding
  <2>3. ServingTypeOK' /\ ServedIsKept' /\ StampsNow' /\ FoundIsServed' /\ MemoIsCurrent'
    BY <2>1, <2>2 DEF ServingInv, ServingTypeOK, StoreTypeOK, ServedIsKept, StampsNow, FoundIsServed, MemoIsCurrent
  <2>4. \A r \in Requests : Good(request[r])'
    BY <2>1, <2>2 DEF ServingInv, Good, SeesServed, AsksWithSeen, Doubled, Trusts, Refused
  <2>. QED  BY <2>1, <2>3, <2>4 DEF ServingInv
<1>2. CASE \E p \in StorePacks : Uploads(p) \/ TransactionStamps(p) \/ DeletesReplaced(p) \/ CacheDrops(p)
  BY <1>2, UploadsKeeps, StampsKeeps, CacheKeeps
<1>3. CASE TransactionCommits \/ TransactionFails \/ RemovalDeletes \/ RemovalDeletesRow \/ Ticks
  BY <1>3, CommitsKeeps, TransactionFailsKeeps, RemovalKeeps, RemovalRowKeeps, TicksKeeps
<1>4. CASE \E r \in Requests : \/ RequestReadsRow(r) \/ RequestRemembers(r) \/ RequestQueries(r)
                               \/ RequestLearns(r) \/ EngineRefuses(r) \/ EngineAnswers(r) \/ RequestEnds(r)
  BY <1>4, ReadsRowKeeps, RemembersKeeps, QueriesKeeps, LearnsKeeps, RefusesKeeps, AnswersKeeps, EndsKeeps
<1>5. CASE WarmForgets \/ WarmPackOf \/ WarmLearns \/ WarmAsks
  BY <1>5, ForgetsKeeps, PackOfKeeps, WarmLearnsKeeps, WarmAsksKeeps
<1>. QED  BY <1>1, <1>2, <1>3, <1>4, <1>5 DEF ServingNext

LEMMA ServingBegins == ServingInit => ServingInv
<1>. SUFFICES ASSUME ServingInit
     PROVE  ServingInv
  OBVIOUS
<1>1. NoMemo \in MemoType /\ NoMemo.at = 0
  BY MemoOfType
<1>2. NoRequest \in Request /\ NoRequest.pc = "idle"
  BY SecondsAreNats DEF NoRequest, Request
<1>3. ServingTypeOK
  <2>1. StoreTypeOK /\ second \in Seconds /\ reportAt \in Seconds /\ cached \subseteq StorePacks
    BY SecondsAreNats DEF ServingInit, StoreInit, StoreTypeOK
  <2>2. publishing \in [pack : StorePacks \cup {NoPack}, at : Seconds]
    BY SecondsAreNats DEF ServingInit
  <2>3. memo \in [Ids -> MemoType]
    BY <1>1 DEF ServingInit
  <2>4. request \in [Requests -> Request]
    BY <1>2 DEF ServingInit
  <2>5. notices \in Seq(Ids)
    BY DEF ServingInit
  <2>. QED  BY <2>1, <2>2, <2>3, <2>4, <2>5, NoWarmIsIdle DEF ServingInit, ServingTypeOK, MemoType, Warms
<1>4. StampsNow /\ ServedIsKept
  BY DEF ServingInit, StoreInit, StampsNow, ServedIsKept
<1>5. FoundIsServed /\ MemoIsCurrent
  BY <1>1, <1>2, NoWarmIsIdle DEF ServingInit, StoreInit, FoundIsServed, MemoIsCurrent, Finding
<1>. QED  BY <1>2, <1>3, <1>4, <1>5, NoWarmIsIdle DEF ServingInit, ServingInv, Good

LEMMA ServingHolds == ServingSpec => []ServingInv
BY ServingBegins, ServingKeeps, PTL DEF ServingSpec

-----------------------------------------------------------------------------
(* Theorems *)

\* The state keeps its types.
THEOREM ServingTypes == ServingSpec => []ServingTypeOK
<1>1. ServingInv => ServingTypeOK
  BY DEF ServingInv
<1>. QED  BY <1>1, ServingHolds, PTL

\* An answer is made from a pack that was the repository's while the request went on, whatever
\* was remembered, replaced, deleted or evicted when, and wherever the seconds pass; unless
\* what was remembered came late: for any requests at once.
THEOREM AnswersNeverStale == ServingSpec => []AnswersAreCurrent
<1>1. ServingInv => AnswersAreCurrent
  BY DEF ServingInv, Good, AsksWithSeen, AnswersAreCurrent
<1>. QED  BY <1>1, ServingHolds, PTL

\* A request ends without an answer only if its Report was replaced or removed meanwhile, or
\* if it took what was remembered late.
THEOREM AnsweredOrReplaced == ServingSpec => []AnsweredUnlessReplaced
<1>1. ServingInv => AnsweredUnlessReplaced
  BY DEF ServingInv, Good, AsksWithSeen, Doubled, AnsweredUnlessReplaced
<1>. QED  BY <1>1, ServingHolds, PTL

\* What a ReportStore promises: the pack the Site is sent to is in R2, but for the time
\* its Report is being removed.
THEOREM StoreKeepsServed == StoreSpec => []ServedIsKept
<1>1. StoreInit => ServedIsKept
  BY DEF StoreInit, ServedIsKept
<1>2. ServedIsKept /\ [StoreNext]_storeVars => ServedIsKept'
  BY DEF ServedIsKept, StoreNext, Stores, Publishes, Discards, Empties, Withdraws, storeVars
<1>. QED  BY <1>1, <1>2, PTL DEF StoreSpec

\* The answers are proved of a Site that stands on a ReportStore and on nothing more: what
\* Publication implements is all that Serving lets happen to what is served.
THEOREM ServingStandsOnStore == ServingSpec => StoreSpec
<1>1. ServingInit => StoreInit
  BY DEF ServingInit
<1>2. [ServingNext]_servingVars => [StoreNext]_storeVars
  <2>1. CASE UNCHANGED servingVars
    BY <2>1 DEF servingVars
  <2>2. ASSUME NEW p \in StorePacks,
               Uploads(p) \/ TransactionStamps(p) \/ DeletesReplaced(p) \/ CacheDrops(p)
        PROVE  [StoreNext]_storeVars
    BY <2>2 DEF Uploads, TransactionStamps, DeletesReplaced, CacheDrops, StoreNext
  <2>3. CASE TransactionCommits \/ TransactionFails \/ RemovalDeletes \/ RemovalDeletesRow \/ Ticks
    BY <2>3 DEF TransactionCommits, TransactionFails, RemovalDeletes, RemovalDeletesRow, Ticks, StoreNext
  <2>4. CASE \E r \in Requests : \/ RequestReadsRow(r) \/ RequestRemembers(r) \/ RequestQueries(r)
                                 \/ RequestLearns(r) \/ EngineRefuses(r) \/ EngineAnswers(r)
                                 \/ RequestEnds(r)
    BY <2>4 DEF RequestReadsRow, RequestRemembers, RequestQueries, RequestLearns, EngineRefuses,
                EngineAnswers, RequestEnds
  <2>5. CASE WarmForgets \/ WarmPackOf \/ WarmLearns \/ WarmAsks
    BY <2>5 DEF WarmForgets, WarmPackOf, WarmLearns, WarmAsks
  <2>. QED  BY <2>1, <2>2, <2>3, <2>4, <2>5 DEF ServingNext
<1>. QED  BY <1>1, <1>2, PTL DEF ServingSpec, StoreSpec

-----------------------------------------------------------------------------
(* EnginePacks: what is on the disk counts, and nobody waits for nothing *)

\* The files a load has still to count, or to delete.
OwesOf(h) ==
  {f \in File :
     \/ h.pc \in {"counts", "drops"} /\ f = Pack(h.key)
     \/ h.pc = "keeps" /\ f = Unpacked(h.key)
     \/ h.pc \in {"drops", "clears", "clearsAll", "forgets", "removes"} /\ f \in h.gone}

Accounted(f) == f \in used \/ \E a \in Askers : f \in OwesOf(asker[a])

\* Who waits, or loads, does so on a cell.
HasCells == \A a \in Askers : asker[a].pc \notin {"idle", "asks"} => asker[a].cell # 0

EngineInv ==
  /\ EngineTypeOK
  /\ IsFiniteSet(used)
  /\ HasCells
  /\ \A f \in onDisk : Accounted(f)
  /\ NoCellIsLeft

-----------------------------------------------------------------------------
(* One asker moves *)

LEMMA FilesAreFiles == \A k \in EngineKeys : Pack(k) \in File /\ Unpacked(k) \in File
BY DEF File, Pack, Unpacked

LEMMA IsAsking ==
  ASSUME EngineTypeOK, NEW a \in Askers, asker[a].pc # "idle"
  PROVE  asker[a] \in Asking
BY DEF EngineTypeOK, NotAsking

\* The asker goes on with its pack and its cell.
GoesOnWith(a, h) ==
  /\ asker[a] \in Asking /\ h \in Asking /\ asker[a].pc \notin {"idle", "asks"}
  /\ asker' = [asker EXCEPT ![a] = h]
  /\ h.key = asker[a].key /\ h.cell = asker[a].cell
  /\ UNCHANGED loading

LEMMA MovesTyped ==
  ASSUME EngineTypeOK, NEW a \in Askers, NEW h \in Asking \cup {NotAsking}, asker' = [asker EXCEPT ![a] = h]
  PROVE  /\ asker' \in [Askers -> Asking \cup {NotAsking}]
         /\ asker'[a] = h
         /\ \A b \in Askers \ {a} : asker'[b] = asker[b]
BY DEF EngineTypeOK

\* A file is accounted for when what the asker owed of it is done, or it still owes it.
LEMMA MovesAccounted ==
  ASSUME EngineInv, NEW a \in Askers, NEW h \in Asking \cup {NotAsking},
         asker' = [asker EXCEPT ![a] = h],
         \A f \in onDisk' :
           \/ f \in used' \/ f \in OwesOf(h)
           \/ f \in onDisk /\ f \notin OwesOf(asker[a]) /\ (f \in used => f \in used')
  PROVE  (\A f \in onDisk : Accounted(f))'
<1>. SUFFICES ASSUME NEW f \in onDisk'
     PROVE  f \in used' \/ \E b \in Askers : f \in OwesOf(asker'[b])
  BY DEF Accounted, OwesOf
<1>1. asker'[a] = h /\ \A b \in Askers \ {a} : asker'[b] = asker[b]
  BY MovesTyped DEF EngineInv
<1>2. CASE f \in used' \/ f \in OwesOf(h)
  BY <1>1, <1>2
<1>3. CASE f \in onDisk /\ f \notin OwesOf(asker[a]) /\ (f \in used => f \in used')
  <2>1. f \in used \/ \E b \in Askers : f \in OwesOf(asker[b])
    BY <1>3 DEF EngineInv, Accounted
  <2>2. CASE f \in used
    BY <1>3, <2>2
  <2>3. CASE \E b \in Askers : f \in OwesOf(asker[b])
    <3>1. PICK b \in Askers : f \in OwesOf(asker[b])
      BY <2>3
    <3>. QED  BY <1>1, <1>3, <3>1
  <2>. QED  BY <2>1, <2>2, <2>3
<1>. QED  BY <1>2, <1>3

LEMMA MovesKeepCells ==
  ASSUME EngineInv, NEW a \in Askers, NEW h, GoesOnWith(a, h)
  PROVE  NoCellIsLeft'
<1>1. asker'[a] = h /\ \A b \in Askers \ {a} : asker'[b] = asker[b]
  BY MovesTyped DEF EngineInv, GoesOnWith
<1>. SUFFICES ASSUME NEW k \in EngineKeys, loading[k] # 0
     PROVE  \E b \in Askers : asker'[b].pc # "idle" /\ asker'[b].key = k /\ asker'[b].cell = loading[k]
  BY DEF NoCellIsLeft, GoesOnWith
<1>2. PICK b \in Askers : asker[b].pc # "idle" /\ asker[b].key = k /\ asker[b].cell = loading[k]
  BY DEF EngineInv, NoCellIsLeft
<1>3. h.pc # "idle"
  BY DEF GoesOnWith, Asking, LoadSteps
<1>. QED  BY <1>1, <1>2, <1>3 DEF GoesOnWith

\* A step of one asker that goes on, as a whole.
LEMMA StepKeeps ==
  ASSUME EngineInv, NEW a \in Askers, NEW h, GoesOnWith(a, h),
         onDisk' \subseteq File, memory' \subseteq EngineKeys, filled' \subseteq Cells,
         used' \subseteq File, IsFiniteSet(used'), Cardinality(used') <= DiskFiles,
         \A f \in onDisk' :
           \/ f \in used' \/ f \in OwesOf(h)
           \/ f \in onDisk /\ f \notin OwesOf(asker[a]) /\ (f \in used => f \in used')
  PROVE  EngineInv'
<1>1. h \in Asking \cup {NotAsking} /\ asker' = [asker EXCEPT ![a] = h] /\ loading' = loading
  BY DEF GoesOnWith
<1>2. asker' \in [Askers -> Asking \cup {NotAsking}]
  BY <1>1, MovesTyped DEF EngineInv
<1>3. EngineTypeOK'
  BY <1>1, <1>2 DEF EngineInv, EngineTypeOK, Asking, File, Cells
<1>4. (\A f \in onDisk : Accounted(f))'
  BY <1>1, MovesAccounted
<1>5. NoCellIsLeft'
  BY MovesKeepCells
<1>6. HasCells'
  <2>. SUFFICES ASSUME NEW b \in Askers, asker'[b].pc \notin {"idle", "asks"}  PROVE asker'[b].cell # 0
    BY DEF HasCells
  <2>1. asker'[a] = h /\ \A c \in Askers \ {a} : asker'[c] = asker[c]
    BY <1>1, MovesTyped DEF EngineInv
  <2>. QED  BY <2>1 DEF GoesOnWith, EngineInv, HasCells
<1>. QED  BY <1>3, <1>4, <1>5, <1>6 DEF EngineInv

\* A step that leaves the files alone, too.
LEMMA MoveKeeps ==
  ASSUME EngineInv, NEW a \in Askers, NEW h, GoesOnWith(a, h),
         onDisk' \subseteq onDisk, UNCHANGED used,
         memory' \subseteq EngineKeys, filled' \subseteq Cells,
         \A f \in onDisk' : f \in OwesOf(asker[a]) => f \in OwesOf(h)
  PROVE  EngineInv'
<1>1. onDisk' \subseteq File /\ used' \subseteq File /\ IsFiniteSet(used') /\ Cardinality(used') <= DiskFiles
  BY DEF EngineInv, EngineTypeOK
<1>2. \A f \in onDisk' :
        \/ f \in used' \/ f \in OwesOf(h)
        \/ f \in onDisk /\ f \notin OwesOf(asker[a]) /\ (f \in used => f \in used')
  OBVIOUS
<1>. QED  BY <1>1, <1>2, StepKeeps

-----------------------------------------------------------------------------
(* Where an asker goes *)

AskerSteps == {"asks", "waits", "fails", "returns"} \cup LoadSteps

AskerAt(a, pc) == [asker[a] EXCEPT !.pc = pc]
AskerWith(a, pc, gone) == [asker[a] EXCEPT !.pc = pc, !.gone = gone]

LEMMA GoesAt ==
  ASSUME EngineTypeOK, NEW a \in Askers, asker[a].pc \notin {"idle", "asks"}, NEW pc \in AskerSteps,
         Goes(a, pc), UNCHANGED loading
  PROVE  /\ GoesOnWith(a, AskerAt(a, pc))
         /\ AskerAt(a, pc).pc = pc /\ AskerAt(a, pc).key = asker[a].key /\ AskerAt(a, pc).gone = asker[a].gone
<1>1. asker[a] \in Asking
  BY IsAsking
<1>2. AskerAt(a, pc) \in Asking
  BY <1>1 DEF AskerAt, Asking, AskerSteps
<1>3. asker' = [asker EXCEPT ![a] = AskerAt(a, pc)]
  BY DEF Goes, AskerAt
<1>. QED  BY <1>1, <1>2, <1>3 DEF GoesOnWith, AskerAt, Asking

LEMMA GoesWith ==
  ASSUME EngineTypeOK, NEW a \in Askers, asker[a].pc \notin {"idle", "asks"}, NEW pc \in AskerSteps,
         NEW gone \in SUBSET File,
         asker' = [asker EXCEPT ![a].pc = pc, ![a].gone = gone], UNCHANGED loading
  PROVE  /\ GoesOnWith(a, AskerWith(a, pc, gone))
         /\ AskerWith(a, pc, gone).pc = pc /\ AskerWith(a, pc, gone).key = asker[a].key
         /\ AskerWith(a, pc, gone).gone = gone
<1>1. asker[a] \in Asking
  BY IsAsking
<1>2. AskerWith(a, pc, gone) \in Asking
  BY <1>1 DEF AskerWith, Asking, AskerSteps
<1>3. asker' = [asker EXCEPT ![a] = AskerWith(a, pc, gone)]
  BY DEF AskerWith
<1>. QED  BY <1>1, <1>2, <1>3 DEF GoesOnWith, AskerWith, Asking

\* Nothing is owed but in some of a load's steps.
LEMMA OwesNothing ==
  ASSUME NEW h, h.pc \in {"asks", "waits", "fails", "returns", "fetches", "unpacks", "writes", "opens"}
  PROVE  OwesOf(h) = {}
BY DEF OwesOf

LEMMA FieldsOf ==
  ASSUME EngineTypeOK, NEW a \in Askers, asker[a].pc # "idle"
  PROVE  asker[a].key \in EngineKeys /\ asker[a].cell \in Cells \cup {0} /\ asker[a].gone \subseteq File
BY IsAsking DEF Asking

-----------------------------------------------------------------------------
(* get *)

LEMMA EngineAsksKeeps ==
  ASSUME EngineInv, NEW a \in Askers, NEW k \in EngineKeys, AsksFor(a, k)
  PROVE  EngineInv'
<1>. DEFINE h == [pc |-> "asks", key |-> k, cell |-> 0, gone |-> {}]
<1>1. h \in Asking \cup {NotAsking} /\ asker' = [asker EXCEPT ![a] = h]
  BY DEF AsksFor, Asking
<1>2. asker' \in [Askers -> Asking \cup {NotAsking}] /\ asker'[a] = h
      /\ \A b \in Askers \ {a} : asker'[b] = asker[b]
  BY <1>1, MovesTyped DEF EngineInv
<1>3. UNCHANGED <<onDisk, used, memory, loading, filled>> /\ asker[a].pc = "idle"
  BY DEF AsksFor, IsAt
<1>4. EngineTypeOK'
  BY <1>2, <1>3 DEF EngineInv, EngineTypeOK, Asking, File, Cells
<1>5. OwesOf(asker[a]) = {}
  BY <1>3 DEF OwesOf
<1>6. (\A f \in onDisk : Accounted(f))'
  BY <1>1, <1>3, <1>5, MovesAccounted
<1>7. NoCellIsLeft'
  BY <1>2, <1>3 DEF EngineInv, NoCellIsLeft
<1>8. HasCells'
  BY <1>2 DEF EngineInv, HasCells
<1>. QED  BY <1>3, <1>4, <1>6, <1>7, <1>8 DEF EngineInv

LEMMA JoinsKeeps ==
  ASSUME EngineInv, NEW a \in Askers, JoinsCell(a)
  PROVE  EngineInv'
<1>. DEFINE k == asker[a].key
<1>1. PICK cell \in Cells :
        /\ loading[k] # 0 => cell = loading[k]
        /\ loading' = [loading EXCEPT ![k] = cell]
        /\ asker' = [asker EXCEPT ![a].pc = "waits", ![a].cell = cell]
  BY DEF JoinsCell
<1>. DEFINE h == [asker[a] EXCEPT !.pc = "waits", !.cell = cell]
<1>2. UNCHANGED <<onDisk, used, memory, filled>> /\ asker[a].pc = "asks"
  BY DEF JoinsCell, IsAt
<1>3. asker[a] \in Asking
  BY <1>2, IsAsking DEF EngineInv
<1>4. h \in Asking /\ h.pc = "waits" /\ h.key = k /\ h.cell = cell /\ k \in EngineKeys
  BY <1>3 DEF Asking
<1>5. asker' = [asker EXCEPT ![a] = h]
  BY <1>1
<1>. HIDE DEF h
<1>6. asker' \in [Askers -> Asking \cup {NotAsking}] /\ asker'[a] = h
      /\ \A b \in Askers \ {a} : asker'[b] = asker[b]
  BY <1>4, <1>5, MovesTyped DEF EngineInv
<1>7. loading \in [EngineKeys -> Cells \cup {0}] /\ loading' \in [EngineKeys -> Cells \cup {0}]
  BY <1>1, <1>4 DEF EngineInv, EngineTypeOK
<1>8. EngineTypeOK'
  BY <1>2, <1>6, <1>7 DEF EngineInv, EngineTypeOK, Asking, File, Cells
<1>9. OwesOf(asker[a]) = {}
  BY <1>2, OwesNothing
<1>10. (\A f \in onDisk : Accounted(f))'
  BY <1>2, <1>4, <1>5, <1>9, MovesAccounted
<1>11. NoCellIsLeft'
  <2>. SUFFICES ASSUME NEW j \in EngineKeys, loading'[j] # 0
       PROVE  \E b \in Askers : asker'[b].pc # "idle" /\ asker'[b].key = j /\ asker'[b].cell = loading'[j]
    BY DEF NoCellIsLeft
  <2>1. CASE j = k
    BY <2>1, <1>1, <1>4, <1>6, <1>7
  <2>2. CASE j # k
    <3>1. loading'[j] = loading[j]
      BY <2>2, <1>1, <1>7
    <3>2. PICK b \in Askers : asker[b].pc # "idle" /\ asker[b].key = j /\ asker[b].cell = loading[j]
      BY <3>1 DEF EngineInv, NoCellIsLeft
    <3>. QED  BY <3>1, <3>2, <2>2, <1>6
  <2>. QED  BY <2>1, <2>2
<1>12. HasCells'
  BY <1>4, <1>6 DEF EngineInv, HasCells, Cells
<1>. QED  BY <1>2, <1>8, <1>10, <1>11, <1>12 DEF EngineInv

LEMMA ReturnsKeeps ==
  ASSUME EngineInv, NEW a \in Askers, GetReturns(a)
  PROVE  EngineInv'
<1>1. UNCHANGED <<onDisk, used, memory>> /\ asker[a].pc \in {"fails", "returns"}
      /\ asker' = [asker EXCEPT ![a] = NotAsking] /\ filled' \subseteq filled
  BY DEF GetReturns
<1>2. asker' \in [Askers -> Asking \cup {NotAsking}] /\ asker'[a] = NotAsking
      /\ \A b \in Askers \ {a} : asker'[b] = asker[b]
  BY <1>1, MovesTyped DEF EngineInv
<1>3. asker[a].key \in EngineKeys
  BY <1>1, FieldsOf DEF EngineInv
<1>4. /\ loading \in [EngineKeys -> Cells \cup {0}] /\ loading' \in [EngineKeys -> Cells \cup {0}]
      /\ \A k \in EngineKeys : loading'[k] # 0 =>
           loading'[k] = loading[k] /\ ~(k = asker[a].key /\ loading[k] = asker[a].cell)
  BY <1>3 DEF GetReturns, Leaves, EngineInv, EngineTypeOK
<1>5. EngineTypeOK'
  BY <1>1, <1>2, <1>4 DEF EngineInv, EngineTypeOK, Asking, File, Cells
<1>6. OwesOf(asker[a]) = {}
  BY <1>1, OwesNothing
<1>7. (\A f \in onDisk : Accounted(f))'
  BY <1>1, <1>6, MovesAccounted
<1>8. NoCellIsLeft'
  BY <1>2, <1>4 DEF EngineInv, NoCellIsLeft
<1>9. HasCells'
  BY <1>2 DEF EngineInv, HasCells, NotAsking
<1>. QED  BY <1>1, <1>5, <1>7, <1>8, <1>9 DEF EngineInv

\* A step that changes neither files nor names, from where nothing is owed or to where the
\* same is.
LEMMA EngineQuietKeeps ==
  ASSUME EngineInv, NEW a \in Askers, asker[a].pc \notin {"idle", "asks"}, NEW pc \in AskerSteps, Goes(a, pc),
         UNCHANGED <<onDisk, used, loading>>, memory' \subseteq EngineKeys, filled' \subseteq Cells,
         OwesOf(asker[a]) = {}
  PROVE  EngineInv'
<1>1. GoesOnWith(a, AskerAt(a, pc))
  BY GoesAt DEF EngineInv
<1>. QED  BY <1>1, MoveKeeps

LEMMA WaitKeeps ==
  ASSUME EngineInv, NEW a \in Askers, WaitIsOver(a)
  PROVE  EngineInv'
<1>1. asker[a].pc = "waits" /\ Goes(a, "returns") /\ UNCHANGED <<onDisk, used, loading, memory, filled>>
  BY DEF WaitIsOver, IsAt
<1>2. OwesOf(asker[a]) = {} /\ "returns" \in AskerSteps
  BY <1>1, OwesNothing DEF AskerSteps
<1>. QED  BY <1>1, <1>2, EngineQuietKeeps DEF EngineInv, EngineTypeOK

-----------------------------------------------------------------------------
(* load *)

LEMMA EngineAnswersKeeps ==
  ASSUME EngineInv, NEW a \in Askers, asker[a].pc \notin {"idle", "asks"}, Answers(a),
         UNCHANGED <<onDisk, used, loading>>, OwesOf(asker[a]) = {}
  PROVE  EngineInv'
<1>1. asker[a].key \in EngineKeys /\ asker[a].cell \in Cells
  BY FieldsOf DEF EngineInv, HasCells
<1>2. memory' \subseteq EngineKeys /\ filled' \subseteq Cells /\ Goes(a, "returns") /\ "returns" \in AskerSteps
  BY <1>1 DEF Answers, EngineInv, EngineTypeOK, AskerSteps
<1>. QED  BY <1>2, EngineQuietKeeps

LEMMA BeginsKeeps ==
  ASSUME EngineInv, NEW a \in Askers, LoadBegins(a)
  PROVE  EngineInv'
<1>1. asker[a].pc = "waits" /\ UNCHANGED <<onDisk, used, memory, loading>>
  BY DEF LoadBegins, IsAt
<1>2. asker[a].cell \in Cells /\ OwesOf(asker[a]) = {}
  BY <1>1, FieldsOf, OwesNothing DEF EngineInv, HasCells
<1>3. PICK pc \in AskerSteps : Goes(a, pc)
  BY DEF LoadBegins, AskerSteps, LoadSteps
<1>4. filled' \subseteq Cells
  BY <1>2 DEF LoadBegins, EngineInv, EngineTypeOK
<1>. QED  BY <1>1, <1>2, <1>3, <1>4, EngineQuietKeeps DEF EngineInv, EngineTypeOK

LEMMA FetchKeeps ==
  ASSUME EngineInv, NEW a \in Askers, FetchEnds(a)
  PROVE  EngineInv'
<1>. DEFINE k == asker[a].key
<1>1. asker[a].pc = "fetches" /\ UNCHANGED <<used, memory, loading, filled>>
  BY DEF FetchEnds, IsAt
<1>2. k \in EngineKeys /\ OwesOf(asker[a]) = {}
  BY <1>1, FieldsOf, OwesNothing DEF EngineInv
<1>3. CASE onDisk' = onDisk \cup {Pack(k)} /\ Goes(a, "counts")
  <2>. DEFINE h == AskerAt(a, "counts")
  <2>1. GoesOnWith(a, h) /\ h.pc = "counts" /\ h.key = k
    BY <1>1, <1>3, GoesAt DEF EngineInv, AskerSteps, LoadSteps
  <2>. HIDE DEF h
  <2>2. Pack(k) \in OwesOf(h)
    BY <1>2, <2>1, FilesAreFiles DEF OwesOf
  <2>3. onDisk' \subseteq File /\ used' \subseteq File /\ IsFiniteSet(used') /\ Cardinality(used') <= DiskFiles
        /\ memory' \subseteq EngineKeys /\ filled' \subseteq Cells
    BY <1>1, <1>2, <1>3, FilesAreFiles DEF EngineInv, EngineTypeOK
  <2>4. \A f \in onDisk' :
          \/ f \in used' \/ f \in OwesOf(h)
          \/ f \in onDisk /\ f \notin OwesOf(asker[a]) /\ (f \in used => f \in used')
    BY <1>1, <1>2, <1>3, <2>2
  <2>. QED  BY <2>1, <2>3, <2>4, StepKeeps
<1>4. CASE Goes(a, "fails") /\ UNCHANGED onDisk
  BY <1>1, <1>2, <1>4, EngineQuietKeeps DEF AskerSteps, EngineInv, EngineTypeOK
<1>. QED  BY <1>3, <1>4 DEF FetchEnds

\* What Inserts leaves, and what it lets go.
LEMMA InsertsKeeps ==
  ASSUME NEW lru, lru \subseteq File, IsFiniteSet(lru), NEW f \in File, Inserts(lru, f)
  PROVE  /\ used' \subseteq File /\ IsFiniteSet(used') /\ Cardinality(used') <= DiskFiles
         /\ f \in used' /\ used' \subseteq lru \cup {f}
<1>1. used' \subseteq lru \cup {f} /\ f \in used' /\ Cardinality(used') <= DiskFiles
  BY DEF Inserts
<1>2. IsFiniteSet(lru \cup {f})
  BY FS_AddElement
<1>. QED  BY <1>1, <1>2, FS_Subset

\* A file counted, which is what the load owed: what goes to make room is owed instead.
LEMMA CountKeeps ==
  ASSUME EngineInv, NEW a \in Askers, asker[a].pc \notin {"idle", "asks"},
         NEW lru, lru \subseteq used, NEW f \in File, NEW pc \in {"clears", "drops"},
         CountsFile(a, lru, f, pc), UNCHANGED <<onDisk, memory, loading, filled>>,
         OwesOf(asker[a]) \subseteq {f},
         \A g \in used \ lru : pc = "drops" /\ g = Pack(asker[a].key)
  PROVE  EngineInv'
<1>. DEFINE gone == lru \ used'
<1>1. lru \subseteq File /\ IsFiniteSet(lru)
  BY FS_Subset DEF EngineInv, EngineTypeOK
<1>2. /\ used' \subseteq File /\ IsFiniteSet(used') /\ Cardinality(used') <= DiskFiles
      /\ f \in used' /\ used' \subseteq lru \cup {f}
  BY <1>1, InsertsKeeps DEF CountsFile
<1>3. asker' = [asker EXCEPT ![a].pc = pc, ![a].gone = gone] /\ gone \in SUBSET File /\ pc \in AskerSteps
  BY <1>1 DEF CountsFile, AskerSteps, LoadSteps
<1>. DEFINE h == AskerWith(a, pc, gone)
<1>. HIDE DEF gone
<1>4. GoesOnWith(a, h) /\ h.pc = pc /\ h.key = asker[a].key /\ h.gone = gone
  <2>1. asker[a] \in Asking
    BY IsAsking DEF EngineInv
  <2>2. h \in Asking /\ h.pc = pc /\ h.key = asker[a].key /\ h.gone = gone /\ h.cell = asker[a].cell
    BY <1>3, <2>1 DEF AskerWith, Asking, AskerSteps
  <2>3. asker' = [asker EXCEPT ![a] = h]
    BY <1>3 DEF AskerWith
  <2>. HIDE DEF h
  <2>. QED  BY <2>1, <2>2, <2>3 DEF GoesOnWith
<1>. HIDE DEF h
<1>5. \A g \in used : g \in used' \/ g \in OwesOf(h)
  <2>. SUFFICES ASSUME NEW g \in used, g \notin used'  PROVE g \in OwesOf(h)
    OBVIOUS
  <2>1. g \in File
    BY DEF EngineInv, EngineTypeOK
  <2>2. CASE g \in lru
    BY <2>1, <2>2, <1>4 DEF gone, OwesOf
  <2>3. CASE g \notin lru
    BY <2>1, <2>3, <1>4 DEF OwesOf
  <2>. QED  BY <2>2, <2>3
<1>6. \A g \in onDisk' :
        \/ g \in used' \/ g \in OwesOf(h)
        \/ g \in onDisk /\ g \notin OwesOf(asker[a]) /\ (g \in used => g \in used')
  BY <1>2, <1>5
<1>7. onDisk' \subseteq File /\ memory' \subseteq EngineKeys /\ filled' \subseteq Cells
  BY DEF EngineInv, EngineTypeOK
<1>. QED  BY <1>2, <1>4, <1>6, <1>7, StepKeeps

LEMMA FetchCountKeeps ==
  ASSUME EngineInv, NEW a \in Askers, FetchIsCounted(a)
  PROVE  EngineInv'
<1>1. asker[a].pc = "counts" /\ UNCHANGED <<onDisk, memory, loading, filled>>
  BY DEF FetchIsCounted, IsAt
<1>2. Pack(asker[a].key) \in File
  BY <1>1, FieldsOf, FilesAreFiles DEF EngineInv
<1>3. CountsFile(a, used, Pack(asker[a].key), "clears")
  BY DEF FetchIsCounted
<1>4. OwesOf(asker[a]) \subseteq {Pack(asker[a].key)}
  BY <1>1 DEF OwesOf
<1>. QED  BY <1>1, <1>2, <1>3, <1>4, CountKeeps

LEMMA UnpackCountKeeps ==
  ASSUME EngineInv, NEW a \in Askers, UnpackIsCounted(a)
  PROVE  EngineInv'
<1>. DEFINE k == asker[a].key  lru == used \ {Pack(k)}
<1>1. asker[a].pc = "keeps" /\ UNCHANGED <<onDisk, memory, loading, filled>>
  BY DEF UnpackIsCounted, IsAt
<1>2. Unpacked(k) \in File
  BY <1>1, FieldsOf, FilesAreFiles DEF EngineInv
<1>3. CountsFile(a, lru, Unpacked(k), "drops")
  BY DEF UnpackIsCounted
<1>4. OwesOf(asker[a]) \subseteq {Unpacked(k)}
  BY <1>1 DEF OwesOf
<1>5. lru \subseteq used /\ \A g \in used \ lru : g = Pack(k)
  OBVIOUS
<1>. HIDE DEF lru
<1>. QED  BY <1>1, <1>2, <1>3, <1>4, <1>5, CountKeeps

LEMMA ClearsKeeps ==
  ASSUME EngineInv, NEW a \in Askers, Clears(a)
  PROVE  EngineInv'
<1>1. asker[a].pc \in {"clears", "clearsAll"} /\ UNCHANGED <<used, memory, loading, filled>>
  BY DEF Clears
<1>2. asker[a].gone \subseteq File /\ asker[a] \in Asking
  BY <1>1, FieldsOf, IsAsking DEF EngineInv
<1>3. memory' \subseteq EngineKeys /\ filled' \subseteq Cells
  BY <1>1 DEF EngineInv, EngineTypeOK
<1>4. CASE \E f \in asker[a].gone : onDisk' = onDisk \ {f} /\ asker' = [asker EXCEPT ![a].gone = @ \ {f}]
  <2>1. PICK f \in asker[a].gone :
          onDisk' = onDisk \ {f} /\ asker' = [asker EXCEPT ![a].gone = @ \ {f}]
    BY <1>4
  <2>. DEFINE h == [asker[a] EXCEPT !.gone = @ \ {f}]
  <2>2. h \in Asking /\ h.key = asker[a].key /\ h.cell = asker[a].cell /\ h.pc = asker[a].pc
        /\ h.gone = asker[a].gone \ {f}
    BY <1>2 DEF Asking
  <2>3. asker' = [asker EXCEPT ![a] = h]
    BY <2>1
  <2>. HIDE DEF h
  <2>4. GoesOnWith(a, h)
    BY <1>1, <1>2, <2>2, <2>3 DEF GoesOnWith
  <2>5. \A g \in onDisk' : g \in OwesOf(asker[a]) => g \in OwesOf(h)
    BY <1>1, <2>1, <2>2 DEF OwesOf
  <2>6. onDisk' \subseteq onDisk
    BY <2>1
  <2>. QED  BY <1>1, <1>3, <2>4, <2>5, <2>6, MoveKeeps
<1>5. CASE asker[a].gone = {} /\ UNCHANGED onDisk
           /\ Goes(a, IF IsAt(a, "clears") THEN "unpacks" ELSE "opens")
  <2>1. PICK pc \in AskerSteps : Goes(a, pc)
    BY <1>5 DEF AskerSteps, LoadSteps
  <2>2. OwesOf(asker[a]) = {}
    BY <1>1, <1>5 DEF OwesOf
  <2>. QED  BY <1>1, <1>3, <1>5, <2>1, <2>2, EngineQuietKeeps
<1>. QED  BY <1>4, <1>5 DEF Clears

\* A load that forgets a file owes its deletion.
LEMMA EngineForgetKeeps ==
  ASSUME EngineInv, NEW a \in Askers, asker[a].pc \notin {"idle", "asks"}, NEW f \in File, Forgets(a, f),
         UNCHANGED <<onDisk, used, memory, loading, filled>>, OwesOf(asker[a]) = {}
  PROVE  EngineInv'
<1>1. GoesOnWith(a, AskerWith(a, "forgets", {f}))
  BY GoesWith DEF EngineInv, Forgets, AskerSteps, LoadSteps
<1>2. memory' \subseteq EngineKeys /\ filled' \subseteq Cells
  BY DEF EngineInv, EngineTypeOK
<1>. QED  BY <1>1, <1>2, MoveKeeps

LEMMA UnpackKeeps ==
  ASSUME EngineInv, NEW a \in Askers, UnpackBegins(a)
  PROVE  EngineInv'
<1>1. asker[a].pc = "unpacks" /\ UNCHANGED <<onDisk, used, memory, loading, filled>>
  BY DEF UnpackBegins, IsAt
<1>2. Pack(asker[a].key) \in File /\ OwesOf(asker[a]) = {}
  BY <1>1, FieldsOf, FilesAreFiles, OwesNothing DEF EngineInv
<1>3. CASE Goes(a, "writes")
  BY <1>1, <1>2, <1>3, EngineQuietKeeps DEF AskerSteps, LoadSteps, EngineInv, EngineTypeOK
<1>4. CASE Forgets(a, Pack(asker[a].key))
  BY <1>1, <1>2, <1>4, EngineForgetKeeps
<1>. QED  BY <1>3, <1>4 DEF UnpackBegins

LEMMA UnpackEndKeeps ==
  ASSUME EngineInv, NEW a \in Askers, UnpackEnds(a)
  PROVE  EngineInv'
<1>. DEFINE k == asker[a].key
<1>1. asker[a].pc = "writes" /\ UNCHANGED <<used, memory, loading, filled>>
  BY DEF UnpackEnds, IsAt
<1>2. k \in EngineKeys /\ OwesOf(asker[a]) = {}
  BY <1>1, FieldsOf, OwesNothing DEF EngineInv
<1>3. CASE onDisk' = onDisk \cup {Unpacked(k)} /\ Goes(a, "keeps")
  <2>. DEFINE h == AskerAt(a, "keeps")
  <2>1. GoesOnWith(a, h) /\ h.pc = "keeps" /\ h.key = k
    BY <1>1, <1>3, GoesAt DEF EngineInv, AskerSteps, LoadSteps
  <2>. HIDE DEF h
  <2>2. Unpacked(k) \in OwesOf(h)
    BY <1>2, <2>1, FilesAreFiles DEF OwesOf
  <2>3. onDisk' \subseteq File /\ used' \subseteq File /\ IsFiniteSet(used') /\ Cardinality(used') <= DiskFiles
        /\ memory' \subseteq EngineKeys /\ filled' \subseteq Cells
    BY <1>1, <1>2, <1>3, FilesAreFiles DEF EngineInv, EngineTypeOK
  <2>4. \A f \in onDisk' :
          \/ f \in used' \/ f \in OwesOf(h)
          \/ f \in onDisk /\ f \notin OwesOf(asker[a]) /\ (f \in used => f \in used')
    BY <1>1, <1>2, <1>3, <2>2
  <2>. QED  BY <2>1, <2>3, <2>4, StepKeeps
<1>4. CASE Forgets(a, Pack(k)) /\ UNCHANGED onDisk
  BY <1>1, <1>2, <1>4, EngineForgetKeeps, FilesAreFiles
<1>. QED  BY <1>3, <1>4 DEF UnpackEnds

LEMMA OpensKeeps ==
  ASSUME EngineInv, NEW a \in Askers, Opens(a)
  PROVE  EngineInv'
<1>1. asker[a].pc = "opens" /\ UNCHANGED <<onDisk, used, loading>>
  BY DEF Opens, IsAt
<1>2. Unpacked(asker[a].key) \in File /\ OwesOf(asker[a]) = {}
  BY <1>1, FieldsOf, FilesAreFiles, OwesNothing DEF EngineInv
<1>3. CASE Answers(a)
  BY <1>1, <1>2, <1>3, EngineAnswersKeeps
<1>4. CASE Forgets(a, Unpacked(asker[a].key)) /\ UNCHANGED <<memory, filled>>
  BY <1>1, <1>2, <1>4, EngineForgetKeeps
<1>. QED  BY <1>3, <1>4 DEF Opens

LEMMA DropsKeeps ==
  ASSUME EngineInv, NEW a \in Askers, DropsPack(a)
  PROVE  EngineInv'
<1>1. asker[a].pc = "drops" /\ UNCHANGED <<used, memory, loading, filled>> /\ Goes(a, "clearsAll")
      /\ onDisk' = onDisk \ {Pack(asker[a].key)}
  BY DEF DropsPack, IsAt
<1>. DEFINE h == AskerAt(a, "clearsAll")
<1>2. GoesOnWith(a, h) /\ h.pc = "clearsAll" /\ h.gone = asker[a].gone
  BY <1>1, GoesAt DEF EngineInv, AskerSteps, LoadSteps
<1>. HIDE DEF h
<1>3. \A f \in onDisk' : f \in OwesOf(asker[a]) => f \in OwesOf(h)
  BY <1>1, <1>2 DEF OwesOf
<1>4. memory' \subseteq EngineKeys /\ filled' \subseteq Cells /\ onDisk' \subseteq onDisk
  BY <1>1 DEF EngineInv, EngineTypeOK
<1>. QED  BY <1>1, <1>2, <1>3, <1>4, MoveKeeps

LEMMA EngineForgetsKeeps ==
  ASSUME EngineInv, NEW a \in Askers, ForgetsName(a)
  PROVE  EngineInv'
<1>1. asker[a].pc = "forgets" /\ UNCHANGED <<onDisk, memory, loading, filled>> /\ Goes(a, "removes")
      /\ used' = used \ asker[a].gone
  BY DEF ForgetsName, IsAt
<1>. DEFINE h == AskerAt(a, "removes")
<1>2. GoesOnWith(a, h) /\ h.pc = "removes" /\ h.gone = asker[a].gone
  BY <1>1, GoesAt DEF EngineInv, AskerSteps, LoadSteps
<1>. HIDE DEF h
<1>3. asker[a].gone \subseteq File
  BY <1>1, FieldsOf DEF EngineInv
<1>4. \A f \in onDisk' :
        \/ f \in used' \/ f \in OwesOf(h)
        \/ f \in onDisk /\ f \notin OwesOf(asker[a]) /\ (f \in used => f \in used')
  BY <1>1, <1>2, <1>3 DEF OwesOf
<1>5. used' \subseteq used /\ IsFiniteSet(used) /\ used \subseteq File /\ Cardinality(used) <= DiskFiles
  BY <1>1 DEF EngineInv, EngineTypeOK
<1>6. IsFiniteSet(used') /\ used' \subseteq File /\ Cardinality(used') <= DiskFiles
  <2>1. IsFiniteSet(used') /\ Cardinality(used') <= Cardinality(used)
    BY <1>5, FS_Subset
  <2>2. Cardinality(used') \in Nat /\ Cardinality(used) \in Nat /\ DiskFiles \in Nat
    BY <1>5, <2>1, FS_CardinalityType, EnginePacksAssumption
  <2>. QED  BY <1>5, <2>1, <2>2
<1>7. memory' \subseteq EngineKeys /\ filled' \subseteq Cells /\ onDisk' \subseteq File
  BY <1>1 DEF EngineInv, EngineTypeOK
<1>. QED  BY <1>2, <1>4, <1>6, <1>7, StepKeeps

LEMMA RemovesKeeps ==
  ASSUME EngineInv, NEW a \in Askers, RemovesFile(a)
  PROVE  EngineInv'
<1>1. asker[a].pc = "removes" /\ UNCHANGED <<used, memory, loading, filled>>
      /\ onDisk' = onDisk \ asker[a].gone
      /\ asker' = [asker EXCEPT ![a].pc = "fails", ![a].gone = {}]
  BY DEF RemovesFile, IsAt
<1>2. GoesOnWith(a, AskerWith(a, "fails", {}))
  BY <1>1, GoesWith DEF EngineInv, AskerSteps
<1>3. \A f \in onDisk' : f \notin OwesOf(asker[a])
  BY <1>1 DEF OwesOf
<1>4. memory' \subseteq EngineKeys /\ filled' \subseteq Cells /\ onDisk' \subseteq onDisk
  BY <1>1 DEF EngineInv, EngineTypeOK
<1>. QED  BY <1>1, <1>2, <1>3, <1>4, MoveKeeps

LEMMA DecodesKeeps ==
  ASSUME EngineInv, NEW a \in Askers, DecodesWhole(a)
  PROVE  EngineInv'
<1>1. asker[a].pc = "unpacks" /\ Answers(a) /\ UNCHANGED <<onDisk, used, loading>>
  BY DEF DecodesWhole, IsAt
<1>. QED  BY <1>1, OwesNothing, EngineAnswersKeeps

LEMMA EngineFailsKeeps ==
  ASSUME EngineInv, NEW a \in Askers, WorkFails(a)
  PROVE  EngineInv'
<1>1. asker[a].pc \in {"unpacks", "writes", "opens"} /\ Goes(a, "fails")
      /\ UNCHANGED <<onDisk, used, memory, loading, filled>>
  BY DEF WorkFails
<1>. QED  BY <1>1, OwesNothing, EngineQuietKeeps DEF AskerSteps, EngineInv, EngineTypeOK

-----------------------------------------------------------------------------
(* Every step *)

LEMMA StaysKeeps ==
  ASSUME EngineInv, UNCHANGED <<onDisk, used, loading, filled, asker>>, memory' \subseteq memory
  PROVE  EngineInv'
BY DEF EngineInv, EngineTypeOK, IsLoading, NoCellIsLeft, HasCells, Accounted, OwesOf, Asking, File, Cells

LEMMA EngineKeeps ==
  ASSUME EngineInv, [EngineNext]_engineVars
  PROVE  EngineInv'
<1>1. CASE UNCHANGED engineVars
  BY <1>1, StaysKeeps DEF engineVars
<1>2. CASE MemoryLetsGo
  <2>1. UNCHANGED <<onDisk, used, loading, filled, asker>> /\ memory' \subseteq memory
    BY <1>2 DEF MemoryLetsGo
  <2>. QED  BY <2>1, StaysKeeps
<1>3. ASSUME NEW a \in Askers, NEW k \in EngineKeys, AsksFor(a, k)  PROVE EngineInv'
  BY <1>3, EngineAsksKeeps
<1>4. ASSUME NEW a \in Askers, JoinsCell(a) \/ WaitIsOver(a) \/ LoadBegins(a) \/ GetReturns(a)
      PROVE  EngineInv'
  BY <1>4, JoinsKeeps, WaitKeeps, BeginsKeeps, ReturnsKeeps
<1>5. ASSUME NEW a \in Askers, FetchEnds(a) \/ FetchIsCounted(a) \/ Clears(a)
      PROVE  EngineInv'
  BY <1>5, FetchKeeps, FetchCountKeeps, ClearsKeeps
<1>6. ASSUME NEW a \in Askers, UnpackBegins(a) \/ UnpackEnds(a) \/ UnpackIsCounted(a) \/ DropsPack(a)
      PROVE  EngineInv'
  BY <1>6, UnpackKeeps, UnpackEndKeeps, UnpackCountKeeps, DropsKeeps
<1>7. ASSUME NEW a \in Askers, DecodesWhole(a) \/ WorkFails(a) \/ Opens(a) \/ ForgetsName(a) \/ RemovesFile(a)
      PROVE  EngineInv'
  BY <1>7, DecodesKeeps, EngineFailsKeeps, OpensKeeps, EngineForgetsKeeps, RemovesKeeps
<1>. QED  BY <1>1, <1>2, <1>3, <1>4, <1>5, <1>6, <1>7 DEF EngineNext

LEMMA EngineBegins == EngineInit => EngineInv
<1>. SUFFICES ASSUME EngineInit  PROVE EngineInv
  OBVIOUS
<1>1. IsFiniteSet(used) /\ Cardinality(used) = 0 /\ DiskFiles \in Nat
  BY FS_EmptySet, EnginePacksAssumption DEF EngineInit
<1>2. EngineTypeOK
  BY <1>1 DEF EngineInit, EngineTypeOK
<1>. QED  BY <1>1, <1>2 DEF EngineInit, EngineInv, HasCells, NoCellIsLeft, NotAsking

LEMMA EngineHolds == EngineSpec => []EngineInv
BY EngineBegins, EngineKeeps, PTL DEF EngineSpec

\* The state is of its type, and the files the disk's SizedLru names never are more than fit.
THEOREM EngineTypes == EngineSpec => []EngineTypeOK
<1>1. EngineInv => EngineTypeOK
  BY DEF EngineInv
<1>. QED  BY <1>1, EngineHolds, PTL

\* While no load is under way, no file is on the disk that its budget does not count, however
\* many packs, however many asked at once, whatever failed.
THEOREM EveryFileCounts == EngineSpec => []FilesAreCounted
<1>1. EngineInv => FilesAreCounted
  BY DEF EngineInv, FilesAreCounted, Accounted, OwesOf, IsLoading, LoadSteps
<1>. QED  BY <1>1, EngineHolds, PTL

\* A pack's cell in `loading` is always that of somebody who still asks for the pack.
THEOREM CellsAreInUse == EngineSpec => []NoCellIsLeft
<1>1. EngineInv => NoCellIsLeft
  BY DEF EngineInv
<1>. QED  BY <1>1, EngineHolds, PTL

-----------------------------------------------------------------------------
(* EnginePacks: who takes the cell of a load that failed *)

\* An asker whose load failed leaves when nobody else is on its cell.
LeavesLast ==
  \A a \in Askers : IsAt(a, "fails") /\ IsAt(a, "idle")' =>
    \A b \in Askers \ {a} : IsAt(b, "idle") \/ asker[b].cell # asker[a].cell

On(a) == ~IsAt(a, "idle") /\ asker[a].cell # 0

\* A cell is of one pack, and its pack's while it is not filled; one fills it.
CellsInv ==
  /\ EngineInv
  /\ \A a \in Askers : IsAt(a, "returns") => asker[a].cell \in filled
  /\ \A a \in Askers : IsLoading(a) => asker[a].cell \notin filled
  /\ \A a, b \in Askers : IsLoading(a) /\ IsLoading(b) /\ asker[a].cell = asker[b].cell => a = b
  /\ \A a, b \in Askers : On(a) /\ On(b) /\ asker[a].cell = asker[b].cell => asker[a].key = asker[b].key
  /\ \A a \in Askers : On(a) /\ asker[a].cell \notin filled => loading[asker[a].key] = asker[a].cell

LEMMA CellsFirst == EngineInit => CellsInv
<1>. SUFFICES ASSUME EngineInit, EngineInv PROVE CellsInv
  BY EngineBegins
<1>1. \A a \in Askers : asker[a].pc = "idle"
  BY DEF EngineInit, NotAsking
<1>. QED  BY <1>1 DEF CellsInv, IsAt, IsLoading, LoadSteps, On

StaysOnCell(a, h) ==
  /\ GoesOnWith(a, h)
  /\ filled' = filled \/ (filled' = filled \cup {asker[a].cell} /\ h.pc = "returns")
  /\ h.pc = "returns" => asker[a].cell \in filled'
  /\ h.pc \in LoadSteps => filled' = filled /\ (IsLoading(a) \/ LoadBegins(a))

\* A step of a load, or of who waits for one, leaves the asker on its cell.
LEMMA LoadMoves ==
  ASSUME EngineInv, NEW a \in Askers,
         \/ WaitIsOver(a) \/ LoadBegins(a) \/ FetchEnds(a) \/ FetchIsCounted(a) \/ Clears(a)
         \/ UnpackBegins(a) \/ UnpackEnds(a) \/ UnpackIsCounted(a) \/ DropsPack(a)
         \/ DecodesWhole(a) \/ WorkFails(a) \/ Opens(a) \/ ForgetsName(a) \/ RemovesFile(a)
  PROVE  \E h \in Asking : StaysOnCell(a, h)
<1>1. ASSUME asker[a].pc \notin {"idle", "asks"}, NEW pc \in AskerSteps, Goes(a, pc), UNCHANGED loading,
             filled' = filled \/ (filled' = filled \cup {asker[a].cell} /\ pc = "returns"),
             pc = "returns" => asker[a].cell \in filled',
             pc \in LoadSteps => filled' = filled /\ (IsLoading(a) \/ LoadBegins(a))
      PROVE  \E h \in Asking : StaysOnCell(a, h)
  <2>1. GoesOnWith(a, AskerAt(a, pc)) /\ AskerAt(a, pc).pc = pc
    BY <1>1, GoesAt DEF EngineInv
  <2>2. AskerAt(a, pc) \in Asking
    BY <2>1 DEF GoesOnWith
  <2>. QED  BY <1>1, <2>1, <2>2 DEF StaysOnCell
<1>2. ASSUME IsLoading(a), NEW pc \in LoadSteps \cup {"fails"}, NEW gone \in SUBSET File,
             asker' = [asker EXCEPT ![a].pc = pc, ![a].gone = gone], UNCHANGED <<loading, filled>>
      PROVE  \E h \in Asking : StaysOnCell(a, h)
  <2>1. pc \in AskerSteps /\ pc # "returns" /\ asker[a].pc \notin {"idle", "asks"}
    BY <1>2 DEF AskerSteps, LoadSteps, IsLoading
  <2>2. GoesOnWith(a, AskerWith(a, pc, gone)) /\ AskerWith(a, pc, gone).pc = pc
    BY <1>2, <2>1, GoesWith DEF EngineInv
  <2>3. AskerWith(a, pc, gone) \in Asking
    BY <2>2 DEF GoesOnWith
  <2>. QED  BY <1>2, <2>1, <2>2, <2>3 DEF StaysOnCell
<1>3. asker[a].pc # "idle" => asker[a].gone \subseteq File /\ asker[a].key \in EngineKeys
  BY FieldsOf DEF EngineInv
<1>4. CASE WaitIsOver(a)
  BY <1>1, <1>4 DEF WaitIsOver, IsAt, AskerSteps, LoadSteps
<1>5. CASE LoadBegins(a)
  BY <1>1, <1>5 DEF LoadBegins, IsAt, AskerSteps, LoadSteps
<1>6. CASE FetchEnds(a)
  BY <1>1, <1>6 DEF FetchEnds, IsAt, AskerSteps, LoadSteps, IsLoading
<1>7. ASSUME NEW lru \in SUBSET File, NEW f \in File, NEW next \in LoadSteps,
             IsLoading(a), CountsFile(a, lru, f, next), UNCHANGED <<loading, filled>>
      PROVE  \E h \in Asking : StaysOnCell(a, h)
  <2>1. lru \ used' \in SUBSET File
    OBVIOUS
  <2>. QED  BY <1>2, <1>7, <2>1 DEF CountsFile
<1>8. CASE FetchIsCounted(a)
  BY <1>3, <1>7, <1>8, FilesAreFiles DEF FetchIsCounted, IsAt, IsLoading, LoadSteps, EngineInv, EngineTypeOK
<1>9. CASE UnpackIsCounted(a)
  <2>1. used \ {Pack(asker[a].key)} \in SUBSET File
    BY DEF EngineInv, EngineTypeOK
  <2>. QED  BY <1>3, <1>7, <1>9, <2>1, FilesAreFiles DEF UnpackIsCounted, IsAt, IsLoading, LoadSteps
<1>10. CASE Clears(a)
  <2>1. IsLoading(a) /\ UNCHANGED <<loading, filled>> /\ asker[a].pc \in LoadSteps /\ asker[a].pc \notin {"idle", "asks"}
    BY <1>10 DEF Clears, IsLoading, LoadSteps
  <2>2. CASE \E f \in asker[a].gone : asker' = [asker EXCEPT ![a].gone = @ \ {f}]
    <3>1. PICK f \in asker[a].gone : asker' = [asker EXCEPT ![a].gone = @ \ {f}]
      BY <2>2
    <3>2. asker[a] \in Asking /\ asker[a].gone \ {f} \in SUBSET File
      BY <1>3, <2>1, IsAsking DEF EngineInv
    <3>3. asker' = [asker EXCEPT ![a].pc = asker[a].pc, ![a].gone = asker[a].gone \ {f}]
      BY <3>1, <3>2 DEF Asking, EngineInv, EngineTypeOK
    <3>. QED  BY <1>2, <2>1, <3>2, <3>3
  <2>3. CASE Goes(a, IF IsAt(a, "clears") THEN "unpacks" ELSE "opens")
    BY <1>1, <2>1, <2>3 DEF AskerSteps, LoadSteps
  <2>. QED  BY <1>10, <2>2, <2>3 DEF Clears
<1>11. ASSUME IsLoading(a), NEW f \in File, Forgets(a, f), UNCHANGED <<loading, filled>>
       PROVE  \E h \in Asking : StaysOnCell(a, h)
  <2>1. "forgets" \in LoadSteps /\ {f} \in SUBSET File
    BY DEF LoadSteps
  <2>. QED  BY <1>2, <1>11, <2>1 DEF Forgets
<1>12. CASE UnpackBegins(a)
  BY <1>1, <1>3, <1>11, <1>12, FilesAreFiles DEF UnpackBegins, IsAt, AskerSteps, LoadSteps, IsLoading
<1>13. CASE UnpackEnds(a)
  BY <1>1, <1>3, <1>11, <1>13, FilesAreFiles DEF UnpackEnds, IsAt, AskerSteps, LoadSteps, IsLoading
<1>14. ASSUME IsLoading(a), Answers(a), UNCHANGED loading
       PROVE  \E h \in Asking : StaysOnCell(a, h)
  BY <1>1, <1>14 DEF Answers, AskerSteps, LoadSteps, IsLoading
<1>15. CASE Opens(a)
  BY <1>3, <1>11, <1>14, <1>15, FilesAreFiles DEF Opens, IsAt, LoadSteps, IsLoading
<1>16. CASE DecodesWhole(a)
  BY <1>14, <1>16 DEF DecodesWhole, IsAt, LoadSteps, IsLoading
<1>17. CASE DropsPack(a) \/ WorkFails(a) \/ ForgetsName(a)
  BY <1>1, <1>17 DEF DropsPack, WorkFails, ForgetsName, IsAt, AskerSteps, LoadSteps, IsLoading
<1>18. CASE RemovesFile(a)
  <2>1. {} \in SUBSET File /\ IsLoading(a)
    BY <1>18 DEF RemovesFile, IsAt, IsLoading, LoadSteps
  <2>. QED  BY <1>2, <1>18, <2>1 DEF RemovesFile
<1>. QED  BY <1>4, <1>5, <1>6, <1>8, <1>9, <1>10, <1>12, <1>13, <1>15, <1>16, <1>17, <1>18

LEMMA LoadsKeepCells ==
  ASSUME CellsInv, EngineInv', NEW a \in Askers,
         \/ WaitIsOver(a) \/ LoadBegins(a) \/ FetchEnds(a) \/ FetchIsCounted(a) \/ Clears(a)
         \/ UnpackBegins(a) \/ UnpackEnds(a) \/ UnpackIsCounted(a) \/ DropsPack(a)
         \/ DecodesWhole(a) \/ WorkFails(a) \/ Opens(a) \/ ForgetsName(a) \/ RemovesFile(a)
  PROVE  CellsInv'
<1>1. PICK h \in Asking :
        /\ GoesOnWith(a, h)
        /\ filled' = filled \/ (filled' = filled \cup {asker[a].cell} /\ h.pc = "returns")
        /\ h.pc = "returns" => asker[a].cell \in filled'
        /\ h.pc \in LoadSteps => filled' = filled /\ (IsLoading(a) \/ LoadBegins(a))
  BY LoadMoves DEF CellsInv, StaysOnCell
<1>2. /\ asker'[a] = h /\ h.key = asker[a].key /\ h.cell = asker[a].cell
      /\ \A b \in Askers \ {a} : asker'[b] = asker[b]
      /\ loading' = loading /\ asker[a].pc \notin {"idle", "asks"} /\ h.pc # "idle"
  BY <1>1, MovesTyped DEF CellsInv, EngineInv, GoesOnWith, Asking, LoadSteps
<1>3. h.pc = "returns" => h.pc \notin LoadSteps
  BY DEF LoadSteps
<1>4. h.pc \in LoadSteps => asker[a].cell \notin filled /\ \A b \in Askers \ {a} : IsLoading(b) => asker[b].cell # asker[a].cell
  <2>1. CASE LoadBegins(a)
    BY <2>1 DEF LoadBegins
  <2>2. CASE h.pc \in LoadSteps /\ IsLoading(a)
    BY <2>2 DEF CellsInv
  <2>. QED  BY <1>1, <2>1, <2>2
<1>5. filled' # filled => \A b \in Askers \ {a} : IsLoading(b) => asker[b].cell # asker[a].cell
  <2>. SUFFICES ASSUME filled' # filled, NEW b \in Askers \ {a}, IsLoading(b), asker[b].cell = asker[a].cell
       PROVE  FALSE
    OBVIOUS
  <2>1. filled' = filled \cup {asker[a].cell} /\ asker[a].cell \notin filled
    BY <1>1
  <2>2. CASE IsLoading(a)
    BY <2>2 DEF CellsInv
  <2>3. CASE LoadBegins(a)
    BY <2>3 DEF LoadBegins
  <2>4. CASE WaitIsOver(a)
    BY <2>1, <2>4 DEF WaitIsOver
  <2>. QED  BY <2>2, <2>3, <2>4 DEF IsLoading, LoadSteps, IsAt, FetchEnds, FetchIsCounted, Clears, UnpackBegins,
              UnpackEnds, UnpackIsCounted, DropsPack, DecodesWhole, WorkFails, Opens, ForgetsName, RemovesFile
<1>6. (\A b \in Askers : IsAt(b, "returns") => asker[b].cell \in filled)'
  BY <1>1, <1>2 DEF CellsInv, IsAt
<1>7. (\A b \in Askers : IsLoading(b) => asker[b].cell \notin filled)'
  <2>. SUFFICES ASSUME NEW b \in Askers, asker'[b].pc \in LoadSteps PROVE asker'[b].cell \notin filled'
    BY DEF IsLoading
  <2>1. CASE b = a
    BY <2>1, <1>1, <1>2, <1>4
  <2>2. CASE b # a
    BY <2>2, <1>1, <1>2, <1>5 DEF CellsInv, IsLoading
  <2>. QED  BY <2>1, <2>2
<1>8. (\A b, c \in Askers : IsLoading(b) /\ IsLoading(c) /\ asker[b].cell = asker[c].cell => b = c)'
  <2>. SUFFICES ASSUME NEW b \in Askers, NEW c \in Askers, asker'[b].pc \in LoadSteps, asker'[c].pc \in LoadSteps,
                       asker'[b].cell = asker'[c].cell, b # c
       PROVE  FALSE
    BY DEF IsLoading
  <2>. QED  BY <1>2, <1>4 DEF CellsInv, IsLoading
<1>9. \A b \in Askers : On(b)' => On(b) /\ asker'[b].cell = asker[b].cell /\ asker'[b].key = asker[b].key
  BY <1>2 DEF On, IsAt
<1>10. (\A b, c \in Askers : On(b) /\ On(c) /\ asker[b].cell = asker[c].cell => asker[b].key = asker[c].key)'
  BY <1>9 DEF CellsInv
<1>11. (\A b \in Askers : On(b) /\ asker[b].cell \notin filled => loading[asker[b].key] = asker[b].cell)'
  BY <1>1, <1>2, <1>9 DEF CellsInv
<1>. QED  BY <1>6, <1>7, <1>8, <1>10, <1>11 DEF CellsInv

LEMMA AsksKeepsCells ==
  ASSUME CellsInv, EngineInv', NEW a \in Askers, NEW k \in EngineKeys, AsksFor(a, k)
  PROVE  CellsInv'
<1>. DEFINE h == [pc |-> "asks", key |-> k, cell |-> 0, gone |-> {}]
<1>1. h \in Asking \cup {NotAsking} /\ asker' = [asker EXCEPT ![a] = h]
  BY DEF AsksFor, Asking
<1>2. asker'[a] = h /\ \A b \in Askers \ {a} : asker'[b] = asker[b]
  BY <1>1, MovesTyped DEF CellsInv, EngineInv
<1>3. asker'[a].pc = "asks" /\ asker'[a].cell = 0 /\ UNCHANGED <<loading, filled>>
  BY <1>2 DEF AsksFor
<1>. QED  BY <1>2, <1>3 DEF CellsInv, IsAt, IsLoading, LoadSteps, On

LEMMA JoinsKeepsCells ==
  ASSUME CellsInv, EngineInv', NEW a \in Askers, JoinsCell(a)
  PROVE  CellsInv'
<1>. DEFINE k == asker[a].key
<1>1. PICK cell \in Cells :
        /\ IF loading[k] # 0 THEN cell = loading[k] ELSE cell \notin InUse(Askers)
        /\ loading' = [loading EXCEPT ![k] = cell]
        /\ asker' = [asker EXCEPT ![a].pc = "waits", ![a].cell = cell]
  BY DEF JoinsCell
<1>. DEFINE h == [asker[a] EXCEPT !.pc = "waits", !.cell = cell]
<1>2. UNCHANGED filled /\ asker[a].pc = "asks"
  BY DEF JoinsCell, IsAt
<1>3. asker[a] \in Asking
  BY <1>2, IsAsking DEF CellsInv, EngineInv
<1>4. h \in Asking /\ h.pc = "waits" /\ h.key = k /\ h.cell = cell /\ k \in EngineKeys
  BY <1>3 DEF Asking
<1>5. asker' = [asker EXCEPT ![a] = h]
  BY <1>1
<1>. HIDE DEF h
<1>6. asker'[a] = h /\ \A b \in Askers \ {a} : asker'[b] = asker[b]
  BY <1>4, <1>5, MovesTyped DEF CellsInv, EngineInv
<1>7. loading'[k] = cell /\ \A j \in EngineKeys \ {k} : loading'[j] = loading[j]
  BY <1>1, <1>4 DEF CellsInv, EngineInv, EngineTypeOK
<1>8. \A b \in Askers : On(b) => asker[b].key \in EngineKeys
  BY FieldsOf DEF CellsInv, EngineInv, On, IsAt
<1>9. \A b \in Askers : On(b) /\ asker[b].cell = cell => asker[b].key = k
  <2>. SUFFICES ASSUME NEW b \in Askers, On(b), asker[b].cell = cell PROVE asker[b].key = k
    OBVIOUS
  <2>1. loading[k] # 0 /\ cell = loading[k]
    BY <1>1 DEF InUse, On, IsAt
  <2>2. PICK c \in Askers : asker[c].pc # "idle" /\ asker[c].key = k /\ asker[c].cell = cell
    BY <1>4, <2>1 DEF CellsInv, EngineInv, NoCellIsLeft
  <2>. QED  BY <2>1, <2>2 DEF CellsInv, On, IsAt
<1>10. (\A b, c \in Askers : On(b) /\ On(c) /\ asker[b].cell = asker[c].cell => asker[b].key = asker[c].key)'
  BY <1>4, <1>6, <1>9 DEF CellsInv, On, IsAt
<1>11. (\A b \in Askers : On(b) /\ asker[b].cell \notin filled => loading[asker[b].key] = asker[b].cell)'
  <2>. SUFFICES ASSUME NEW b \in Askers, On(b)', asker'[b].cell \notin filled
       PROVE  loading'[asker'[b].key] = asker'[b].cell
    BY <1>2
  <2>1. CASE b = a
    BY <2>1, <1>4, <1>6, <1>7
  <2>2. CASE b # a
    <3>1. On(b) /\ asker'[b] = asker[b] /\ loading[asker[b].key] = asker[b].cell /\ asker[b].cell # 0
      BY <2>2, <1>6 DEF CellsInv, On, IsAt
    <3>. QED  BY <3>1, <1>1, <1>7, <1>8
  <2>. QED  BY <2>1, <2>2
<1>12. (\A b \in Askers : IsAt(b, "returns") => asker[b].cell \in filled)'
  BY <1>2, <1>4, <1>6 DEF CellsInv, IsAt
<1>13. \A b \in Askers : IsLoading(b)' => IsLoading(b) /\ asker'[b].cell = asker[b].cell
  BY <1>4, <1>6 DEF IsLoading, LoadSteps
<1>. QED  BY <1>2, <1>10, <1>11, <1>12, <1>13 DEF CellsInv

LEMMA ReturnsKeepsCells ==
  ASSUME CellsInv, EngineInv', NEW a \in Askers, GetReturns(a), LeavesLast
  PROVE  CellsInv'
<1>1. /\ asker[a].pc \in {"fails", "returns"} /\ asker' = [asker EXCEPT ![a] = NotAsking]
      /\ filled' = filled \cap InUse(Askers \ {a})
  BY DEF GetReturns
<1>2. asker'[a] = NotAsking /\ \A b \in Askers \ {a} : asker'[b] = asker[b]
  BY <1>1, MovesTyped DEF CellsInv, EngineInv
<1>3. asker'[a].pc = "idle"
  BY <1>2 DEF NotAsking
<1>4. \A b \in Askers \ {a} : asker[b].pc # "idle" => (asker[b].cell \in filled' <=> asker[b].cell \in filled)
  BY <1>1 DEF InUse
<1>5. asker[a].key \in EngineKeys /\ \A b \in Askers : asker[b].pc # "idle" => asker[b].key \in EngineKeys
  BY <1>1, FieldsOf DEF CellsInv, EngineInv
<1>6. \A k \in EngineKeys : loading[k] # asker[a].cell => loading'[k] = loading[k]
  BY <1>5 DEF GetReturns, Leaves, CellsInv, EngineInv, EngineTypeOK
<1>7. \A b \in Askers \ {a} : On(b) /\ asker[b].cell \notin filled => asker[b].cell # asker[a].cell
  <2>1. CASE IsAt(a, "returns")
    BY <2>1 DEF CellsInv
  <2>2. CASE IsAt(a, "fails")
    BY <2>2, <1>3 DEF LeavesLast, IsAt, On
  <2>. QED  BY <1>1, <2>1, <2>2 DEF IsAt
<1>8. \A b \in Askers : (On(b)' => b # a /\ On(b)) /\ (IsLoading(b)' => b # a /\ IsLoading(b) /\ asker[b].pc # "idle")
  BY <1>2, <1>3 DEF On, IsAt, IsLoading, LoadSteps
<1>9. (\A b \in Askers : IsAt(b, "returns") => asker[b].cell \in filled)'
  BY <1>2, <1>3, <1>4 DEF CellsInv, IsAt
<1>10. (\A b \in Askers : IsLoading(b) => asker[b].cell \notin filled)'
  BY <1>2, <1>4, <1>8 DEF CellsInv
<1>11. (\A b, c \in Askers : IsLoading(b) /\ IsLoading(c) /\ asker[b].cell = asker[c].cell => b = c)'
  BY <1>2, <1>8 DEF CellsInv
<1>12. (\A b, c \in Askers : On(b) /\ On(c) /\ asker[b].cell = asker[c].cell => asker[b].key = asker[c].key)'
  BY <1>2, <1>8 DEF CellsInv
<1>13. (\A b \in Askers : On(b) /\ asker[b].cell \notin filled => loading[asker[b].key] = asker[b].cell)'
  <2>. SUFFICES ASSUME NEW b \in Askers, On(b)', asker'[b].cell \notin filled'
       PROVE  loading'[asker'[b].key] = asker'[b].cell
    OBVIOUS
  <2>1. b # a /\ On(b) /\ asker'[b] = asker[b] /\ asker[b].pc # "idle"
    BY <1>2, <1>8 DEF On, IsAt
  <2>2. asker[b].cell \notin filled /\ loading[asker[b].key] = asker[b].cell /\ asker[b].key \in EngineKeys
    BY <2>1, <1>4, <1>5 DEF CellsInv
  <2>. QED  BY <2>1, <2>2, <1>6, <1>7
<1>. QED  BY <1>9, <1>10, <1>11, <1>12, <1>13 DEF CellsInv

LEMMA CellsStep ==
  ASSUME CellsInv, [EngineNext]_engineVars, [LeavesLast]_engineVars
  PROVE  CellsInv'
<1>1. EngineInv'
  BY EngineKeeps DEF CellsInv
<1>2. CASE UNCHANGED engineVars \/ MemoryLetsGo
  <2>1. UNCHANGED <<loading, filled, asker>>
    BY <1>2 DEF engineVars, MemoryLetsGo
  <2>. QED  BY <2>1, <1>1 DEF CellsInv, IsAt, IsLoading, On
<1>3. ASSUME NEW a \in Askers, GetReturns(a) PROVE CellsInv'
  <2>1. asker' # asker
    <3>1. asker'[a].pc = "idle"
      BY <1>3, MovesTyped DEF GetReturns, CellsInv, EngineInv, NotAsking
    <3>. QED  BY <3>1, <1>3 DEF GetReturns
  <2>. QED  BY <2>1, <1>1, <1>3, ReturnsKeepsCells DEF engineVars
<1>4. ASSUME NEW a \in Askers, NEW k \in EngineKeys, AsksFor(a, k) PROVE CellsInv'
  BY <1>1, <1>4, AsksKeepsCells
<1>5. ASSUME NEW a \in Askers, JoinsCell(a) PROVE CellsInv'
  BY <1>1, <1>5, JoinsKeepsCells
<1>. QED  BY <1>1, <1>2, <1>3, <1>4, <1>5, LoadsKeepCells DEF EngineNext

\* packs.rs's "fetched once however many ask for it at the same time" fails by one step alone:
\* an asker whose load failed takes out a cell others are on.  While each that fails is the
\* last on its cell, no two load the same pack, whatever else fails, goes or is forgotten.
THEOREM LoadedOnceUnlessLeft == EngineSpec /\ [][LeavesLast]_engineVars => []LoadedOnce
<1>1. CellsInv => LoadedOnce
  <2>. SUFFICES ASSUME CellsInv, NEW a \in Askers, NEW b \in Askers, a # b, IsLoading(a), IsLoading(b),
                       asker[a].key = asker[b].key
       PROVE  FALSE
    BY DEF LoadedOnce
  <2>1. On(a) /\ On(b)
    BY DEF IsLoading, LoadSteps, CellsInv, EngineInv, HasCells, On, IsAt
  <2>. QED  BY <2>1 DEF CellsInv
<1>. QED  BY <1>1, CellsFirst, CellsStep, PTL DEF EngineSpec
=============================================================================
