------------------------- MODULE Publication_proofs -------------------------
(***************************************************************************)
(* Proofs about Publication, for every set of names and Builds, every      *)
(* number of indexes, pushes and attempts.  First with renames in the      *)
(* middle of Builds, and private repositories: the types, and what is      *)
(* served is stored.  Then where renames are found between Builds of       *)
(* public repositories, which wait for each other's clones: a Report keeps *)
(* its own Stored Index and its lines, goes back to an older head only     *)
(* from a Build's own quick one, and nothing else is left in R2.  Last,    *)
(* Publication implements ReportStore.                                     *)
(***************************************************************************)
EXTENDS Publication, TLAPS

\* A handler that may still upload a pack of its phase.
Before == {"holding", "exported", "loaded"}

\* Whether a handler's quick (full) phase is past its upload, or will not come:
\* each phase of a Build uploads once, so packs are never made twice.
Spends(h, quick) ==
  IF quick THEN ~(h.pc = "asked" /\ h.attempt = 1) /\ ~(h.quick /\ h.pc \in Before)
  ELSE ~h.quick /\ h.pc \in {"uploaded", "undo", "cleanup", "over"}

Spent(p) == Spends(at[p.build], p.quick)

\* Nothing points past the last id given.
Pointers ==
  /\ \A i \in Indexes : index[i].there => i <= serial
  /\ \A n \in Names : repos[n].index <= serial
  /\ \A b \in Builds : at[b].si <= serial

\* An index that is pointed at belongs to the row that points at it.
Owners ==
  /\ \A n \in Names : Live(n) # 0 => index[Live(n)].repo = n
  /\ \A b \in Builds :
       at[b].si # 0 /\ rowOf[b] # None /\ index[at[b].si].there
         => index[at[b].si].repo = rowOf[b]

\* What a handler has made by now.
Handlers ==
  \A b \in Builds :
    /\ at[b].pc \in {"loaded", "uploaded"} => at[b].si # 0
    /\ at[b].pc = "uploaded" =>
         /\ at[b].pack # None /\ at[b].pack.build = b
         /\ at[b].pack.quick = at[b].quick /\ at[b].pack.index = at[b].si
    /\ at[b].pc = "cleanup" => at[b].pack # None

\* Packs that are named somewhere are of phases that are past their upload.
NamedAreSpent ==
  /\ \A i \in Indexes : index[i].pack # None => Spent(index[i].pack)
  /\ \A b \in Builds : \A p \in at[b].gone : Spent(p)

\* A pack is uploaded, or an index's, or about to be deleted, never two of these.
Apart ==
  /\ \A b \in Builds : at[b].pc = "uploaded" =>
       /\ \A i \in Indexes : index[i].pack # at[b].pack
       /\ \A c \in Builds : at[b].pack \notin at[c].gone
  /\ \A i \in Indexes, b \in Builds : index[i].pack \notin at[b].gone

\* What is uploaded is stored, and what an index names is its own.
Kept ==
  /\ \A b \in Builds : at[b].pc = "uploaded" => Stored(at[b].pack) \in r2
  /\ \A i \in Indexes : index[i].pack # None =>
       index[i].there /\ index[i].pack.index = i
  /\ removing # {} => "remove" \in Events

Consistent == Pointers /\ Owners /\ Handlers /\ NamedAreSpent /\ Apart /\ Kept

IInv == TypeOK /\ Consistent

-----------------------------------------------------------------------------
(* Lemmas about the operators the actions are built from *)

\* A handler at rest is a handler.
LEMMA AtRestIsHandler ==
  ASSUME NEW pc \in PCs, NEW attempt \in 1 .. Attempts, NEW home \in Homes
  PROVE  AtRest(pc, attempt, home) \in Handler
<1>1. 0 \in Heads /\ 0 \in 0 .. MaxIndex
  BY PublicationAssumption DEF Heads
<1> QED
  BY <1>1 DEF AtRest, Handler

\* No home is one.
LEMMA NoneIsHome == None \in Homes
BY DEF Homes

\* What comes after a phase holds no index and deletes nothing; it spends what
\* was spent.
LEMMA NextPhaseRests ==
  ASSUME TypeOK, NEW b \in Builds, at[b].pc # "asked"
  PROVE  /\ NextPhase(b) \in Handler
         /\ NextPhase(b).pc \in {"holding", "over"}
         /\ NextPhase(b).si = 0 /\ NextPhase(b).gone = {}
         /\ NextPhase(b).head = 0
         /\ NextPhase(b).pc = "holding" =>
              NextPhase(b).home = at[b].home /\ NextPhase(b).since = at[b].since
         /\ NextPhase(b).since \in {0, at[b].since}
         /\ \A q \in BOOLEAN : Spends(at[b], q) => Spends(NextPhase(b), q)
<1>1. /\ at[b] \in Handler /\ at[b].attempt \in 1 .. Attempts
      /\ at[b].home \in Homes /\ at[b].quick \in BOOLEAN /\ at[b].since \in Heads
  BY DEF TypeOK, Handler
<1>2. CASE at[b].quick
  <2> DEFINE r == AtRest("holding", at[b].attempt, at[b].home)
  <2>1. NextPhase(b) = [r EXCEPT !.since = at[b].since]
    BY <1>2 DEF NextPhase
  <2>2. "holding" \in PCs
    BY DEF PCs
  <2>3. r \in Handler
    BY <2>2, <1>1, AtRestIsHandler
  <2>4. /\ r.pc = "holding" /\ r.attempt = at[b].attempt /\ r.quick = FALSE
        /\ r.si = 0 /\ r.gone = {} /\ r.head = 0 /\ r.home = at[b].home
    BY DEF AtRest
  <2> HIDE DEF r
  <2>5. /\ NextPhase(b) \in Handler
        /\ NextPhase(b).pc = "holding"
        /\ NextPhase(b).attempt = at[b].attempt /\ NextPhase(b).quick = FALSE
        /\ NextPhase(b).si = 0 /\ NextPhase(b).gone = {}
        /\ NextPhase(b).head = 0 /\ NextPhase(b).since = at[b].since
        /\ NextPhase(b).home = at[b].home
    BY <2>1, <2>3, <2>4, <1>1 DEF Handler
  <2> QED
    BY <2>5, <1>2 DEF Spends
<1>3. CASE ~at[b].quick
  <2>1. NextPhase(b) = AtRest("over", at[b].attempt, None)
    BY <1>3 DEF NextPhase
  <2>2. "over" \in PCs
    BY DEF PCs
  <2>3. NextPhase(b) \in Handler
    BY <2>1, <2>2, <1>1, AtRestIsHandler, NoneIsHome
  <2>4. /\ NextPhase(b).pc = "over"
        /\ NextPhase(b).attempt = at[b].attempt /\ NextPhase(b).quick = FALSE
        /\ NextPhase(b).si = 0 /\ NextPhase(b).gone = {}
        /\ NextPhase(b).head = 0 /\ NextPhase(b).since = 0
    BY <2>1 DEF AtRest
  <2> QED
    BY <2>3, <2>4, <1>3 DEF Spends
<1> QED BY <1>2, <1>3

\* The live index of a name, when it has one.
LEMMA LiveIndex ==
  ASSUME TypeOK, NEW n
  PROVE  /\ Live(n) \in 0 .. MaxIndex
         /\ Live(n) # 0 => /\ n \in Names /\ Live(n) \in Indexes
                           /\ Live(n) = repos[n].index /\ index[Live(n)].there
BY PublicationAssumption DEF TypeOK, Live, Repo, Indexes

\* The initial state.
LEMMA InitIInv == Init => IInv
<1> SUFFICES ASSUME Init PROVE IInv
  OBVIOUS
<1> USE PublicationAssumption
<1>1. TypeOK
  <2>1. 1 \in 1 .. Attempts /\ 0 \in Heads
    BY DEF Heads
  <2>2. AtRest("asked", 1, None) \in Handler
    <3>1. "asked" \in PCs
      BY DEF PCs
    <3> QED BY <3>1, <2>1, AtRestIsHandler, NoneIsHome
  <2>3. NoIndex \in Index
    BY <2>1, NoneIsHome DEF NoIndex, Index
  <2>4. ASSUME NEW n \in Names PROVE repos[n] \in Repo
    <3>1. repos[n] = [NoRepo EXCEPT !.there = \E b \in Builds : NameOf[b] = n]
      BY DEF Init
    <3>2. (\E b \in Builds : NameOf[b] = n) \in BOOLEAN
      OBVIOUS
    <3> HIDE PublicationAssumption
    <3>3. ASSUME NEW t \in BOOLEAN PROVE [NoRepo EXCEPT !.there = t] \in Repo
      BY PublicationAssumption DEF NoRepo, Repo
    <3> QED BY <3>1, <3>2, <3>3, Zenon
  <2>5. repos \in [Names -> Repo]
    BY <2>4 DEF Init
  <2>6. /\ rowOf \in [Builds -> Names \cup {None}]
        /\ index \in [Indexes -> Index]
        /\ at \in [Builds -> Handler]
    BY <2>2, <2>3 DEF Init
  <2>7. /\ serial = 0 /\ r2 = {} /\ atlas = {} /\ making = {} /\ removing = {}
        /\ tip = 0 /\ spoiled = FALSE
    BY DEF Init
  <2>8. /\ serial \in 0 .. MaxIndex /\ r2 \subseteq Objects
        /\ atlas \subseteq Packs /\ making \subseteq Packs /\ removing \subseteq Names
        /\ tip \in Heads
    BY <2>7, <2>1
  <2>9. spoiled \in BOOLEAN
    BY <2>7
  <2> QED BY <2>5, <2>6, <2>8, <2>9 DEF TypeOK
<1>2. \A b \in Builds : /\ at[b].pc = "asked" /\ at[b].si = 0 /\ at[b].gone = {}
  BY DEF Init, AtRest
<1>3. \A i \in Indexes : ~index[i].there /\ index[i].pack = None
  BY DEF Init, NoIndex
<1>4. \A n \in Names : repos[n].index = 0
  BY DEF Init, NoRepo
<1>5. Pointers
  BY <1>2, <1>3, <1>4 DEF Pointers, Init
<1>6. Owners
  BY <1>2, <1>4 DEF Owners, Live
<1>7. Handlers /\ NamedAreSpent /\ Apart
  BY <1>2, <1>3 DEF Handlers, NamedAreSpent, Apart
<1>8. Kept
  BY <1>2, <1>3 DEF Kept, Init
<1> QED BY <1>1, <1>5, <1>6, <1>7, <1>8 DEF IInv, Consistent

-----------------------------------------------------------------------------
(* Steps that only move a handler, and may delete what it was to delete *)

Moves(b, h) ==
  /\ at' = [at EXCEPT ![b] = h]
  /\ UNCHANGED <<repos, rowOf, index, serial, making, removing, tip>>
  /\ atlas' \subseteq Packs /\ r2' \subseteq Objects
  /\ \A p \in Packs : Stored(p) \in r2 /\ p \notin at[b].gone => Stored(p) \in r2'

LEMMA HandlerMoves ==
  ASSUME IInv, NEW b \in Builds, NEW h \in Handler, Moves(b, h), spoiled' \in BOOLEAN,
         h.pc \notin {"uploaded", "cleanup"},
         h.pc = "loaded" => h.si # 0,
         h.si \in {0, at[b].si},
         h.gone \subseteq at[b].gone \cup (IF at[b].pc = "uploaded" THEN {at[b].pack} ELSE {}),
         \A q \in BOOLEAN : Spends(at[b], q) => Spends(h, q)
  PROVE  IInv'
<1> USE PublicationAssumption DEF IInv, Consistent
<1>1. TypeOK'
  BY DEF TypeOK, Moves
<1>2. /\ at'[b] = h
      /\ \A c \in Builds : c # b => at'[c] = at[c]
      /\ UNCHANGED <<repos, rowOf, index, serial, removing>>
  BY DEF TypeOK, Moves
<1>3. Pointers'
  <2>1. serial \in 0 .. MaxIndex
    BY DEF TypeOK
  <2> QED BY <1>2, <2>1 DEF Pointers
<1>4. Owners'
  <2>1. \A n \in Names : Live(n)' = Live(n)
    BY <1>2 DEF Live
  <2> QED BY <1>2, <2>1 DEF Owners
<1>5. Handlers'
  BY <1>2 DEF Handlers
<1>6. NamedAreSpent'
  <2>1. ASSUME NEW p \in Packs, Spent(p) PROVE Spent(p)'
    <3>1. p.build \in Builds /\ p.quick \in BOOLEAN
      BY DEF Packs
    <3> QED BY <3>1, <2>1, <1>2 DEF Spent
  <2>2. \A i \in Indexes : index[i].pack # None => index[i].pack \in Packs
    BY DEF TypeOK, Index
  <2>3. \A c \in Builds : at[c].gone \subseteq Packs
    BY DEF TypeOK, Handler
  <2>4. ASSUME NEW c \in Builds, NEW p \in at'[c].gone, p \notin at[c].gone PROVE Spent(p)'
    <3>1. c = b /\ at[b].pc = "uploaded" /\ p = at[b].pack
      BY <2>4, <1>2
    <3>2. p.build = b /\ p.quick = at[b].quick
      BY <3>1 DEF Handlers
    <3>3. at[b].quick \in BOOLEAN /\ Spends(at[b], at[b].quick)
      BY <3>1 DEF TypeOK, Handler, Spends, Before
    <3> QED BY <3>2, <3>3, <1>2 DEF Spent
  <2> QED BY <1>2, <2>1, <2>2, <2>3, <2>4 DEF NamedAreSpent
<1>7. Apart'
  <2>1. ASSUME NEW c \in Builds, at'[c].pc = "uploaded", NEW d \in Builds
        PROVE  at'[c].pack \notin at'[d].gone
    <3>1. c # b /\ at'[c] = at[c]
      BY <2>1, <1>2
    <3>2. at[b].pc = "uploaded" => at[c].pack # at[b].pack
      BY <3>1, <2>1 DEF Handlers
    <3> QED BY <3>1, <3>2, <2>1, <1>2 DEF Apart
  <2> QED BY <2>1, <1>2 DEF Apart
<1>8. Kept'
  <2>1. \A p \in Packs : Stored(p) \in r2 /\ p \notin at[b].gone => Stored(p) \in r2'
    BY DEF Moves
  <2>2. ASSUME NEW c \in Builds, at'[c].pc = "uploaded" PROVE Stored(at'[c].pack) \in r2'
    <3>1. at'[c] = at[c] /\ at[c].pack # None
      BY <2>2, <1>2 DEF Handlers
    <3>2. at[c].pack \in Packs
      BY <3>1 DEF TypeOK, Handler
    <3> QED BY <2>1, <2>2, <3>1, <3>2 DEF Apart, Kept
  <2>3. ASSUME NEW i \in Indexes, index[i].pack # None, Stored(index[i].pack) \in r2
        PROVE  Stored(index[i].pack) \in r2'
    <3>1. index[i].pack \in Packs
      BY <2>3 DEF TypeOK, Index
    <3> QED BY <2>1, <2>3, <3>1 DEF Apart
  <2> QED BY <1>2, <2>2, <2>3 DEF Kept
<1> QED BY <1>1, <1>3, <1>4, <1>5, <1>6, <1>7, <1>8

LEMMA RestingKeepsIInv ==
  ASSUME IInv, NEW b \in Builds,
         Start(b) \/ Export(b) \/ TimesOut(b) \/ Fails(b) \/ Declines(b)
  PROVE  IInv'
<1> USE PublicationAssumption
<1>0. /\ TypeOK
      /\ at[b] \in Handler /\ at[b].attempt \in 1 .. Attempts
      /\ at[b].home \in Homes /\ at[b].quick \in BOOLEAN
      /\ rowOf[b] \in Names \cup {None} /\ spoiled \in BOOLEAN /\ tip \in Heads
      /\ atlas \subseteq Packs /\ r2 \subseteq Objects
  BY DEF IInv, TypeOK, Handler
<1>1. CASE Start(b)
  <2>1. PICK quick \in BOOLEAN, home \in HomesOf(b) :
          /\ quick => at[b].attempt = 1
          /\ at' = [at EXCEPT ![b] = [AtRest("holding", @.attempt, home)
                                         EXCEPT !.quick = quick, !.since = tip]]
    BY <1>1 DEF Start
  <2>0. home \in Homes
    BY <1>0 DEF HomesOf, Homes
  <2>2. "holding" \in PCs
    BY DEF PCs
  <2> DEFINE r == AtRest("holding", at[b].attempt, home)
             h == [r EXCEPT !.quick = quick, !.since = tip]
  <2>3. /\ r \in Handler /\ r.pc = "holding" /\ r.attempt = at[b].attempt
        /\ r.quick = FALSE /\ r.si = 0 /\ r.gone = {}
    <3>1. r \in Handler
      BY <1>0, <2>0, <2>2, AtRestIsHandler
    <3> QED BY <3>1 DEF AtRest
  <2>4. /\ h \in Handler /\ h.pc = "holding" /\ h.attempt = at[b].attempt
        /\ h.quick = quick /\ h.si = 0 /\ h.gone = {}
    BY <1>0, <2>3 DEF Handler
  <2>5. Moves(b, h)
    BY <1>0, <1>1, <2>1 DEF Start, Moves
  <2>6. \A q \in BOOLEAN : Spends(at[b], q) => Spends(h, q)
    BY <1>1, <2>1, <2>4 DEF Start, Spends
  <2> HIDE DEF h
  <2> QED BY <1>0, <1>1, <2>4, <2>5, <2>6, HandlerMoves DEF Start
<1>2. CASE Export(b)
  <2>1. PICK head \in at[b].since .. tip, lines \in BOOLEAN, full \in BOOLEAN :
          at' = [at EXCEPT ![b] = [@ EXCEPT
            !.pc = "exported", !.head = head, !.lines = lines, !.full = full]]
    BY <1>2 DEF Export
  <2>0. head \in Heads
    BY <1>0 DEF Handler, Heads
  <2> DEFINE h == [at[b] EXCEPT !.pc = "exported", !.head = head, !.lines = lines, !.full = full]
  <2>2. /\ h \in Handler /\ h.pc = "exported" /\ h.attempt = at[b].attempt
        /\ h.quick = at[b].quick /\ h.si = at[b].si /\ h.gone = at[b].gone
    BY <1>0, <2>0 DEF Handler, PCs
  <2>3. Moves(b, h)
    BY <1>0, <1>2, <2>1 DEF Export, Moves
  <2>4. \A q \in BOOLEAN : Spends(at[b], q) => Spends(h, q)
    BY <1>2, <2>2 DEF Export, Spends, Before
  <2> HIDE DEF h
  <2> QED BY <1>0, <1>2, <2>2, <2>3, <2>4, HandlerMoves DEF Export
<1>3. CASE TimesOut(b)
  <2> DEFINE h == AtRest("asked", at[b].attempt + 1, None)
  <2>1. "asked" \in PCs /\ at[b].attempt + 1 \in 1 .. Attempts /\ at[b].attempt + 1 # 1
    BY <1>0, <1>3 DEF PCs, TimesOut
  <2>2. /\ h \in Handler /\ h.pc = "asked" /\ h.attempt # 1
        /\ h.quick = FALSE /\ h.si = 0 /\ h.gone = {}
    <3>1. h \in Handler
      BY <2>1, AtRestIsHandler, NoneIsHome
    <3> QED BY <3>1, <2>1 DEF AtRest
  <2>3. Moves(b, h)
    BY <1>0, <1>3 DEF TimesOut, Moves
  <2>4. \A q \in BOOLEAN : Spends(at[b], q) => Spends(h, q)
    BY <1>3, <2>2 DEF TimesOut, Spends
  <2> HIDE DEF h
  <2> QED BY <1>0, <1>3, <2>2, <2>3, <2>4, HandlerMoves DEF TimesOut
<1>4. CASE Fails(b) \/ Declines(b)
  <2> DEFINE h == NextPhase(b)
  <2>1. /\ h \in Handler /\ h.pc \in {"holding", "over"} /\ h.si = 0 /\ h.gone = {}
        /\ \A q \in BOOLEAN : Spends(at[b], q) => Spends(h, q)
    BY <1>0, <1>4, NextPhaseRests DEF Fails, Declines
  <2>2. Moves(b, h) /\ spoiled' \in BOOLEAN
    BY <1>0, <1>4 DEF Fails, Declines, Moves
  <2> HIDE DEF h
  <2> QED BY <2>1, <2>2, HandlerMoves
<1> QED BY <1>1, <1>2, <1>3, <1>4

-----------------------------------------------------------------------------
(* The load *)

\* What has been spent stays spent.
LEMMA SpentStays ==
  ASSUME \A c \in Builds, q \in BOOLEAN : Spends(at[c], q) => Spends(at'[c], q)
  PROVE  \A p \in Packs : Spent(p) => Spent(p)'
BY DEF Packs, Spent

\* The packs named somewhere.
LEMMA NamedArePacks ==
  ASSUME TypeOK
  PROVE  /\ \A i \in Indexes : index[i].pack # None => index[i].pack \in Packs
         /\ \A b \in Builds : at[b].gone \subseteq Packs
         /\ \A b \in Builds : at[b].pack # None => at[b].pack \in Packs
BY DEF TypeOK, Index, Handler

\* The handler's part of a load: it now has an index.
LEMMA LoadedHandler ==
  ASSUME TypeOK, NEW b \in Builds, at[b].pc = "exported", NEW i \in Indexes,
         at' = [at EXCEPT ![b] = [@ EXCEPT !.pc = "loaded", !.si = i]]
  PROVE  /\ at' \in [Builds -> Handler]
         /\ at'[b].pc = "loaded" /\ at'[b].si = i
         /\ \A c \in Builds : at'[c].gone = at[c].gone
         /\ \A c \in Builds : c # b => at'[c] = at[c]
         /\ \A c \in Builds, q \in BOOLEAN : Spends(at[c], q) => Spends(at'[c], q)
<1>1. at[b] \in Handler /\ i \in 0 .. MaxIndex
  BY PublicationAssumption DEF TypeOK, Indexes
<1>2. /\ at'[b] = [at[b] EXCEPT !.pc = "loaded", !.si = i]
      /\ \A c \in Builds : c # b => at'[c] = at[c]
  BY DEF TypeOK
<1>3. /\ at'[b] \in Handler /\ at'[b].pc = "loaded" /\ at'[b].si = i
      /\ at'[b].quick = at[b].quick /\ at'[b].gone = at[b].gone
  <2> DEFINE h == [at[b] EXCEPT !.pc = "loaded", !.si = i]
  <2>1. /\ h \in Handler /\ h.pc = "loaded" /\ h.si = i
        /\ h.quick = at[b].quick /\ h.gone = at[b].gone
    BY <1>1 DEF Handler, PCs
  <2> QED BY <2>1, <1>2
<1>4. \A q \in BOOLEAN : Spends(at[b], q) => Spends(at'[b], q)
  BY <1>3 DEF Spends, Before
<1>5. at' \in [Builds -> Handler]
  BY <1>3 DEF TypeOK
<1> QED BY <1>2, <1>3, <1>4, <1>5

LEMMA LoadNewKeepsIInv == ASSUME IInv, NEW b \in Builds, LoadNew(b) PROVE IInv'
<1> USE PublicationAssumption
<1> DEFINE i == serial + 1
<1>1. /\ TypeOK /\ Pointers /\ Owners /\ Handlers /\ NamedAreSpent /\ Apart /\ Kept
      /\ rowOf[b] \in Names /\ at[b] \in Handler /\ i \in Indexes /\ serial \in Nat
  BY DEF IInv, Consistent, TypeOK, LoadNew, Indexes
<1>2. /\ at' \in [Builds -> Handler]
      /\ at'[b].pc = "loaded" /\ at'[b].si = i
      /\ \A c \in Builds : at'[c].gone = at[c].gone
      /\ \A c \in Builds : c # b => at'[c] = at[c]
      /\ \A c \in Builds, q \in BOOLEAN : Spends(at[c], q) => Spends(at'[c], q)
  BY <1>1, LoadedHandler DEF LoadNew
<1>3. /\ index'[i].there /\ index'[i].repo = rowOf[b] /\ index'[i].pack = None
      /\ \A k \in Indexes : k # i => index'[k] = index[k]
      /\ index' \in [Indexes -> Index]
  <2>1. [there |-> TRUE, repo |-> rowOf[b], lineage |-> at[b].home, head |-> at[b].head,
         lines |-> at[b].lines, pack |-> None] \in Index
    BY <1>1 DEF Handler, Index
  <2> QED BY <1>1, <2>1 DEF LoadNew, TypeOK
<1>4. serial' = i /\ UNCHANGED <<repos, rowOf, r2, atlas, making, removing, tip, spoiled>>
  BY DEF LoadNew
<1>5. TypeOK'
  BY <1>1, <1>2, <1>3, <1>4 DEF TypeOK, Indexes
<1> HIDE DEF i
<1>6. i = serial + 1
  BY DEF i
<1>7. Pointers'
  <2>1. \A k \in Indexes : index'[k].there => k <= serial'
    BY <1>1, <1>3, <1>4, <1>6 DEF Pointers, Indexes
  <2>2. \A n \in Names : repos[n].index \in 0 .. MaxIndex /\ repos[n].index <= serial
    BY <1>1 DEF Pointers, TypeOK, Repo
  <2>3. \A c \in Builds : at[c].si \in 0 .. MaxIndex /\ at[c].si <= serial
    BY <1>1 DEF Pointers, TypeOK, Handler
  <2>4. \A c \in Builds : at'[c].si <= serial'
    BY <2>3, <1>1, <1>2, <1>4, <1>6
  <2> QED BY <2>1, <2>2, <2>4, <1>1, <1>4, <1>6 DEF Pointers
<1>8. Owners'
  <2>1. ASSUME NEW n \in Names PROVE Live(n)' = Live(n) /\ Live(n) # i
    <3>1. repos[n].index \in 0 .. MaxIndex /\ repos[n].index # i
      BY <1>1, <1>6 DEF Pointers, TypeOK, Repo
    <3> QED BY <3>1, <1>3, <1>4, <1>1 DEF Live, Indexes
  <2>2. ASSUME NEW n \in Names, Live(n) # 0 PROVE index'[Live(n)] = index[Live(n)]
    BY <2>1, <2>2, <1>1, <1>3, LiveIndex
  <2>3. ASSUME NEW c \in Builds, at'[c].si # 0, rowOf[c] # None, index'[at'[c].si].there
        PROVE  index'[at'[c].si].repo = rowOf[c]
    <3>1. CASE c = b
      BY <3>1, <1>2, <1>3
    <3>2. CASE c # b
      <4>1. at'[c] = at[c] /\ at[c].si \in Indexes /\ at[c].si # i
        BY <3>2, <2>3, <1>1, <1>2, <1>6 DEF Pointers, TypeOK, Handler, Indexes
      <4> QED BY <4>1, <2>3, <1>1, <1>3 DEF Owners
    <3> QED BY <3>1, <3>2
  <2> QED BY <2>1, <2>2, <2>3, <1>1, <1>4 DEF Owners
<1>9. Handlers'
  BY <1>1, <1>2, <1>3, <1>6 DEF Handlers
<1>10. NamedAreSpent'
  BY <1>1, <1>2, <1>3, SpentStays, NamedArePacks DEF NamedAreSpent
<1>11. Apart'
  <2>1. \A c \in Builds : at'[c].pc = "uploaded" => c # b /\ at'[c] = at[c] /\ at[c].pack # None
    BY <1>1, <1>2 DEF Handlers
  <2>2. \A c \in Builds : None \notin at[c].gone
    BY <1>1, NamedArePacks, NoneIsNoPack
  <2> QED BY <1>1, <1>2, <1>3, <2>1, <2>2 DEF Apart
<1>12. Kept'
  BY <1>1, <1>2, <1>3, <1>4 DEF Kept
<1> QED BY <1>5, <1>7, <1>8, <1>9, <1>10, <1>11, <1>12 DEF IInv, Consistent

LEMMA AppendKeepsIInv == ASSUME IInv, NEW b \in Builds, Append(b) PROVE IInv'
<1> USE PublicationAssumption
<1> DEFINE i == Live(rowOf[b])
<1>1. /\ TypeOK /\ Pointers /\ Owners /\ Handlers /\ NamedAreSpent /\ Apart /\ Kept
      /\ at[b] \in Handler /\ i \in Indexes /\ rowOf[b] \in Names /\ index[i] \in Index
  BY LiveIndex DEF IInv, Consistent, TypeOK, Append
<1>2. /\ at' \in [Builds -> Handler]
      /\ at'[b].pc = "loaded" /\ at'[b].si = i
      /\ \A c \in Builds : at'[c].gone = at[c].gone
      /\ \A c \in Builds : c # b => at'[c] = at[c]
      /\ \A c \in Builds, q \in BOOLEAN : Spends(at[c], q) => Spends(at'[c], q)
  BY <1>1, LoadedHandler DEF Append
<1>3. /\ \A k \in Indexes : /\ index'[k].there = index[k].there
                            /\ index'[k].repo = index[k].repo
                            /\ index'[k].pack = index[k].pack
      /\ index' \in [Indexes -> Index]
  BY <1>1 DEF Append, TypeOK, Index, Handler
<1>4. UNCHANGED <<repos, rowOf, serial, r2, atlas, making, removing, tip, spoiled>>
  BY DEF Append
<1>5. TypeOK'
  BY <1>1, <1>2, <1>3, <1>4 DEF TypeOK
<1>6. \A n \in Names : Live(n)' = Live(n)
  BY <1>1, <1>3, <1>4 DEF Live, TypeOK, Repo, Indexes
<1>7. i <= serial /\ i # 0 /\ index[i].repo = rowOf[b]
  BY <1>1, LiveIndex DEF Pointers, Owners, Append
<1> HIDE DEF i
<1>8. Pointers'
  BY <1>1, <1>2, <1>3, <1>4, <1>7 DEF Pointers
<1>9. Owners'
  <2>1. \A n \in Names : Live(n) # 0 => Live(n) \in Indexes
    BY <1>1, LiveIndex
  <2>2. \A c \in Builds : at'[c].si # 0 => at'[c].si \in Indexes
    BY <1>2 DEF Handler, Indexes
  <2> QED BY <1>1, <1>2, <1>3, <1>4, <1>6, <1>7, <2>1, <2>2 DEF Owners
<1>10. Handlers'
  BY <1>1, <1>2, <1>7 DEF Handlers
<1>11. NamedAreSpent'
  BY <1>1, <1>2, <1>3, SpentStays, NamedArePacks DEF NamedAreSpent
<1>12. Apart'
  <2>1. \A c \in Builds : at'[c].pc = "uploaded" => at'[c] = at[c]
    BY <1>2
  <2> QED BY <1>1, <1>2, <1>3, <2>1 DEF Apart
<1>13. Kept'
  BY <1>1, <1>2, <1>3, <1>4 DEF Kept
<1> QED BY <1>5, <1>8, <1>9, <1>10, <1>11, <1>12, <1>13 DEF IInv, Consistent

-----------------------------------------------------------------------------
(* publishBuild *)

LEMMA UploadKeepsIInv == ASSUME IInv, NEW b \in Builds, Upload(b) PROVE IInv'
<1> DEFINE p == [repo |-> rowOf[b], index |-> at[b].si, head |-> at[b].head,
                 build |-> b, quick |-> at[b].quick]
<1>1. /\ TypeOK /\ Pointers /\ Owners /\ Handlers /\ NamedAreSpent /\ Apart /\ Kept
      /\ rowOf[b] \in Names /\ at[b] \in Handler /\ at[b].pc = "loaded"
  BY DEF IInv, Consistent, TypeOK, Upload
<1>2. p \in Packs
  <2>1. at[b].si \in Indexes
    BY <1>1, PublicationAssumption DEF Handlers, Handler, Indexes
  <2> QED BY <2>1, <1>1 DEF Handler, Packs
<1>3. /\ p.index = at[b].si /\ p.build = b /\ p.quick = at[b].quick
  OBVIOUS
<1>4. PICK beside \in SUBSET {"screens", "atlas"} :
        /\ r2' = r2 \cup {[kind |-> k, pack |-> p] : k \in beside \cup {"pack"}}
        /\ at' = [at EXCEPT ![b] = [@ EXCEPT
             !.pc = "uploaded", !.pack = p, !.pending = ~at[b].quick /\ "atlas" \notin beside]]
  BY DEF Upload
<1>5. UNCHANGED <<repos, rowOf, index, serial, atlas, making, removing, tip, spoiled>>
  BY DEF Upload
<1> HIDE DEF p
<1>6. \A c \in Builds : c # b => at'[c] = at[c]
  BY <1>1, <1>4 DEF TypeOK
<1>7. /\ at'[b] \in Handler /\ at'[b].pc = "uploaded" /\ at'[b].pack = p
      /\ at'[b].si = at[b].si /\ at'[b].quick = at[b].quick /\ at'[b].gone = at[b].gone
  <2>1. (~at[b].quick /\ "atlas" \notin beside) \in BOOLEAN
    OBVIOUS
  <2>2. at'[b] = [at[b] EXCEPT !.pc = "uploaded", !.pack = p,
                     !.pending = ~at[b].quick /\ "atlas" \notin beside]
    BY <1>1, <1>4 DEF TypeOK
  <2>3. ASSUME NEW t \in BOOLEAN,
               at'[b] = [at[b] EXCEPT !.pc = "uploaded", !.pack = p, !.pending = t]
        PROVE  /\ at'[b] \in Handler /\ at'[b].pc = "uploaded" /\ at'[b].pack = p
               /\ at'[b].si = at[b].si /\ at'[b].quick = at[b].quick
               /\ at'[b].gone = at[b].gone
    <3> DEFINE g == [at[b] EXCEPT !.pc = "uploaded", !.pack = p, !.pending = t]
    <3>1. /\ g \in Handler /\ g.pc = "uploaded" /\ g.pack = p /\ g.si = at[b].si
          /\ g.quick = at[b].quick /\ g.gone = at[b].gone
      BY <1>1, <1>2 DEF Handler, PCs
    <3> QED BY <2>3, <3>1
  <2> QED BY <2>1, <2>2, <2>3, Zenon
<1>8. at' \in [Builds -> Handler] /\ \A c \in Builds : at'[c].gone = at[c].gone
  <2>1. at' \in [Builds -> Handler]
    BY <1>1, <1>4, <1>6, <1>7, Zenon DEF TypeOK
  <2> QED BY <2>1, <1>6, <1>7
<1>9. r2' \subseteq Objects /\ Stored(p) \in r2' /\ r2 \subseteq r2'
  <2>1. \A k \in {"screens", "atlas", "pack"} : [kind |-> k, pack |-> p] \in Objects
    BY <1>2 DEF Objects, Kinds
  <2>2. r2' \subseteq Objects
    BY <1>1, <1>4, <2>1 DEF TypeOK
  <2>3. Stored(p) \in r2' /\ r2 \subseteq r2'
    BY <1>4 DEF Stored
  <2> QED BY <2>2, <2>3
<1>10. ~Spent(p) /\ p # None
  <2>1. at[p.build] = at[b] /\ p.quick = at[b].quick /\ at[b].quick \in BOOLEAN
    BY <1>1, <1>3 DEF Handler
  <2>2. ~Spends(at[b], at[b].quick)
    BY <1>1, <2>1 DEF Spends, Before
  <2> QED BY <1>2, <2>1, <2>2, NoneIsNoPack DEF Spent
<1>11. \A c \in Builds, q \in BOOLEAN : Spends(at[c], q) => Spends(at'[c], q)
  <2>1. ASSUME NEW q \in BOOLEAN, Spends(at[b], q) PROVE Spends(at'[b], q)
    BY <2>1, <1>1, <1>7 DEF Spends, Before
  <2> QED BY <2>1, <1>6
<1>12. TypeOK'
  BY <1>1, <1>5, <1>8, <1>9 DEF TypeOK
<1>13. Pointers'
  BY <1>1, <1>5, <1>6, <1>7 DEF Pointers
<1>14. Owners'
  <2>1. \A n \in Names : Live(n)' = Live(n)
    BY <1>5 DEF Live
  <2> QED BY <1>1, <1>5, <1>6, <1>7, <2>1 DEF Owners
<1>15. Handlers'
  <2>1. at[b].si # 0
    BY <1>1 DEF Handlers
  <2> QED BY <2>1, <1>1, <1>3, <1>6, <1>7, <1>10 DEF Handlers
<1>16. NamedAreSpent'
  BY <1>1, <1>5, <1>8, <1>11, SpentStays, NamedArePacks DEF NamedAreSpent
<1>17. Apart'
  <2>1. \A i \in Indexes : index[i].pack # p
    BY <1>1, <1>10 DEF NamedAreSpent
  <2>2. \A c \in Builds : p \notin at[c].gone
    BY <1>1, <1>10 DEF NamedAreSpent
  <2> QED BY <2>1, <2>2, <1>1, <1>5, <1>6, <1>7, <1>8 DEF Apart
<1>18. Kept'
  BY <1>1, <1>5, <1>6, <1>7, <1>9 DEF Kept
<1> QED BY <1>12, <1>13, <1>14, <1>15, <1>16, <1>17, <1>18 DEF IInv, Consistent

\* What the transaction makes of each Stored Index.
LEMMA CommitIndexes ==
  ASSUME IInv, NEW b \in Builds, Commit(b)
  PROVE  /\ rowOf[b] \in Names /\ at[b].si \in Indexes /\ at[b].si \notin Others(b)
         /\ index' \in [Indexes -> Index]
         /\ \A k \in Indexes : k \in Others(b) => index'[k] = NoIndex
         /\ \A k \in Indexes \ Others(b) :
              /\ index'[k].there = index[k].there /\ index'[k].repo = index[k].repo
              /\ index'[k].pack = index[k].pack \/ (k = at[b].si /\ index'[k].pack = at[b].pack)
         /\ index[at[b].si].there => index'[at[b].si].pack = at[b].pack
         /\ \A k \in Indexes : index'[k].there => index[k].there
         /\ \A k \in Indexes : index'[k].pack # None => k \notin Others(b) /\ index'[k].there
<1> DEFINE i == at[b].si
           p == at[b].pack
           O == Others(b)
<1>1. /\ TypeOK /\ rowOf[b] \in Names /\ i \in Indexes /\ at[b] \in Handler
      /\ p \in Packs /\ Kept
  BY PublicationAssumption, NamedArePacks
     DEF IInv, Consistent, TypeOK, Commit, Handlers, Handler, Indexes
<1>2. i \notin O
  BY DEF Others
<1>3. index' = [Without(index, O) EXCEPT ![i].pack = IF index[i].there THEN p ELSE @]
  BY DEF Commit
<1>4. NoIndex \in Index
  BY PublicationAssumption, NoneIsHome DEF NoIndex, Index, Heads
<1> HIDE DEF i, p, O
<1>5. /\ Without(index, O) \in [Indexes -> Index]
      /\ Without(index, O)[i] = index[i]
      /\ \A k \in Indexes : k \in O => Without(index, O)[k] = NoIndex
      /\ \A k \in Indexes \ O : Without(index, O)[k] = index[k]
  BY <1>1, <1>2, <1>4 DEF Without, TypeOK
<1> DEFINE q == IF index[i].there THEN p ELSE index[i].pack
           x == [index[i] EXCEPT !.pack = q]
<1>6. q \in Packs \cup {None} /\ index[i] \in Index
  BY <1>1 DEF TypeOK, Index
<1> HIDE DEF q
<1>7. /\ x \in Index /\ x.there = index[i].there /\ x.repo = index[i].repo /\ x.pack = q
  BY <1>6 DEF Index
<1>8. index' = [Without(index, O) EXCEPT ![i] = x]
  BY <1>1, <1>3, <1>5 DEF q
<1> HIDE DEF x
<1>9. /\ index' \in [Indexes -> Index] /\ index'[i] = x
      /\ \A k \in Indexes : k # i => index'[k] = Without(index, O)[k]
  BY <1>1, <1>5, <1>7, <1>8
<1>10. \A k \in Indexes : k \in O => index'[k] = NoIndex
  BY <1>2, <1>5, <1>9
<1>11. \A k \in Indexes \ O :
         /\ index'[k].there = index[k].there /\ index'[k].repo = index[k].repo
         /\ index'[k].pack = index[k].pack \/ (k = i /\ index'[k].pack = p)
  <2>1. q = p \/ q = index[i].pack
    BY DEF q
  <2>2. \A k \in Indexes \ O : k # i => index'[k] = index[k]
    BY <1>5, <1>9
  <2>3. ASSUME NEW k \in Indexes \ O
        PROVE  /\ index'[k].there = index[k].there /\ index'[k].repo = index[k].repo
               /\ index'[k].pack = index[k].pack \/ (k = i /\ index'[k].pack = p)
    <3>1. CASE k = i
      BY <3>1, <2>1, <1>7, <1>9
    <3>2. CASE k # i
      <4>1. index'[k] = index[k]
        BY <3>2, <2>2
      <4> QED BY <4>1
    <3> QED BY <3>1, <3>2
  <2> QED BY <2>3
<1>12. index[i].there => index'[i].pack = p
  BY <1>7, <1>9 DEF q
<1>13. ~NoIndex.there /\ NoIndex.pack = None
  BY DEF NoIndex
<1>14. \A k \in Indexes : index'[k].there => index[k].there
  BY <1>10, <1>11, <1>13
<1>15. ASSUME NEW k \in Indexes, index'[k].pack # None
       PROVE  k \notin O /\ index'[k].there
  <2>1. k \notin O
    BY <1>10, <1>13, <1>15
  <2>2. CASE index[k].pack # None
    BY <2>1, <2>2, <1>1, <1>11 DEF Kept
  <2>3. CASE index[k].pack = None
    <3>1. k = i /\ index'[i].pack # None
      BY <2>1, <2>3, <1>11, <1>15
    <3>2. index[i].there
      BY <3>1, <2>3, <1>7, <1>9 DEF q
    <3> QED BY <3>1, <3>2, <2>1, <1>11
  <2> QED BY <2>1, <2>2, <2>3
<1> QED BY <1>1, <1>2, <1>9, <1>10, <1>11, <1>12, <1>14, <1>15 DEF i, p, O

\* The packs that a transaction replaces.
LEMMA ReplacedArePacks ==
  ASSUME IInv, NEW b \in Builds, at[b].si \in Indexes
  PROVE  /\ ReplacedPacks(b) \subseteq Packs
         /\ \A p \in ReplacedPacks(b) :
              /\ p # None /\ p # at[b].pack
              /\ \E k \in Others(b) \cup {at[b].si} :
                   k \in Indexes /\ p = index[k].pack /\ p.index = k
<1>1. Others(b) \subseteq Indexes
  BY DEF Others, OfRepo
<1>2. ASSUME NEW p \in ReplacedPacks(b)
      PROVE  /\ p # None /\ p # at[b].pack
             /\ \E k \in Others(b) \cup {at[b].si} : k \in Indexes /\ p = index[k].pack
  BY <1>1, <1>2 DEF ReplacedPacks
<1>3. \A k \in Indexes : index[k].pack # None =>
        index[k].pack \in Packs /\ index[k].pack.index = k
  BY NamedArePacks DEF IInv, Consistent, Kept
<1> QED BY <1>2, <1>3

LEMMA CommitKeepsIInv == ASSUME IInv, NEW b \in Builds, Commit(b) PROVE IInv'
<1> DEFINE n == rowOf[b]
           i == at[b].si
           p == at[b].pack
           O == Others(b)
<1>1. /\ TypeOK /\ Pointers /\ Owners /\ Handlers /\ NamedAreSpent /\ Apart /\ Kept
      /\ at[b] \in Handler /\ at[b].pc = "uploaded"
  BY DEF IInv, Consistent, TypeOK, Commit
<1>2. /\ n \in Names /\ i \in Indexes /\ i # 0 /\ O \subseteq Indexes /\ n # None
      /\ p \in Packs /\ p # None /\ p.build = b /\ p.quick = at[b].quick /\ p.index = i
  BY <1>1, CommitIndexes, PublicationAssumption, NamedArePacks
     DEF Handlers, Indexes, Others, OfRepo
<1>3. /\ index' \in [Indexes -> Index]
      /\ \A k \in Indexes : k \in O => index'[k] = NoIndex
      /\ \A k \in Indexes \ O :
           /\ index'[k].there = index[k].there /\ index'[k].repo = index[k].repo
           /\ index'[k].pack = index[k].pack \/ (k = i /\ index'[k].pack = p)
      /\ \A k \in Indexes : index'[k].there => index[k].there
      /\ \A k \in Indexes : index'[k].pack # None => k \notin O /\ index'[k].there
  BY CommitIndexes
<1>4. /\ index[i].there => index'[i].pack = p
      /\ i \notin O
  BY CommitIndexes
<1>5. UNCHANGED <<rowOf, serial, r2, atlas, making, removing, tip, spoiled>>
  BY DEF Commit
<1>6. /\ repos' \in [Names -> Repo] /\ repos'[n].index = i
      /\ \A m \in Names : m # n => repos'[m] = repos[m]
  <2> DEFINE report == IF ~at[b].quick /\ at[b].lines THEN "with" ELSE "without"
  <2>1. report \in {"none", "without", "with"} /\ i \in 0 .. MaxIndex
    BY <1>1 DEF Handler
  <2>2. repos' = [repos EXCEPT ![n] = [@ EXCEPT !.index = i, !.report = report]]
    BY DEF Commit
  <2> HIDE DEF report, i, n
  <2> DEFINE x == [repos[n] EXCEPT !.index = i, !.report = report]
  <2>3. repos[n] \in Repo
    BY <1>1, <1>2 DEF TypeOK
  <2>4. x \in Repo /\ x.index = i
    BY <2>1, <2>3 DEF Repo
  <2>5. repos' = [repos EXCEPT ![n] = x]
    BY <2>2
  <2> QED BY <2>4, <2>5, <1>1, <1>2 DEF TypeOK
<1>7. ReplacedPacks(b) \subseteq Packs
  BY <1>2, ReplacedArePacks
<1>8. /\ at' \in [Builds -> Handler]
      /\ at'[b].pc = "cleanup" /\ at'[b].si = i /\ at'[b].quick = at[b].quick
      /\ at'[b].pack = p /\ at'[b].gone = ReplacedPacks(b)
      /\ \A c \in Builds : c # b => at'[c] = at[c]
  <2> DEFINE G == ReplacedPacks(b)
             h == [at[b] EXCEPT !.pc = "cleanup", !.dropped = O, !.gone = G]
  <2>1. at' = [at EXCEPT ![b] = h]
    BY DEF Commit
  <2> HIDE DEF G, O
  <2>2. G \subseteq Packs /\ O \subseteq Indexes
    BY <1>2, <1>7 DEF G
  <2>3. /\ h \in Handler /\ h.pc = "cleanup" /\ h.si = i /\ h.quick = at[b].quick
        /\ h.pack = p /\ h.gone = G
    BY <1>1, <2>2 DEF Handler, PCs
  <2> HIDE DEF h
  <2> QED BY <2>1, <2>3, <1>1 DEF TypeOK, G
<1> HIDE DEF n, i, p, O
<1>9. \A c \in Builds, q \in BOOLEAN : Spends(at[c], q) => Spends(at'[c], q)
  <2>1. ASSUME NEW q \in BOOLEAN, Spends(at[b], q) PROVE Spends(at'[b], q)
    BY <2>1, <1>1, <1>8 DEF Spends, Before
  <2> QED BY <2>1, <1>8
<1>10. \A c \in Builds : at'[c].pc = "uploaded" => c # b /\ at[c].pc = "uploaded" /\ at'[c] = at[c]
  BY <1>8
<1>11. ASSUME NEW c \in Builds, at'[c].pc = "uploaded"
       PROVE  at[c].pack # p /\ at[c].pack # None
  BY <1>1, <1>2, <1>10, <1>11 DEF Handlers
<1>12. TypeOK'
  BY <1>1, <1>3, <1>5, <1>6, <1>8 DEF TypeOK
<1>13. Pointers'
  <2>1. i <= serial /\ \A c \in Builds : at'[c].si = at[c].si
    BY <1>1, <1>8 DEF Pointers, i
  <2> QED BY <2>1, <1>1, <1>3, <1>5, <1>6 DEF Pointers
<1>14. Owners'
  <2>1. ASSUME NEW k \in Indexes, index'[k].there
        PROVE  index'[k].repo = index[k].repo /\ index[k].there
    <3>1. k \notin O
      BY <2>1, <1>3 DEF NoIndex
    <3> QED BY <3>1, <2>1, <1>3
  <2>2. ASSUME NEW m \in Names, Live(m)' # 0 PROVE index'[Live(m)'].repo = m
    <3>1. Live(m)' = repos'[m].index /\ repos'[m].index \in Indexes /\ index'[repos'[m].index].there
      BY <2>2, <1>6, PublicationAssumption DEF Live, Repo, Indexes
    <3>2. CASE m = n
      <4>1. index[i].there /\ index'[i].repo = index[i].repo
        BY <3>1, <3>2, <2>1, <1>6
      <4>2. index[i].repo = n
        BY <4>1, <1>1, <1>2 DEF Owners, i, n
      <4> QED BY <4>1, <4>2, <3>1, <3>2, <1>6
    <3>3. CASE m # n
      <4>1. repos'[m].index = repos[m].index /\ index[repos[m].index].there
        BY <3>1, <3>3, <2>1, <1>6
      <4>2. Live(m) = repos[m].index /\ Live(m) # 0
        BY <4>1, <3>1, <2>2 DEF Live
      <4> QED BY <4>1, <4>2, <3>1, <2>1, <1>1 DEF Owners
    <3> QED BY <3>2, <3>3
  <2>3. ASSUME NEW c \in Builds, at'[c].si # 0, rowOf[c] # None, index'[at'[c].si].there
        PROVE  index'[at'[c].si].repo = rowOf[c]
    <3>1. at'[c].si = at[c].si /\ at[c].si \in Indexes
      BY <2>3, <1>1, <1>8 DEF TypeOK, Handler, Indexes, i
    <3> QED BY <3>1, <2>1, <2>3, <1>1 DEF Owners
  <2> QED BY <2>2, <2>3, <1>5 DEF Owners
<1>15. Handlers'
  BY <1>1, <1>2, <1>8, <1>10 DEF Handlers
<1>16. NamedAreSpent'
  <2>1. \A q \in Packs : Spent(q) => Spent(q)'
    BY <1>9, SpentStays
  <2>2. Spends(at'[p.build], p.quick)
    <3>1. Spends(at'[b], at'[b].quick)
      BY <1>8 DEF Spends, Before
    <3> QED BY <3>1, <1>2, <1>8
  <2>3. ASSUME NEW k \in Indexes, NEW q, q = index'[k].pack, q # None
        PROVE  Spends(at'[q.build], q.quick)
    <3>1. k \notin O
      BY <2>3, <1>3
    <3>2. CASE q = p
      BY <3>2, <2>2
    <3>3. CASE q = index[k].pack
      <4>1. q \in Packs /\ Spent(q)
        BY <3>3, <2>3, <1>1, NamedArePacks DEF NamedAreSpent
      <4> QED BY <4>1, <2>1 DEF Spent
    <3> QED BY <3>1, <3>2, <3>3, <2>3, <1>3
  <2>4. ASSUME NEW c \in Builds, NEW q \in at'[c].gone PROVE Spent(q)'
    <3>1. q \in Packs /\ Spent(q)
      <4>1. CASE c = b
        BY <4>1, <2>4, <1>1, <1>2, <1>8, ReplacedArePacks DEF NamedAreSpent, i
      <4>2. CASE c # b
        BY <4>2, <2>4, <1>1, <1>8, NamedArePacks DEF NamedAreSpent
      <4> QED BY <4>1, <4>2
    <3> QED BY <3>1, <2>1
  <2> QED BY <2>3, <2>4 DEF NamedAreSpent, Spent
<1>17. Apart'
  <2>1. ASSUME NEW c \in Builds, at'[c].pc = "uploaded", NEW k \in Indexes
        PROVE  index'[k].pack # at'[c].pack
    <3>1. at'[c].pack = at[c].pack /\ at[c].pack # None /\ at[c].pack # p
      BY <2>1, <1>10, <1>11
    <3>2. index'[k].pack \in {None, p, index[k].pack}
      BY <1>3
    <3>3. index[k].pack # at[c].pack
      BY <2>1, <1>1, <1>10 DEF Apart
    <3> QED BY <3>1, <3>2, <3>3
  <2>2. ASSUME NEW c \in Builds, at'[c].pc = "uploaded", NEW d \in Builds
        PROVE  at'[c].pack \notin at'[d].gone
    <3>1. at'[c] = at[c] /\ at[c].pc = "uploaded"
      BY <2>2, <1>10
    <3>2. CASE d = b
      BY <3>1, <3>2, <1>1, <1>2, <1>8, ReplacedArePacks DEF Apart, i
    <3>3. CASE d # b
      BY <3>1, <3>3, <1>1, <1>8 DEF Apart
    <3> QED BY <3>2, <3>3
  <2>3. ASSUME NEW k \in Indexes, NEW d \in Builds, index'[k].pack \in at'[d].gone
        PROVE  FALSE
    <3>1. index'[k].pack # None
      BY <2>3, <1>8, NoneIsNoPack DEF Handler
    <3>2. k \notin O /\ index'[k].pack \in {p, index[k].pack}
      BY <3>1, <1>3
    <3>3. CASE d # b
      BY <3>2, <3>3, <2>3, <1>1, <1>8 DEF Apart, p
    <3>4. CASE d = b
      <4>1. /\ index'[k].pack # p
            /\ \E j \in O \cup {i} : j \in Indexes /\ index'[k].pack = index[j].pack
                                     /\ index'[k].pack.index = j
        BY <3>4, <2>3, <1>2, <1>8, ReplacedArePacks DEF i, p, O
      <4>2. index[k].pack = index'[k].pack /\ index[k].pack.index = k /\ index[k].there
        BY <4>1, <3>1, <3>2, <1>1 DEF Kept
      <4>3. k = i
        BY <4>1, <4>2, <3>2
      <4> QED BY <4>1, <4>2, <4>3, <1>4
    <3> QED BY <3>3, <3>4
  <2> QED BY <2>1, <2>2, <2>3 DEF Apart
<1>18. Kept'
  <2>1. Stored(p) \in r2
    BY <1>1 DEF Kept, p
  <2>2. ASSUME NEW k \in Indexes, index'[k].pack # None
        PROVE  index'[k].there /\ index'[k].pack.index = k
    <3>1. k \notin O /\ index'[k].there
      BY <2>2, <1>3
    <3>2. CASE index'[k].pack = index[k].pack
      BY <3>1, <3>2, <2>2, <1>1 DEF Kept
    <3>3. CASE k = i /\ index'[k].pack = p
      BY <3>1, <3>3, <1>2
    <3> QED BY <3>1, <3>2, <3>3, <1>3
  <2>3. \A c \in Builds : at'[c].pc = "uploaded" => Stored(at'[c].pack) \in r2
    BY <1>1, <1>10 DEF Kept
  <2> QED BY <2>2, <2>3, <1>1, <1>5 DEF Kept
<1> QED BY <1>12, <1>13, <1>14, <1>15, <1>16, <1>17, <1>18 DEF IInv, Consistent

-----------------------------------------------------------------------------
(* What a Build deletes *)

LEMMA DeletingKeepsIInv ==
  ASSUME IInv, NEW b \in Builds, CommitFindsNone(b) \/ Cleanup(b)
  PROVE  IInv'
<1>1. /\ TypeOK /\ Handlers /\ at[b] \in Handler /\ spoiled \in BOOLEAN
      /\ r2 \subseteq Objects /\ atlas \subseteq Packs
  BY DEF IInv, Consistent, TypeOK
<1>2. CASE CommitFindsNone(b)
  <2> DEFINE h == [at[b] EXCEPT !.pc = "undo", !.gone = {at[b].pack}]
  <2>1. at[b].pc = "uploaded" /\ at[b].pack \in Packs
    BY <1>1, <1>2, NamedArePacks DEF CommitFindsNone, Handlers
  <2>2. /\ h \in Handler /\ h.pc = "undo" /\ h.si = at[b].si /\ h.quick = at[b].quick
        /\ h.gone = {at[b].pack}
    BY <1>1, <2>1 DEF Handler, PCs
  <2>3. Moves(b, h) /\ spoiled' \in BOOLEAN
    BY <1>1, <1>2 DEF CommitFindsNone, Moves
  <2> HIDE DEF h
  <2>4. \A q \in BOOLEAN : Spends(at[b], q) => Spends(h, q)
    BY <2>1, <2>2 DEF Spends, Before
  <2> QED BY <2>1, <2>2, <2>3, <2>4, HandlerMoves
<1>3. CASE Cleanup(b)
  <2> DEFINE h == NextPhase(b)
  <2>1. at[b].pc \in {"cleanup", "undo"} /\ at' = [at EXCEPT ![b] = h]
    BY <1>3 DEF Cleanup
  <2>2. /\ h \in Handler /\ h.pc \in {"holding", "over"} /\ h.si = 0 /\ h.gone = {}
        /\ \A q \in BOOLEAN : Spends(at[b], q) => Spends(h, q)
    BY <1>1, <2>1, NextPhaseRests
  <2>3. PICK lost \in SUBSET Replaced(b) :
          r2' = r2 \ (Replaced(b) \ lost) /\ spoiled' = (spoiled \/ lost # {})
    BY <1>3 DEF Cleanup
  <2>4. spoiled' \in BOOLEAN
    BY <2>3
  <2>5. ASSUME NEW p \in Packs, Stored(p) \in r2, p \notin at[b].gone
        PROVE  Stored(p) \in r2'
    <3>1. Stored(p).kind = "pack" /\ Stored(p).pack = p
      BY DEF Stored
    <3>2. Stored(p) \notin Replaced(b)
      BY <3>1, <2>5 DEF Replaced
    <3> QED BY <3>2, <2>3, <2>5
  <2>6. r2' \subseteq Objects
    BY <1>1, <2>3
  <2>7. atlas' \subseteq Packs
    <3>1. at[b].pc = "cleanup" => at[b].pack \in Packs
      BY <1>1, NamedArePacks DEF Handlers
    <3> QED BY <3>1, <1>1, <1>3 DEF Cleanup
  <2>8. Moves(b, h)
    BY <1>3, <2>1, <2>5, <2>6, <2>7 DEF Cleanup, Moves
  <2> HIDE DEF h
  <2> QED BY <2>2, <2>4, <2>8, HandlerMoves
<1> QED BY <1>2, <1>3

-----------------------------------------------------------------------------
(* Steps of others *)

\* Pushes, and jobs that make an Atlas.
LEMMA AddingKeepsIInv ==
  ASSUME IInv, TypeOK', r2 \subseteq r2',
         UNCHANGED <<repos, rowOf, index, serial, at, removing>>
  PROVE  IInv'
<1> USE DEF IInv, Consistent
<1>1. \A n \in Names : Live(n)' = Live(n)
  BY DEF Live
<1>2. Pointers' /\ Owners' /\ Handlers' /\ Apart'
  BY <1>1 DEF Pointers, Owners, Handlers, Apart
<1>3. NamedAreSpent'
  BY DEF NamedAreSpent, Spent
<1>4. Kept'
  BY DEF Kept
<1> QED BY <1>2, <1>3, <1>4

LEMMA AtlasKeepsIInv ==
  ASSUME IInv, NEW p \in Packs, AtlasLooks(p) \/ AtlasStored(p)
  PROVE  IInv'
<1>1. TypeOK
  BY DEF IInv
<1>2. CASE AtlasLooks(p)
  BY <1>1, <1>2, AddingKeepsIInv DEF AtlasLooks, TypeOK
<1>3. CASE AtlasStored(p)
  <2>1. [kind |-> "atlas", pack |-> p] \in Objects
    BY DEF Objects, Kinds
  <2> QED BY <1>1, <1>3, <2>1, AddingKeepsIInv DEF AtlasStored, TypeOK
<1> QED BY <1>2, <1>3

LEMMA PushKeepsIInv == ASSUME IInv, Push PROVE IInv'
<1>1. TypeOK
  BY DEF IInv
<1>2. tip + 1 \in Heads
  BY <1>1, PublicationAssumption DEF Push, TypeOK, Heads
<1> QED BY <1>1, <1>2, AddingKeepsIInv DEF Push, TypeOK

\* A removal deletes the packs of its own repository only.
LEMMA RemoveObjectsKeepsIInv == ASSUME IInv, NEW n \in Names, RemoveObjects(n) PROVE IInv'
<1>1. /\ TypeOK /\ Pointers /\ Owners /\ Handlers /\ NamedAreSpent /\ Apart /\ Kept
      /\ "remove" \in Events
  BY DEF IInv, Consistent, RemoveObjects
<1>2. /\ UNCHANGED <<repos, rowOf, index, serial, at, atlas, making, tip, spoiled>>
      /\ removing' = removing \cup {n}
  BY DEF RemoveObjects
<1>3. r2' \subseteq r2
  BY DEF RemoveObjects
<1>4. ASSUME NEW p, Stored(p) \in r2, \A i \in OfRepo(n) : p # index[i].pack
      PROVE  Stored(p) \in r2'
  <2>1. Stored(p).kind # "atlas" /\ Stored(p).pack = p
    BY DEF Stored
  <2> QED BY <1>4, <2>1 DEF RemoveObjects
<1>5. TypeOK'
  BY <1>1, <1>2, <1>3 DEF TypeOK
<1>6. \A m \in Names : Live(m)' = Live(m)
  BY <1>2 DEF Live
<1>7. Pointers' /\ Owners' /\ Handlers' /\ Apart'
  BY <1>1, <1>2, <1>6 DEF Pointers, Owners, Handlers, Apart
<1>8. NamedAreSpent'
  BY <1>1, <1>2 DEF NamedAreSpent, Spent
<1>9. Kept'
  <2>1. ASSUME NEW b \in Builds, at[b].pc = "uploaded" PROVE Stored(at[b].pack) \in r2'
    <3>1. Stored(at[b].pack) \in r2 /\ \A i \in Indexes : index[i].pack # at[b].pack
      BY <2>1, <1>1 DEF Kept, Apart
    <3> QED BY <3>1, <1>4 DEF OfRepo
  <2> QED BY <2>1, <1>1, <1>2 DEF Kept
<1> QED BY <1>5, <1>7, <1>8, <1>9 DEF IInv, Consistent

LEMMA RemoveRowKeepsIInv == ASSUME IInv, NEW n \in Names, RemoveRow(n) PROVE IInv'
<1>1. /\ TypeOK /\ Pointers /\ Owners /\ Handlers /\ NamedAreSpent /\ Apart /\ Kept
  BY DEF IInv, Consistent
<1>2. /\ UNCHANGED <<serial, r2, at, atlas, making, tip>>
      /\ removing' = removing \ {n}
  BY DEF RemoveRow
<1>3. NoIndex \in Index /\ ~NoIndex.there /\ NoIndex.pack = None
  BY PublicationAssumption, NoneIsHome DEF NoIndex, Index, Heads
<1>4. /\ index' \in [Indexes -> Index]
      /\ \A i \in Indexes : i \in OfRepo(n) => index'[i] = NoIndex
      /\ \A i \in Indexes : i \notin OfRepo(n) => index'[i] = index[i]
  BY <1>1, <1>3 DEF RemoveRow, Without, TypeOK
<1>5. ASSUME NEW i \in Indexes, index'[i].there \/ index'[i].pack # None
      PROVE  index'[i] = index[i] /\ index[i].repo # n /\ index[i].there
  <2>1. i \notin OfRepo(n) /\ index'[i] = index[i]
    BY <1>3, <1>4, <1>5
  <2>2. index[i].there
    BY <1>1, <1>5, <2>1 DEF Kept
  <2> QED BY <2>1, <2>2 DEF OfRepo
<1>6. /\ repos' \in [Names -> Repo] /\ repos'[n].index = 0
      /\ \A m \in Names : m # n => repos'[m] = repos[m]
  <2>1. NoRepo \in Repo /\ NoRepo.index = 0
    BY PublicationAssumption DEF NoRepo, Repo
  <2> QED BY <2>1, <1>1 DEF RemoveRow, TypeOK
<1>7. /\ rowOf' \in [Builds -> Names \cup {None}]
      /\ \A b \in Builds : rowOf'[b] # None => rowOf'[b] = rowOf[b]
  BY <1>1 DEF RemoveRow, TypeOK
<1>8. spoiled' \in BOOLEAN
  <2>1. spoiled' = (spoiled \/ LeavesBehind(OfRepo(n)))
    BY DEF RemoveRow
  <2> QED BY <2>1
<1>9. TypeOK'
  BY <1>1, <1>2, <1>4, <1>6, <1>7, <1>8 DEF TypeOK
<1>10. Pointers'
  BY <1>1, <1>2, <1>5, <1>6 DEF Pointers, TypeOK
<1>11. Owners'
  <2>1. ASSUME NEW m \in Names, Live(m)' # 0 PROVE index'[Live(m)'].repo = m
    <3>1. /\ Live(m)' = repos'[m].index /\ repos'[m].index \in Indexes
          /\ index'[repos'[m].index].there
      BY <2>1, <1>6, PublicationAssumption DEF Live, Repo, Indexes
    <3>2. m # n /\ repos'[m] = repos[m]
      BY <3>1, <1>6, PublicationAssumption DEF Indexes
    <3>3. /\ index'[repos[m].index] = index[repos[m].index]
          /\ index[repos[m].index].there
      BY <3>1, <3>2, <1>5
    <3>4. Live(m) = repos[m].index /\ Live(m) # 0
      BY <3>1, <3>2, <3>3, <2>1 DEF Live
    <3> QED BY <3>1, <3>2, <3>3, <3>4, <1>1 DEF Owners
  <2>2. ASSUME NEW b \in Builds, at[b].si # 0, rowOf'[b] # None, index'[at[b].si].there
        PROVE  index'[at[b].si].repo = rowOf'[b]
    <3>1. at[b].si \in Indexes
      BY <2>2, <1>1 DEF TypeOK, Handler, Indexes
    <3> QED BY <3>1, <2>2, <1>1, <1>5, <1>7 DEF Owners
  <2> QED BY <2>1, <2>2, <1>2 DEF Owners
<1>12. Handlers'
  BY <1>1, <1>2 DEF Handlers
<1>13. NamedAreSpent'
  BY <1>1, <1>2, <1>5 DEF NamedAreSpent, Spent
<1>14. Apart'
  <2>1. \A i \in Indexes : index'[i].pack = None \/ index'[i].pack = index[i].pack
    BY <1>5
  <2>2. \A b \in Builds : None \notin at[b].gone
    BY <1>1, NamedArePacks, NoneIsNoPack
  <2>3. \A b \in Builds : at[b].pc = "uploaded" => at[b].pack # None
    BY <1>1 DEF Handlers
  <2> QED BY <2>1, <2>2, <2>3, <1>1, <1>2 DEF Apart
<1>15. Kept'
  BY <1>1, <1>2, <1>5 DEF Kept
<1> QED BY <1>9, <1>10, <1>11, <1>12, <1>13, <1>14, <1>15 DEF IInv, Consistent

\* A crash ends every handler in flight.
LEMMA CrashKeepsIInv == ASSUME IInv, Crash PROVE IInv'
<1>1. /\ TypeOK /\ Pointers /\ Owners /\ Handlers /\ NamedAreSpent /\ Apart /\ Kept
  BY DEF IInv, Consistent
<1>2. UNCHANGED <<repos, rowOf, index, serial, r2, removing, tip>>
  BY DEF Crash
<1>3. ASSUME NEW b \in Builds
      PROVE  /\ at'[b] \in Handler
             /\ \/ at'[b] = at[b] /\ at[b].pc \in {"asked", "over"}
                \/ /\ at'[b].pc = "over" /\ ~at'[b].quick
                   /\ at'[b].si = 0 /\ at'[b].gone = {}
             /\ \A q \in BOOLEAN : Spends(at[b], q) => Spends(at'[b], q)
  <2> DEFINE h == AtRest("over", at[b].attempt, None)
  <2>1. at[b] \in Handler /\ at[b].attempt \in 1 .. Attempts /\ "over" \in PCs
    BY <1>1 DEF TypeOK, Handler, PCs
  <2>2. h \in Handler
    BY <2>1, AtRestIsHandler, NoneIsHome
  <2>3. /\ h.pc = "over" /\ h.quick = FALSE /\ h.si = 0 /\ h.gone = {}
    BY DEF AtRest
  <2>4. at'[b] = IF InFlight(b) THEN h ELSE at[b]
    BY DEF Crash
  <2> HIDE DEF h
  <2>5. CASE InFlight(b)
    <3>1. \A q \in BOOLEAN : Spends(h, q)
      BY <2>3 DEF Spends, Before
    <3> QED BY <3>1, <2>2, <2>3, <2>4, <2>5
  <2>6. CASE ~InFlight(b)
    BY <2>1, <2>4, <2>6 DEF InFlight
  <2> QED BY <2>5, <2>6
<1>4. TypeOK'
  <2>1. at' \in [Builds -> Handler]
    <3>1. at' = [b \in Builds |-> IF InFlight(b) THEN AtRest("over", at[b].attempt, None)
                                  ELSE at[b]]
      BY DEF Crash
    <3> QED BY <3>1, <1>3
  <2>2. atlas' \subseteq Packs /\ making' \subseteq Packs
    BY <1>1 DEF Crash, TypeOK
  <2>3. spoiled' \in BOOLEAN
    <3>1. spoiled' = (spoiled \/ \E b \in Builds : at[b].pc \in {"uploaded", "undo", "cleanup"})
      BY DEF Crash
    <3> QED BY <3>1
  <2> QED BY <2>1, <2>2, <2>3, <1>1, <1>2 DEF TypeOK
<1>5. Pointers'
  BY <1>1, <1>2, <1>3 DEF Pointers, TypeOK
<1>6. Owners'
  <2>1. \A n \in Names : Live(n)' = Live(n)
    BY <1>2 DEF Live
  <2> QED BY <2>1, <1>1, <1>2, <1>3 DEF Owners
<1>7. Handlers'
  BY <1>1, <1>3 DEF Handlers
<1>8. NamedAreSpent'
  BY <1>1, <1>2, <1>3, SpentStays, NamedArePacks DEF NamedAreSpent
<1>9. Apart'
  BY <1>1, <1>2, <1>3 DEF Apart
<1>10. Kept'
  BY <1>1, <1>2, <1>3 DEF Kept
<1> QED BY <1>4, <1>5, <1>6, <1>7, <1>8, <1>9, <1>10 DEF IInv, Consistent

\* A rename settles every row into one, with the index its Report points at.
LEMMA SettleKeepsIInv == ASSUME IInv, Settle PROVE IInv'
<1>1. /\ TypeOK /\ Pointers /\ Owners /\ Handlers /\ NamedAreSpent /\ Apart /\ Kept
      /\ Current \in Names
  BY PublicationAssumption DEF IInv, Consistent, Settle
<1>2. UNCHANGED <<serial, r2, at, atlas, making, removing, tip>>
  BY DEF Settle
<1> DEFINE members == {n \in Names : repos[n].there}
           holders == {n \in members : repos[n].report # "none"}
           choice == IF holders # {} THEN holders ELSE (members \cap {Current}) \cup
                       (IF Current \in members THEN {} ELSE {None})
<1>3. PICK from \in choice :
        LET dropped == {i \in Indexes : index[i].there /\ index[i].repo # from}
            base == IF from # None THEN repos[from] ELSE NoRepo
        IN
        /\ repos' = [n \in Names |->
                       IF n = Current THEN [base EXCEPT !.there = TRUE] ELSE NoRepo]
        /\ index' = [i \in Indexes |->
                       IF i \in dropped THEN NoIndex
                       ELSE IF index[i].there THEN [index[i] EXCEPT !.repo = Current]
                       ELSE index[i]]
        /\ spoiled' = (spoiled \/ LeavesBehind(dropped))
  BY Zenon DEF Settle
<1>4. from \in Names \cup {None}
  OBVIOUS
<1> HIDE DEF members, holders, choice
<1> DEFINE base == IF from # None THEN repos[from] ELSE NoRepo
<1>5. NoIndex \in Index /\ ~NoIndex.there /\ NoIndex.pack = None /\ NoIndex.repo = None
  BY PublicationAssumption, NoneIsHome DEF NoIndex, Index, Heads
<1>6. NoRepo \in Repo /\ NoRepo.index = 0
  BY PublicationAssumption DEF NoRepo, Repo
<1>7. base \in Repo
  BY <1>1, <1>4, <1>6 DEF TypeOK
<1>8. ASSUME NEW i \in Indexes
      PROVE  /\ index'[i] \in Index
             /\ index'[i].there \/ index'[i].pack # None =>
                  /\ index[i].there /\ index[i].repo = from /\ index'[i].repo = Current
                  /\ index'[i].there /\ index'[i].pack = index[i].pack
  <2>1. index[i] \in Index
    BY <1>1 DEF TypeOK
  <2>2. CASE index[i].there /\ index[i].repo # from
    <3>1. index'[i] = NoIndex
      BY <1>3, <2>2
    <3> QED BY <3>1, <1>5
  <2>3. CASE index[i].there /\ index[i].repo = from
    <3> DEFINE x == [index[i] EXCEPT !.repo = Current]
    <3>1. index'[i] = x
      BY <1>3, <2>3
    <3>2. x \in Index /\ x.repo = Current /\ x.there = index[i].there /\ x.pack = index[i].pack
      BY <1>1, <2>1 DEF Index
    <3> QED BY <3>1, <3>2, <2>3
  <2>4. CASE ~index[i].there
    <3>1. index'[i] = index[i]
      BY <1>3, <2>4
    <3>2. index[i].pack = None
      BY <2>4, <1>1 DEF Kept
    <3> QED BY <3>1, <3>2, <2>1, <2>4
  <2> QED BY <2>2, <2>3, <2>4
<1>9. index' \in [Indexes -> Index]
  <2>1. \A i \in Indexes : index'[i] \in Index
    BY <1>8
  <2> QED BY <2>1, <1>3
<1>10. /\ repos' \in [Names -> Repo] /\ repos'[Current].index = base.index
      /\ \A n \in Names : n # Current => repos'[n].index = 0
  <2> DEFINE x == [base EXCEPT !.there = TRUE]
  <2>1. x \in Repo /\ x.index = base.index
    BY <1>7 DEF Repo
  <2>2. repos' = [n \in Names |-> IF n = Current THEN x ELSE NoRepo]
    BY <1>3
  <2> HIDE DEF x, base
  <2> QED BY <2>1, <2>2, <1>1, <1>6
<1>11. /\ rowOf' \in [Builds -> Names \cup {None}]
       /\ \A b \in Builds : rowOf'[b] # None => rowOf[b] # None /\ rowOf'[b] = Current
  BY <1>1 DEF Settle, TypeOK
<1>12. spoiled' \in BOOLEAN
  <2>1. PICK t \in BOOLEAN : spoiled' = (spoiled \/ t)
    <3>1. LeavesBehind({i \in Indexes : index[i].there /\ index[i].repo # from}) \in BOOLEAN
      BY DEF LeavesBehind
    <3> QED BY <3>1, <1>3, Zenon
  <2> QED BY <2>1
<1>13. TypeOK'
  BY <1>1, <1>2, <1>9, <1>10, <1>11, <1>12 DEF TypeOK
<1>14. base.index <= serial /\ (base.index # 0 => from \in Names /\ base.index = repos[from].index)
  BY <1>1, <1>4, <1>6 DEF Pointers, TypeOK
<1> HIDE DEF base
<1>15. Pointers'
  <2>1. 0 <= serial
    BY <1>1, PublicationAssumption DEF TypeOK
  <2> QED BY <2>1, <1>1, <1>2, <1>8, <1>10, <1>14 DEF Pointers
<1>16. Owners'
  <2>1. ASSUME NEW n \in Names, Live(n)' # 0 PROVE index'[Live(n)'].repo = n
    <3>1. /\ Live(n)' = repos'[n].index /\ repos'[n].index \in Indexes
          /\ repos'[n].index # 0 /\ index'[repos'[n].index].there
      BY <2>1, <1>10, PublicationAssumption DEF Live, Repo, Indexes
    <3>2. n = Current
      BY <3>1, <1>10
    <3> QED BY <3>1, <3>2, <1>8
  <2>2. ASSUME NEW b \in Builds, at[b].si # 0, rowOf'[b] # None, index'[at[b].si].there
        PROVE  index'[at[b].si].repo = rowOf'[b]
    <3>1. at[b].si \in Indexes
      BY <2>2, <1>1 DEF TypeOK, Handler, Indexes
    <3> QED BY <3>1, <2>2, <1>8, <1>11
  <2> QED BY <2>1, <2>2, <1>2 DEF Owners
<1>17. Handlers'
  BY <1>1, <1>2 DEF Handlers
<1>18. \A i \in Indexes : index'[i].pack = None \/ index'[i].pack = index[i].pack
  BY <1>8
<1>19. NamedAreSpent'
  BY <1>1, <1>2, <1>18 DEF NamedAreSpent, Spent
<1>20. Apart'
  <2>1. \A b \in Builds : None \notin at[b].gone
    BY <1>1, NamedArePacks, NoneIsNoPack
  <2>2. \A b \in Builds : at[b].pc = "uploaded" => at[b].pack # None
    BY <1>1 DEF Handlers
  <2> QED BY <2>1, <2>2, <1>1, <1>2, <1>18 DEF Apart
<1>21. Kept'
  BY <1>1, <1>2, <1>8 DEF Kept
<1> QED BY <1>13, <1>15, <1>16, <1>17, <1>19, <1>20, <1>21 DEF IInv, Consistent

-----------------------------------------------------------------------------
(* The invariant is inductive *)

\* IInv is inductive.
LEMMA NextIInv == ASSUME IInv, [Next]_vars PROVE IInv'
<1>1. TypeOK
  BY DEF IInv
<1>2. CASE \E b \in Builds : Work(b)
  BY <1>2, RestingKeepsIInv, LoadNewKeepsIInv, AppendKeepsIInv, UploadKeepsIInv,
     CommitKeepsIInv, DeletingKeepsIInv DEF Work
<1>3. CASE (\E p \in atlas : AtlasLooks(p)) \/ (\E p \in making : AtlasStored(p))
  BY <1>1, <1>3, AtlasKeepsIInv DEF TypeOK
<1>4. CASE \E n \in Names : RemoveObjects(n) \/ RemoveRow(n)
  BY <1>4, RemoveObjectsKeepsIInv, RemoveRowKeepsIInv
<1>5. CASE Push
  BY <1>5, PushKeepsIInv
<1>6. CASE Settle
  BY <1>6, SettleKeepsIInv
<1>7. CASE Crash
  BY <1>7, CrashKeepsIInv
<1>8. CASE UNCHANGED vars
  <2>1. TypeOK'
    BY <1>1, <1>8 DEF TypeOK, vars
  <2> QED BY <2>1, <1>8, AddingKeepsIInv DEF vars
<1> QED BY <1>2, <1>3, <1>4, <1>5, <1>6, <1>7, <1>8 DEF Next

LEMMA Inductive == Spec => []IInv
<1>1. IInv /\ [Next]_vars => IInv'
  BY NextIInv
<1> QED BY <1>1, InitIInv, PTL DEF Spec

\* Every variable of the publication keeps its type: handlers stay within their
\* attempts, and nothing points past the last Stored Index made.
THEOREM TypeCorrect == Spec => []TypeOK
<1>1. IInv => TypeOK
  BY DEF IInv
<1> QED BY <1>1, Inductive, PTL

-----------------------------------------------------------------------------
(* What an index names is stored *)

\* No row is settled between the two stores of a removal.  (Its index would go to
\* a row that is not removed, its pack gone.)
Unraced == Settle => removing = {}

NamedIsStored ==
  \A i \in Indexes : index[i].pack # None =>
    Stored(index[i].pack) \in r2 \/ index[i].repo \in removing

\* The steps that leave each index its pack, under its row, and R2 its packs.
LEMMA NamedStays ==
  ASSUME NamedIsStored, r2 \subseteq r2', UNCHANGED removing,
         \A i \in Indexes : index'[i].pack # None =>
           index'[i].pack = index[i].pack /\ index'[i].repo = index[i].repo
  PROVE  NamedIsStored'
BY DEF NamedIsStored, Stored

LEMMA LoadKeepsNamed ==
  ASSUME IInv, NamedIsStored, NEW b \in Builds, LoadNew(b) \/ Append(b) PROVE NamedIsStored'
<1>1. index \in [Indexes -> Index] /\ UNCHANGED <<r2, removing>>
  BY DEF IInv, TypeOK, LoadNew, Append
<1>2. CASE LoadNew(b)
  <2>1. index' = [index EXCEPT ![serial + 1] =
          [there |-> TRUE, repo |-> rowOf[b], lineage |-> at[b].home, head |-> at[b].head,
           lines |-> at[b].lines, pack |-> None]]
    BY <1>2 DEF LoadNew
  <2>2. \A i \in Indexes : index'[i].pack = None \/ index'[i] = index[i]
    BY <2>1, <1>1
  <2> QED BY <2>2, <1>1, NamedStays
<1>3. CASE Append(b)
  <2>1. PICK i : index' = [index EXCEPT ![i] = [@ EXCEPT !.head = at[b].head, !.lines = at[b].lines]]
    BY <1>3 DEF Append
  <2>2. \A k \in Indexes : index'[k].pack = index[k].pack /\ index'[k].repo = index[k].repo
    BY <2>1, <1>1 DEF Index
  <2> QED BY <2>2, <1>1, NamedStays
<1> QED BY <1>2, <1>3

\* The pack the transaction names was uploaded before.
LEMMA CommitKeepsNamed ==
  ASSUME IInv, NamedIsStored, NEW b \in Builds, Commit(b) PROVE NamedIsStored'
<1>1. UNCHANGED <<r2, removing>> /\ Stored(at[b].pack) \in r2
  BY DEF IInv, Consistent, Kept, Commit
<1>2. ASSUME NEW k \in Indexes, index'[k].pack # None
      PROVE  Stored(index'[k].pack) \in r2 \/ index'[k].repo \in removing
  <2>1. k \notin Others(b)
    BY <1>2, CommitIndexes
  <2>2. /\ index'[k].repo = index[k].repo
        /\ index'[k].pack = index[k].pack \/ index'[k].pack = at[b].pack
    BY <2>1, CommitIndexes
  <2> QED BY <2>2, <1>1, <1>2 DEF NamedIsStored
<1> QED BY <1>1, <1>2 DEF NamedIsStored, Stored

\* What a handler deletes, no index names.
LEMMA CleanupKeepsNamed ==
  ASSUME IInv, NamedIsStored, NEW b \in Builds, Cleanup(b) PROVE NamedIsStored'
<1>1. UNCHANGED <<index, removing>> /\ Apart
  BY DEF IInv, Consistent, Cleanup
<1>2. PICK lost \in SUBSET Replaced(b) : r2' = r2 \ (Replaced(b) \ lost)
  BY DEF Cleanup
<1>3. ASSUME NEW i \in Indexes, Stored(index[i].pack) \in r2
      PROVE  Stored(index[i].pack) \in r2'
  <2>1. index[i].pack \notin at[b].gone
    BY <1>1 DEF Apart
  <2>2. Stored(index[i].pack) \notin Replaced(b)
    BY <2>1 DEF Replaced, Stored
  <2> QED BY <2>2, <1>2, <1>3
<1>4. \A p : Stored(p)' = Stored(p)
  BY DEF Stored
<1> QED BY <1>1, <1>3, <1>4 DEF NamedIsStored

\* A removal takes the packs of its own indexes.
LEMMA RemoveObjectsKeepsNamed ==
  ASSUME IInv, NamedIsStored, NEW n \in Names, RemoveObjects(n) PROVE NamedIsStored'
<1>1. Kept /\ index' = index /\ removing' = removing \cup {n}
  BY DEF IInv, Consistent, RemoveObjects
<1>2. ASSUME NEW i \in Indexes, index[i].pack # None, index[i].repo \notin removing \cup {n}
      PROVE  Stored(index[i].pack) \in r2'
  <2>1. Stored(index[i].pack) \in r2
    BY <1>2 DEF NamedIsStored
  <2>2. ASSUME NEW k \in OfRepo(n), index[i].pack = index[k].pack PROVE FALSE
    <3>1. k \in Indexes /\ index[k].repo = n /\ index[k].pack.index = k
      BY <2>2, <1>1, <1>2 DEF OfRepo, Kept
    <3>2. index[i].pack.index = i
      BY <1>1, <1>2 DEF Kept
    <3> QED BY <3>1, <3>2, <2>2, <1>2
  <2>3. Stored(index[i].pack).kind = "pack" /\ Stored(index[i].pack).pack = index[i].pack
    BY DEF Stored
  <2> QED BY <2>1, <2>2, <2>3 DEF RemoveObjects
<1>3. \A p : Stored(p)' = Stored(p)
  BY DEF Stored
<1> QED BY <1>1, <1>2, <1>3 DEF NamedIsStored

LEMMA RemoveRowKeepsNamed ==
  ASSUME IInv, NamedIsStored, NEW n \in Names, RemoveRow(n) PROVE NamedIsStored'
<1>1. /\ TypeOK /\ Kept /\ removing' = removing \ {n} /\ r2' = r2
      /\ index' = Without(index, OfRepo(n)) /\ NoIndex.pack = None
  BY DEF IInv, Consistent, RemoveRow, NoIndex
<1>2. ASSUME NEW i \in Indexes, index'[i].pack # None
      PROVE  Stored(index'[i].pack) \in r2 \/ index'[i].repo \in removing'
  <2>1. i \notin OfRepo(n) /\ index'[i] = index[i]
    BY <1>1, <1>2 DEF Without, TypeOK
  <2>2. index[i].repo # n
    BY <2>1, <1>1, <1>2 DEF Kept, OfRepo
  <2> QED BY <2>1, <2>2, <1>1, <1>2 DEF NamedIsStored
<1>3. \A p : Stored(p)' = Stored(p)
  BY DEF Stored
<1> QED BY <1>1, <1>2, <1>3 DEF NamedIsStored

LEMMA SettleKeepsNamed ==
  ASSUME IInv, NamedIsStored, Settle, Unraced PROVE NamedIsStored'
<1>1. removing = {} /\ UNCHANGED <<r2, removing>>
  BY DEF Unraced, Settle
<1>2. PICK dropped : index' = [i \in Indexes |->
                        IF i \in dropped THEN NoIndex
                        ELSE IF index[i].there THEN [index[i] EXCEPT !.repo = Current]
                        ELSE index[i]]
  BY Zenon DEF Settle
<1>3. ASSUME NEW i \in Indexes, index'[i].pack # None PROVE index'[i].pack = index[i].pack
  <2>1. index[i] \in Index /\ NoIndex.pack = None
    BY DEF IInv, TypeOK, NoIndex
  <2> DEFINE x == [index[i] EXCEPT !.repo = Current]
  <2>2. x.pack = index[i].pack
    BY <2>1 DEF Index
  <2>3. index'[i] \in {NoIndex, x, index[i]}
    BY <1>2
  <2> HIDE DEF x
  <2> QED BY <2>1, <2>2, <2>3, <1>3
<1>4. \A p : Stored(p)' = Stored(p)
  BY DEF Stored
<1> QED BY <1>1, <1>3, <1>4 DEF NamedIsStored

LEMMA NextNamed ==
  ASSUME IInv, NamedIsStored, [Next]_vars, [Unraced]_vars PROVE NamedIsStored'
<1>1. CASE \/ UNCHANGED vars \/ Push \/ Crash
           \/ \E p \in atlas : AtlasLooks(p)
           \/ \E p \in making : AtlasStored(p)
  <2>1. r2 \subseteq r2' /\ UNCHANGED <<index, removing>>
    BY <1>1 DEF vars, Push, Crash, AtlasLooks, AtlasStored
  <2> QED BY <2>1, NamedStays
<1>2. ASSUME NEW b \in Builds, Work(b) PROVE NamedIsStored'
  <2>1. CASE \/ Start(b) \/ Export(b) \/ TimesOut(b) \/ Fails(b) \/ Declines(b)
             \/ Upload(b) \/ CommitFindsNone(b)
    <3>1. r2 \subseteq r2' /\ UNCHANGED <<index, removing>>
      BY <2>1 DEF Start, Export, TimesOut, Fails, Declines, Upload, CommitFindsNone
    <3> QED BY <3>1, NamedStays
  <2> QED BY <1>2, <2>1, LoadKeepsNamed, CommitKeepsNamed, CleanupKeepsNamed DEF Work
<1>3. CASE \E n \in Names : RemoveObjects(n) \/ RemoveRow(n)
  BY <1>3, RemoveObjectsKeepsNamed, RemoveRowKeepsNamed
<1>4. CASE Settle
  <2>1. CASE UNCHANGED vars
    BY <2>1, <1>1
  <2>2. CASE ~UNCHANGED vars
    BY <2>2, <1>4, SettleKeepsNamed
  <2> QED BY <2>1, <2>2
<1> QED BY <1>1, <1>2, <1>3, <1>4 DEF Next

LEMMA NamedAlways == Spec /\ [][Unraced]_vars => []NamedIsStored
<1>1. Init => NamedIsStored
  BY DEF Init, NamedIsStored, NoIndex
<1>2. IInv /\ NamedIsStored /\ [Next]_vars /\ [Unraced]_vars => NamedIsStored'
  BY NextNamed
<1> QED BY <1>1, <1>2, Inductive, PTL DEF Spec

\* So it is where repositories are renamed, or removed, and not both.
LEMMA UnracedAlone ==
  ASSUME "rename" \notin Events \/ "remove" \notin Events PROVE Spec => [][Unraced]_vars
<1>1. IInv /\ [Next]_vars => [Unraced]_vars
  BY DEF IInv, Consistent, Kept, Unraced, Settle
<1> QED BY <1>1, Inductive, PTL DEF Spec

\* A pack the Site may be sent to is in R2, whatever handlers, crashes, failed
\* steps, removals and renames (also in the middle of a Build) there are, as long
\* as no rename is settled between the two stores of a removal.
THEOREM ServedIsStored == Spec /\ [][Unraced]_vars => []PackIsThere
<1>1. IInv /\ NamedIsStored => PackIsThere
  <2> SUFFICES ASSUME IInv, NamedIsStored, NEW n \in Names \ removing, Live(n) # 0,
                      index[Live(n)].pack # None
               PROVE  Stored(index[Live(n)].pack) \in r2
    BY DEF PackIsThere
  <2>1. Live(n) \in Indexes /\ index[Live(n)].repo = n
    BY LiveIndex DEF IInv, Consistent, Owners
  <2> QED BY <2>1 DEF NamedIsStored
<1> QED BY <1>1, Inductive, NamedAlways, PTL

-----------------------------------------------------------------------------
(* Where renames are found between Builds *)

\* A handler holds the clone of its repository's row, and no two hold one.
HoldsOne ==
  \A b \in Builds : InFlight(b) =>
    /\ at[b].home \in Names
    /\ rowOf[b] # None => at[b].home = rowOf[b]
    /\ \A c \in Builds : InFlight(c) /\ at[c].home = at[b].home => c = b

\* What a handler has loaded is there for as long as its row.
LoadedIsThere ==
  \A b \in Builds :
    at[b].pc \in {"loaded", "uploaded"} /\ rowOf[b] # None => index[at[b].si].there

\* Every head was the remote's, and an export is of one since its clone was held.
Exported == {"exported", "loaded", "uploaded"}

HeadsBelow ==
  /\ \A i \in Indexes : index[i].pack # None => index[i].pack.head <= tip
  /\ \A b \in Builds : at[b].head <= tip /\ at[b].since <= tip
  /\ \A b \in Builds : at[b].pc \in Exported => at[b].since <= at[b].head
  /\ \A b \in Builds : at[b].pc = "uploaded" => at[b].pack.head = at[b].head

\* The Report a handler will replace is no newer than when it took its clone,
\* unless it has published it itself.
Newest ==
  \A b \in Builds :
    InFlight(b) /\ rowOf[b] # None /\ Live(rowOf[b]) # 0
      /\ index[Live(rowOf[b])].pack # None
        => \/ index[Live(rowOf[b])].pack.build = b
           \/ index[Live(rowOf[b])].pack.head <= at[b].since

Order == HoldsOne /\ LoadedIsThere /\ ReportHasIndex /\ HeadsBelow /\ Newest

\* No rename is found in the middle of a Build, of a repository that is public.
BetweenBuilds == "rename" \in Events => ~RenameMidBuild

OneByOne == BetweenBuilds /\ ~Private

-----------------------------------------------------------------------------
(* What the steps leave of the order *)

\* A step that leaves the live indexes alone and their packs.
SameLive ==
  /\ UNCHANGED <<repos, rowOf>>
  /\ \A n \in Names : Live(n)' = Live(n)
  /\ \A i \in Indexes : index[i].there =>
       index'[i].there /\ index'[i].repo = index[i].repo /\ index'[i].pack = index[i].pack
  /\ \A i \in Indexes : index'[i].pack # None => index'[i].pack = index[i].pack

LEMMA UnchangedIsSameLive ==
  ASSUME UNCHANGED <<repos, rowOf, index>> PROVE SameLive
<1>1. \A n \in Names : Live(n)' = Live(n)
  BY DEF Live
<1> QED BY <1>1 DEF SameLive

\* A step of one handler.
LEMMA StepOfOne ==
  ASSUME IInv, Order, SameLive, tip' = tip,
         NEW b \in Builds, NEW h \in Handler, at' = [at EXCEPT ![b] = h],
         h.pc \notin {"asked", "over"} =>
           \/ InFlight(b) /\ h.home = at[b].home /\ h.since = at[b].since
           \/ rowOf[b] # None /\ h.home = rowOf[b] /\ HomeFree(rowOf[b]) /\ h.since = tip,
         h.pc \in {"loaded", "uploaded"} /\ rowOf[b] # None =>
           \/ at[b].pc \in {"loaded", "uploaded"} /\ h.si = at[b].si
           \/ h.si \in Indexes /\ index'[h.si].there,
         h.head <= tip, h.since \in {0, at[b].since, tip},
         h.pc = "uploaded" => h.pack.head = h.head,
         h.pc \in Exported => h.since <= h.head
  PROVE  Order'
<1>1. /\ at'[b] = h
      /\ \A c \in Builds : c # b => at'[c] = at[c]
      /\ rowOf[b] \in Names \cup {None} /\ tip \in Nat /\ TypeOK /\ Handlers
  BY DEF IInv, Consistent, TypeOK, Heads
<1>2. /\ HoldsOne /\ LoadedIsThere /\ ReportHasIndex /\ HeadsBelow /\ Newest
      /\ UNCHANGED <<repos, rowOf>>
      /\ \A n \in Names : Live(n)' = Live(n)
      /\ \A i \in Indexes : index[i].there =>
           index'[i].there /\ index'[i].repo = index[i].repo /\ index'[i].pack = index[i].pack
      /\ \A i \in Indexes : index'[i].pack # None => index'[i].pack = index[i].pack
  BY DEF Order, SameLive
<1>3. \A n \in Names : Live(n) # 0 => Live(n) \in Indexes /\ index[Live(n)].there
  BY <1>1, LiveIndex
<1>4. HoldsOne'
  <2>1. ASSUME NEW c \in Builds, InFlight(c)'
        PROVE  /\ at'[c].home \in Names /\ (rowOf[c] # None => at'[c].home = rowOf[c])
               /\ \A d \in Builds : InFlight(d)' /\ at'[d].home = at'[c].home => d = c
    <3>1. \A d \in Builds : d # b => (InFlight(d)' <=> InFlight(d)) /\ at'[d].home = at[d].home
      BY <1>1 DEF InFlight
    <3>2. InFlight(b)' => h.pc \notin {"asked", "over"} /\ at'[b].home = h.home
      BY <1>1 DEF InFlight
    <3>3. InFlight(b)' =>
            /\ h.home \in Names /\ (rowOf[b] # None => h.home = rowOf[b])
            /\ \A d \in Builds : d # b /\ InFlight(d) => at[d].home # h.home
      BY <1>1, <1>2, <3>2 DEF HoldsOne, HomeFree
    <3> QED BY <2>1, <3>1, <3>2, <3>3, <1>2 DEF HoldsOne
  <2> QED BY <2>1, <1>2 DEF HoldsOne
<1>5. LoadedIsThere'
  <2>1. ASSUME NEW c \in Builds, at'[c].pc \in {"loaded", "uploaded"}, rowOf[c] # None
        PROVE  index'[at'[c].si].there
    <3>1. CASE at[c].pc \in {"loaded", "uploaded"} /\ at'[c].si = at[c].si
      <4>1. index[at[c].si].there
        BY <3>1, <2>1, <1>2 DEF LoadedIsThere
      <4>2. at[c].si \in Indexes
        BY <1>1, <3>1, PublicationAssumption DEF TypeOK, Handler, Handlers, Indexes
      <4> QED BY <4>1, <4>2, <3>1, <1>2
    <3> QED BY <2>1, <3>1, <1>1
  <2> QED BY <2>1, <1>2 DEF LoadedIsThere
<1>6. ReportHasIndex'
  BY <1>2, <1>3 DEF ReportHasIndex
<1>7. HeadsBelow'
  <2>1. \A c \in Builds : at'[c].head <= tip /\ at'[c].since <= tip
    BY <1>1, <1>2 DEF HeadsBelow
  <2>4. \A c \in Builds : at'[c].pc \in Exported => at'[c].since <= at'[c].head
    BY <1>1, <1>2 DEF HeadsBelow
  <2>2. \A c \in Builds : at'[c].pc = "uploaded" => at'[c].pack.head = at'[c].head
    BY <1>1, <1>2 DEF HeadsBelow
  <2>3. \A i \in Indexes : index'[i].pack # None => index'[i].pack.head <= tip
    BY <1>2 DEF HeadsBelow
  <2> QED BY <2>1, <2>2, <2>3, <2>4 DEF HeadsBelow
<1>8. Newest'
  <2>1. ASSUME NEW c \in Builds, InFlight(c)', rowOf[c] # None,
               Live(rowOf[c]) # 0, index'[Live(rowOf[c])].pack # None
        PROVE  \/ index'[Live(rowOf[c])].pack.build = c
               \/ index'[Live(rowOf[c])].pack.head <= at'[c].since
    <3>1. /\ rowOf[c] \in Names /\ Live(rowOf[c]) \in Indexes
          /\ index'[Live(rowOf[c])].pack = index[Live(rowOf[c])].pack
      BY <2>1, <1>1, <1>2, <1>3 DEF TypeOK
    <3>2. CASE at'[c].since = tip
      BY <3>1, <3>2, <2>1, <1>2 DEF HeadsBelow
    <3>3. CASE InFlight(c) /\ at'[c].since = at[c].since
      BY <3>1, <3>3, <2>1, <1>2 DEF Newest
    <3> QED BY <3>2, <3>3, <2>1, <1>1 DEF InFlight
  <2>2. \A c \in Builds : rowOf[c] # None => rowOf[c] \in Names
    BY <1>1 DEF TypeOK
  <2> QED BY <2>1, <2>2, <1>2 DEF Newest
<1> QED BY <1>4, <1>5, <1>6, <1>7, <1>8 DEF Order

LEMMA RestingKeepsOrder ==
  ASSUME OneByOne, IInv, Order, NEW b \in Builds,
         Start(b) \/ TimesOut(b) \/ Fails(b) \/ Declines(b) \/ Cleanup(b)
  PROVE  Order'
<1>1. /\ TypeOK /\ SameLive /\ tip' = tip
      /\ at[b] \in Handler /\ at[b].attempt \in 1 .. Attempts
      /\ at[b].home \in Homes /\ rowOf[b] \in Names \cup {None}
      /\ tip \in Nat /\ tip \in Heads
  <2>1. TypeOK
    BY DEF IInv
  <2>2. UNCHANGED <<repos, rowOf, index, tip>>
    BY DEF Start, TimesOut, Fails, Declines, Cleanup
  <2> QED BY <2>1, <2>2, UnchangedIsSameLive DEF TypeOK, Handler, Heads
<1>2. CASE Start(b)
  <2>1. PICK quick \in BOOLEAN :
          /\ HomeFree(rowOf[b])
          /\ at' = [at EXCEPT ![b] = [AtRest("holding", @.attempt, rowOf[b])
                                         EXCEPT !.quick = quick, !.since = tip]]
    BY <1>2 DEF Start, HomesOf, OneByOne
  <2>0. rowOf[b] \in Homes
    BY <1>1 DEF Homes
  <2> DEFINE r == AtRest("holding", at[b].attempt, rowOf[b])
             h == [r EXCEPT !.quick = quick, !.since = tip]
  <2>2. r \in Handler
    <3>1. "holding" \in PCs
      BY DEF PCs
    <3> QED BY <3>1, <1>1, <2>0, AtRestIsHandler
  <2>3. r.pc = "holding" /\ r.home = rowOf[b] /\ r.head = 0
    BY DEF AtRest
  <2>4. /\ h \in Handler /\ h.pc = "holding" /\ h.home = rowOf[b] /\ h.head = 0
        /\ h.since = tip
    BY <1>1, <2>2, <2>3 DEF Handler
  <2>5. at' = [at EXCEPT ![b] = h] /\ rowOf[b] # None /\ HomeFree(rowOf[b])
    BY <1>2, <2>1 DEF Start
  <2> HIDE DEF r, h
  <2>6. /\ h.head <= tip /\ h.since \in {0, at[b].since, tip}
        /\ h.pc \notin {"loaded", "uploaded"} /\ h.pc \notin Exported
    BY <1>1, <2>4 DEF Exported
  <2> QED BY <1>1, <2>4, <2>5, <2>6, StepOfOne
<1>3. CASE TimesOut(b)
  <2> DEFINE h == AtRest("asked", at[b].attempt + 1, None)
  <2>1. "asked" \in PCs /\ at[b].attempt + 1 \in 1 .. Attempts
    BY <1>1, <1>3, PublicationAssumption DEF PCs, TimesOut
  <2>2. h \in Handler
    BY <2>1, AtRestIsHandler, NoneIsHome
  <2>3. h.pc = "asked" /\ h.head = 0 /\ h.since = 0
    BY DEF AtRest
  <2>4. at' = [at EXCEPT ![b] = h]
    BY <1>3 DEF TimesOut
  <2> HIDE DEF h
  <2>6. /\ h.head <= tip /\ h.since \in {0, at[b].since, tip}
        /\ h.pc \notin {"loaded", "uploaded"} /\ h.pc \notin Exported
    BY <1>1, <2>3 DEF Exported
  <2> QED BY <1>1, <2>2, <2>3, <2>4, <2>6, StepOfOne
<1>4. CASE Fails(b) \/ Declines(b) \/ Cleanup(b)
  <2> DEFINE h == NextPhase(b)
  <2>1. at' = [at EXCEPT ![b] = h] /\ at[b].pc \notin {"asked", "over"}
    BY <1>4 DEF Fails, Declines, Cleanup
  <2>2. h \in Handler
    BY <1>1, <2>1, NextPhaseRests
  <2>3. /\ h.head = 0 /\ h.since \in {0, at[b].since}
        /\ \/ h.pc = "over"
           \/ h.pc = "holding" /\ h.home = at[b].home /\ h.since = at[b].since
    BY <1>1, <2>1, NextPhaseRests
  <2>4. InFlight(b)
    BY <2>1 DEF InFlight
  <2> HIDE DEF h
  <2>6. /\ h.head <= tip /\ h.since \in {0, at[b].since, tip}
        /\ h.pc \notin {"loaded", "uploaded"} /\ h.pc \notin Exported
    BY <1>1, <2>3 DEF Exported
  <2> QED BY <1>1, <2>1, <2>2, <2>3, <2>4, <2>6, StepOfOne
<1> QED BY <1>2, <1>3, <1>4

LEMMA ExportKeepsOrder ==
  ASSUME IInv, Order, NEW b \in Builds, Export(b) \/ Upload(b) \/ CommitFindsNone(b)
  PROVE  Order'
<1>1. /\ TypeOK /\ SameLive /\ tip' = tip /\ at[b] \in Handler /\ tip \in Heads
      /\ tip \in Nat /\ at[b].since \in Nat /\ at[b].head \in Nat
      /\ at[b].head <= tip
      /\ at[b].pc \in Exported => at[b].since <= at[b].head
  <2>1. UNCHANGED <<repos, rowOf, index, tip>>
    BY DEF Export, Upload, CommitFindsNone
  <2> QED BY <2>1, UnchangedIsSameLive DEF IInv, TypeOK, Handler, Heads, Order, HeadsBelow
<1>2. CASE Export(b)
  <2>1. PICK head \in at[b].since .. tip, lines \in BOOLEAN, full \in BOOLEAN :
          at' = [at EXCEPT ![b] = [@ EXCEPT
            !.pc = "exported", !.head = head, !.lines = lines, !.full = full]]
    BY <1>2 DEF Export
  <2>0. head \in Heads /\ at[b].since <= head /\ head <= tip
    BY <1>1, PublicationAssumption DEF Heads
  <2> DEFINE h == [at[b] EXCEPT !.pc = "exported", !.head = head, !.lines = lines, !.full = full]
  <2>2. /\ h \in Handler /\ h.pc = "exported" /\ h.head = head /\ h.home = at[b].home
        /\ h.since = at[b].since
    BY <1>1, <2>0 DEF Handler, PCs
  <2>3. at' = [at EXCEPT ![b] = h] /\ InFlight(b)
    BY <1>2, <2>1 DEF Export, InFlight
  <2> HIDE DEF h
  <2> QED BY <1>1, <2>0, <2>2, <2>3, StepOfOne
<1>3. CASE Upload(b)
  <2> DEFINE p == [repo |-> rowOf[b], index |-> at[b].si, head |-> at[b].head,
                   build |-> b, quick |-> at[b].quick]
  <2>1. at[b].pc = "loaded" /\ InFlight(b)
    BY <1>3 DEF Upload, InFlight
  <2>2. p \in Packs /\ p.head = at[b].head
    <3>1. at[b].si \in Indexes
      BY <1>1, <2>1, PublicationAssumption DEF IInv, Consistent, Handlers, Handler, Indexes
    <3>2. rowOf[b] \in Names
      BY <1>1, <1>3 DEF Upload, TypeOK
    <3> QED BY <3>1, <3>2, <1>1 DEF Handler, Packs
  <2>3. PICK t \in BOOLEAN :
          at' = [at EXCEPT ![b] = [@ EXCEPT !.pc = "uploaded", !.pack = p, !.pending = t]]
    <3>1. PICK beside \in SUBSET {"screens", "atlas"} :
            at' = [at EXCEPT ![b] = [@ EXCEPT
              !.pc = "uploaded", !.pack = p, !.pending = ~at[b].quick /\ "atlas" \notin beside]]
      BY <1>3 DEF Upload
    <3>2. (~at[b].quick /\ "atlas" \notin beside) \in BOOLEAN
      OBVIOUS
    <3> HIDE DEF p
    <3> QED BY <3>1, <3>2, Zenon
  <2> HIDE DEF p
  <2> DEFINE h == [at[b] EXCEPT !.pc = "uploaded", !.pack = p, !.pending = t]
  <2>4. /\ h \in Handler /\ h.pc = "uploaded" /\ h.pack = p /\ h.si = at[b].si
        /\ h.head = at[b].head /\ h.home = at[b].home /\ h.since = at[b].since
    BY <1>1, <2>2 DEF Handler, PCs
  <2>5. at' = [at EXCEPT ![b] = h]
    BY <2>3
  <2> HIDE DEF h
  <2> QED BY <1>1, <2>1, <2>2, <2>4, <2>5, StepOfOne DEF Exported
<1>4. CASE CommitFindsNone(b)
  <2> DEFINE h == [at[b] EXCEPT !.pc = "undo", !.gone = {at[b].pack}]
  <2>1. at[b].pc = "uploaded" /\ at[b].pack \in Packs
    BY <1>1, <1>4, NamedArePacks DEF CommitFindsNone, IInv, Consistent, Handlers
  <2>2. /\ h \in Handler /\ h.pc = "undo" /\ h.home = at[b].home /\ h.head = at[b].head
        /\ h.since = at[b].since
    BY <1>1, <2>1 DEF Handler, PCs
  <2>3. at' = [at EXCEPT ![b] = h] /\ InFlight(b)
    BY <1>4, <2>1 DEF CommitFindsNone, InFlight
  <2> HIDE DEF h
  <2> QED BY <1>1, <2>2, <2>3, StepOfOne DEF Exported
<1> QED BY <1>2, <1>3, <1>4

\* A load makes an index that is not live, or adds to the live one.
LEMMA LoadFacts ==
  ASSUME IInv, NEW b \in Builds, LoadNew(b) \/ Append(b)
  PROVE  \E i \in Indexes :
           /\ at' = [at EXCEPT ![b] = [@ EXCEPT !.pc = "loaded", !.si = i]]
           /\ index'[i].there /\ SameLive
<1>1. TypeOK /\ Pointers /\ Kept /\ at[b] \in Handler
  BY DEF IInv, Consistent, TypeOK
<1>2. CASE LoadNew(b)
  <2> DEFINE i == serial + 1
  <2>1. i \in Indexes /\ rowOf[b] \in Names /\ serial \in Nat
    BY <1>1, <1>2, PublicationAssumption DEF LoadNew, TypeOK, Indexes
  <2>2. /\ index'[i].there /\ index'[i].pack = None
        /\ \A k \in Indexes : k # i => index'[k] = index[k]
    BY <2>1, <1>1, <1>2 DEF LoadNew, TypeOK
  <2>3. \A k \in Indexes : index[k].there => k # i
    BY <1>1, <2>1 DEF Pointers, Indexes
  <2>4. \A n \in Names : Live(n)' = Live(n)
    <3>1. ASSUME NEW n \in Names
          PROVE  repos[n].index \in 0 .. MaxIndex /\ repos[n].index # i
      BY <1>1, <2>1 DEF Pointers, TypeOK, Repo
    <3>2. UNCHANGED repos
      BY <1>2 DEF LoadNew
    <3> HIDE DEF i
    <3> QED BY <3>1, <3>2, <2>2 DEF Live, Indexes
  <2>5. SameLive
    BY <1>2, <2>2, <2>3, <2>4 DEF LoadNew, SameLive
  <2> QED BY <1>2, <2>1, <2>2, <2>5 DEF LoadNew
<1>3. CASE Append(b)
  <2> DEFINE i == Live(rowOf[b])
  <2>1. i \in Indexes /\ index[i].there /\ index[i] \in Index
    BY <1>1, <1>3, LiveIndex DEF Append, TypeOK
  <2>2. \A k \in Indexes : /\ index'[k].there = index[k].there
                           /\ index'[k].repo = index[k].repo
                           /\ index'[k].pack = index[k].pack
    BY <1>1, <1>3, <2>1 DEF Append, TypeOK, Index, Handler
  <2>3. \A n \in Names : Live(n)' = Live(n)
    <3>1. UNCHANGED repos
      BY <1>3 DEF Append
    <3> QED BY <3>1, <1>1, <2>2, PublicationAssumption DEF Live, TypeOK, Repo, Indexes
  <2>4. SameLive
    BY <1>3, <2>2, <2>3 DEF Append, SameLive
  <2> QED BY <1>3, <2>1, <2>2, <2>4 DEF Append
<1> QED BY <1>2, <1>3

LEMMA LoadKeepsOrder ==
  ASSUME IInv, Order, NEW b \in Builds, LoadNew(b) \/ Append(b)
  PROVE  Order'
<1>1. PICK i \in Indexes :
        /\ at' = [at EXCEPT ![b] = [@ EXCEPT !.pc = "loaded", !.si = i]]
        /\ index'[i].there /\ SameLive
  BY LoadFacts
<1>2. /\ at[b] \in Handler /\ at[b].pc = "exported" /\ tip' = tip /\ i \in 0 .. MaxIndex
      /\ at[b].head <= tip /\ at[b].since <= at[b].head
  BY PublicationAssumption
     DEF IInv, TypeOK, LoadNew, Append, Indexes, Order, HeadsBelow, Exported
<1> DEFINE h == [at[b] EXCEPT !.pc = "loaded", !.si = i]
<1>3. /\ h \in Handler /\ h.pc = "loaded" /\ h.si = i
      /\ h.home = at[b].home /\ h.head = at[b].head /\ h.since = at[b].since
  BY <1>2 DEF Handler, PCs
<1>4. at' = [at EXCEPT ![b] = h] /\ InFlight(b)
  BY <1>1, <1>2 DEF InFlight
<1> HIDE DEF h
<1> QED BY <1>1, <1>2, <1>3, <1>4, StepOfOne DEF Exported

\* A transaction changes its own repository's Stored Indexes and no other's.
LEMMA CommitFacts ==
  ASSUME IInv, Order, NEW b \in Builds, Commit(b), NEW n, n = rowOf[b],
         NEW i, i = at[b].si, NEW p, p = at[b].pack
  PROVE  /\ n \in Names /\ i \in Indexes /\ i # 0 /\ n # None /\ p \in Packs /\ p # None
         /\ index[i].there /\ index[i].repo = n /\ p.head = at[b].head
         /\ index'[i].there /\ index'[i].repo = n /\ index'[i].pack = p
         /\ \A k \in Indexes : index'[k].there => index[k].there
         /\ \A k \in Indexes : index'[k].pack # None =>
              index'[k].pack = index[k].pack \/ index'[k].pack = p
         /\ \A k \in Indexes : index[k].there /\ index[k].repo # n =>
              /\ index'[k].there /\ index'[k].repo = index[k].repo
              /\ index'[k].pack = index[k].pack
         /\ UNCHANGED <<rowOf, tip>> /\ repos'[n].index = i
         /\ \A m \in Names : m # n => repos'[m] = repos[m]
         /\ at'[b].pc = "cleanup" /\ at'[b].home = at[b].home /\ at'[b].head = at[b].head
         /\ at'[b].since = at[b].since
         /\ \A c \in Builds : c # b => at'[c] = at[c]
         /\ \A c \in Builds : c # b /\ InFlight(c) /\ rowOf[c] # None =>
              rowOf[c] # n /\ rowOf[c] \in Names
         /\ \A m \in Names : m # n =>
              /\ Live(m)' = Live(m)
              /\ Live(m) # 0 => index'[Live(m)].there /\ index'[Live(m)].repo = m
                                /\ index'[Live(m)].pack = index[Live(m)].pack
         /\ Live(n)' = i
<1>1. /\ TypeOK /\ Owners /\ Handlers /\ NamedAreSpent /\ Apart /\ Kept
      /\ HoldsOne /\ LoadedIsThere /\ ReportHasIndex /\ HeadsBelow /\ Newest
      /\ at[b] \in Handler /\ at[b].pc = "uploaded" /\ tip \in Nat
  BY DEF IInv, Consistent, Order, TypeOK, Commit, Heads
<1>2. /\ n \in Names /\ i \in Indexes /\ i # 0 /\ n # None
      /\ p \in Packs /\ p # None
  BY <1>1, CommitIndexes, PublicationAssumption, NamedArePacks DEF Handlers, Indexes
<1>3. /\ index[i].there /\ index[i].repo = n /\ p.head = at[b].head
  BY <1>1, <1>2 DEF LoadedIsThere, Owners, HeadsBelow
<1>4. /\ index'[i].there /\ index'[i].repo = n /\ index'[i].pack = p
      /\ \A k \in Indexes : index'[k].there => index[k].there
      /\ \A k \in Indexes : index'[k].pack # None =>
           index'[k].pack = index[k].pack \/ index'[k].pack = p
  BY <1>2, <1>3, CommitIndexes
<1>5. ASSUME NEW k \in Indexes, index[k].there, index[k].repo # n
      PROVE  /\ index'[k].there /\ index'[k].repo = index[k].repo
             /\ index'[k].pack = index[k].pack
  <2>1. k \notin Others(b) /\ k # i
    BY <1>3, <1>5 DEF Others, OfRepo
  <2>2. /\ index'[k].there = index[k].there /\ index'[k].repo = index[k].repo
        /\ index'[k].pack = index[k].pack
    BY <2>1, CommitIndexes
  <2> QED BY <1>5, <2>2
<1>6. /\ UNCHANGED <<rowOf, tip>> /\ repos'[n].index = i
      /\ \A m \in Names : m # n => repos'[m] = repos[m]
  BY <1>1, <1>2 DEF Commit, TypeOK, Repo
<1>7. /\ at'[b].pc = "cleanup" /\ at'[b].home = at[b].home /\ at'[b].head = at[b].head
      /\ at'[b].since = at[b].since
      /\ \A c \in Builds : c # b => at'[c] = at[c]
  BY <1>1 DEF Commit, TypeOK, Handler
<1>8. ASSUME NEW c \in Builds, c # b, InFlight(c), rowOf[c] # None
      PROVE  rowOf[c] # n /\ rowOf[c] \in Names
  <2>1. InFlight(b) /\ at[b].home = n
    BY <1>1, <1>2 DEF InFlight, HoldsOne
  <2>2. at[c].home = rowOf[c] /\ at[c].home # at[b].home
    BY <2>1, <1>8, <1>1 DEF HoldsOne
  <2> QED BY <2>1, <2>2, <1>8, <1>1 DEF TypeOK
<1>9. ASSUME NEW m \in Names, m # n
      PROVE  /\ Live(m)' = Live(m)
             /\ Live(m) # 0 => index'[Live(m)].there /\ index'[Live(m)].repo = m
                               /\ index'[Live(m)].pack = index[Live(m)].pack
  <2>1. Live(m) # 0 => /\ Live(m) \in Indexes /\ index[Live(m)].there
                       /\ Live(m) = repos[m].index /\ index[Live(m)].repo = m
    BY <1>1, LiveIndex DEF Owners
  <2>2. Live(m) # 0 => /\ index'[Live(m)].there /\ index'[Live(m)].repo = m
                       /\ index'[Live(m)].pack = index[Live(m)].pack
    BY <2>1, <1>5, <1>9
  <2>3. repos'[m].index = repos[m].index
    BY <1>6, <1>9
  <2>4. CASE Live(m) # 0
    BY <2>1, <2>2, <2>3, <2>4 DEF Live
  <2>5. CASE Live(m) = 0
    <3>1. repos[m].index = 0 \/ ~index[repos[m].index].there
      BY <2>5 DEF Live
    <3>2. repos[m].index = 0 \/ repos[m].index \in Indexes
      BY <1>1 DEF TypeOK, Repo, Indexes
    <3>3. repos[m].index = 0 \/ ~index'[repos[m].index].there
      BY <3>1, <3>2, <1>4
    <3> QED BY <3>3, <2>3, <2>5 DEF Live
  <2> QED BY <2>2, <2>4, <2>5
<1>10. Live(n)' = i
  BY <1>2, <1>4, <1>6 DEF Live
<1> QED BY <1>2, <1>3, <1>4, <1>5, <1>6, <1>7, <1>8, <1>9, <1>10

\* ... and its Report becomes the one of its own handler.
LEMMA CommitKeepsOrder == ASSUME IInv, Order, NEW b \in Builds, Commit(b) PROVE Order'
<1>0. PICK n, i, p : n = rowOf[b] /\ i = at[b].si /\ p = at[b].pack
  OBVIOUS
<1>1. /\ TypeOK /\ Owners /\ Handlers /\ HoldsOne /\ LoadedIsThere /\ ReportHasIndex
      /\ HeadsBelow /\ Newest /\ at[b] \in Handler /\ at[b].pc = "uploaded" /\ tip \in Nat
  BY DEF IInv, Consistent, Order, TypeOK, Commit, Heads
<1>2. /\ n \in Names /\ i \in Indexes /\ i # 0 /\ n # None /\ p \in Packs /\ p # None
  BY <1>0, CommitFacts
<1>3. p.head = at[b].head /\ p.build = b
  BY <1>0, <1>1, CommitFacts DEF Handlers
<1>4. /\ index'[i].there /\ index'[i].repo = n /\ index'[i].pack = p
      /\ \A k \in Indexes : index'[k].pack # None =>
           index'[k].pack = index[k].pack \/ index'[k].pack = p
  BY <1>0, CommitFacts
<1>5. \A k \in Indexes : index[k].there /\ index[k].repo # n => index'[k].there
  BY <1>0, CommitFacts
<1>6. /\ UNCHANGED <<rowOf, tip>> /\ repos'[n].index = i
      /\ \A m \in Names : m # n => repos'[m] = repos[m]
  BY <1>0, CommitFacts
<1>7. /\ at'[b].pc = "cleanup" /\ at'[b].home = at[b].home /\ at'[b].head = at[b].head
      /\ at'[b].since = at[b].since
      /\ \A c \in Builds : c # b => at'[c] = at[c]
  BY <1>0, CommitFacts
<1>8. \A c \in Builds : c # b /\ InFlight(c) /\ rowOf[c] # None =>
        rowOf[c] # n /\ rowOf[c] \in Names
  BY <1>0, CommitFacts
<1>9. \A m \in Names : m # n =>
        /\ Live(m)' = Live(m)
        /\ Live(m) # 0 => index'[Live(m)].there /\ index'[Live(m)].repo = m
                          /\ index'[Live(m)].pack = index[Live(m)].pack
  BY <1>0, CommitFacts
<1>10. Live(n)' = i
  BY <1>0, CommitFacts
<1>11. HoldsOne'
  <2>1. \A c \in Builds : InFlight(c)' => InFlight(c) /\ at'[c].home = at[c].home
    BY <1>1, <1>7 DEF InFlight
  <2> QED BY <2>1, <1>1, <1>6 DEF HoldsOne
<1>12. LoadedIsThere'
  <2>1. ASSUME NEW c \in Builds, at'[c].pc \in {"loaded", "uploaded"}, rowOf[c] # None
        PROVE  index'[at'[c].si].there
    <3>1. c # b /\ at'[c] = at[c] /\ InFlight(c)
      BY <2>1, <1>7 DEF InFlight
    <3>2. rowOf[c] # n
      BY <3>1, <2>1, <1>8
    <3>3. at[c].si \in Indexes /\ at[c].si # 0
      BY <3>1, <2>1, <1>1, PublicationAssumption DEF TypeOK, Handler, Handlers, Indexes
    <3>4. index[at[c].si].there /\ index[at[c].si].repo = rowOf[c]
      BY <3>1, <3>3, <2>1, <1>1 DEF LoadedIsThere, Owners
    <3> QED BY <3>1, <3>2, <3>3, <3>4, <1>5
  <2> QED BY <2>1, <1>6 DEF LoadedIsThere
<1>13. ReportHasIndex'
  <2>1. ASSUME NEW m \in Names, repos'[m].report # "none"
        PROVE  Live(m)' # 0 /\ index'[Live(m)'].repo = m /\ index'[Live(m)'].pack # None
    <3>1. CASE m = n
      BY <3>1, <1>2, <1>4, <1>10
    <3>2. CASE m # n
      <4>1. Live(m) # 0 /\ index[Live(m)].pack # None
        BY <3>2, <2>1, <1>1, <1>6 DEF ReportHasIndex
      <4> QED BY <4>1, <3>2, <1>9
    <3> QED BY <3>1, <3>2
  <2> QED BY <2>1 DEF ReportHasIndex
<1>14. HeadsBelow'
  <2>1. \A c \in Builds : at'[c].head = at[c].head /\ at'[c].since = at[c].since
    BY <1>7
  <2>4. \A c \in Builds : at'[c].pc \in Exported => at'[c].since <= at'[c].head
    BY <2>1, <1>1, <1>7 DEF HeadsBelow, Exported
  <2>2. p.head <= tip
    BY <1>1, <1>3 DEF HeadsBelow
  <2>3. \A k \in Indexes : index'[k].pack # None => index'[k].pack.head <= tip
    BY <2>2, <1>1, <1>4 DEF HeadsBelow
  <2> QED BY <2>1, <2>3, <2>4, <1>1, <1>6, <1>7 DEF HeadsBelow
<1>15. Newest'
  <2>1. ASSUME NEW c \in Builds, c # b, InFlight(c)', rowOf[c] # None,
               Live(rowOf[c])' # 0, index'[Live(rowOf[c])'].pack # None
        PROVE  \/ index'[Live(rowOf[c])'].pack.build = c
               \/ index'[Live(rowOf[c])'].pack.head <= at'[c].since
    <3>1. at'[c] = at[c] /\ InFlight(c)
      BY <2>1, <1>7 DEF InFlight
    <3>2. rowOf[c] # n /\ rowOf[c] \in Names
      BY <3>1, <2>1, <1>8
    <3>3. Live(rowOf[c])' = Live(rowOf[c])
      BY <3>2, <1>6, <1>9
    <3> QED BY <3>1, <3>2, <3>3, <2>1, <1>1, <1>9 DEF Newest
  <2>2. Live(rowOf[b])' = i /\ index'[i].pack.build = b
    BY <1>0, <1>3, <1>4, <1>6, <1>10
  <2> QED BY <2>1, <2>2, <1>6 DEF Newest
<1> QED BY <1>11, <1>12, <1>13, <1>14, <1>15 DEF Order

LEMMA RemoveRowKeepsOrder ==
  ASSUME IInv, Order, NEW n \in Names, RemoveRow(n) PROVE Order'
<1>1. /\ TypeOK /\ Owners /\ Handlers /\ Kept
      /\ HoldsOne /\ LoadedIsThere /\ ReportHasIndex /\ HeadsBelow /\ Newest
  BY DEF IInv, Consistent, Order
<1>2. UNCHANGED <<at, tip>>
  BY DEF RemoveRow
<1>3. NoIndex.pack = None /\ ~NoIndex.there /\ NoRepo.index = 0 /\ NoRepo.report = "none"
  BY DEF NoIndex, NoRepo
<1>4. /\ \A i \in Indexes : i \in OfRepo(n) => index'[i] = NoIndex
      /\ \A i \in Indexes : i \notin OfRepo(n) => index'[i] = index[i]
      /\ repos'[n] = NoRepo
      /\ \A m \in Names : m # n => repos'[m] = repos[m]
  BY <1>1 DEF RemoveRow, Without, TypeOK
<1>5. \A b \in Builds : rowOf'[b] # None =>
        rowOf'[b] = rowOf[b] /\ rowOf[b] \in Names /\ rowOf[b] # n
  BY <1>1 DEF RemoveRow, TypeOK
<1>6. \A i \in Indexes : index[i].there /\ index[i].repo # n => index'[i] = index[i]
  BY <1>4 DEF OfRepo
<1>7. ASSUME NEW m \in Names, m # n
      PROVE  Live(m)' = Live(m) /\ (Live(m) # 0 => index'[Live(m)] = index[Live(m)])
  <2>1. Live(m) # 0 => /\ Live(m) \in Indexes /\ index[Live(m)].there
                       /\ Live(m) = repos[m].index /\ index[Live(m)].repo = m
    BY <1>1, LiveIndex DEF Owners
  <2>2. Live(m) # 0 => index'[Live(m)] = index[Live(m)]
    BY <2>1, <1>6, <1>7
  <2>3. repos'[m].index = repos[m].index
    BY <1>4, <1>7
  <2>4. CASE Live(m) # 0
    BY <2>1, <2>2, <2>3, <2>4 DEF Live
  <2>5. CASE Live(m) = 0
    <3>1. repos[m].index = 0 \/ ~index[repos[m].index].there
      BY <2>5 DEF Live
    <3>2. repos[m].index = 0 \/ repos[m].index \in Indexes
      BY <1>1 DEF TypeOK, Repo, Indexes
    <3>3. repos[m].index = 0 \/ ~index'[repos[m].index].there
      BY <3>1, <3>2, <1>3, <1>4
    <3> QED BY <3>3, <2>3, <2>5 DEF Live
  <2> QED BY <2>2, <2>4, <2>5
<1>8. HoldsOne'
  BY <1>1, <1>2, <1>5 DEF HoldsOne, InFlight
<1>9. LoadedIsThere'
  <2>1. ASSUME NEW b \in Builds, at[b].pc \in {"loaded", "uploaded"}, rowOf'[b] # None
        PROVE  index'[at[b].si].there
    <3>1. at[b].si \in Indexes /\ at[b].si # 0
      BY <2>1, <1>1, PublicationAssumption DEF TypeOK, Handler, Handlers, Indexes
    <3>2. index[at[b].si].there /\ index[at[b].si].repo # n
      BY <2>1, <3>1, <1>1, <1>5 DEF LoadedIsThere, Owners
    <3> QED BY <3>1, <3>2, <1>6
  <2> QED BY <2>1, <1>2 DEF LoadedIsThere
<1>10. ReportHasIndex'
  <2>1. ASSUME NEW m \in Names, repos'[m].report # "none"
        PROVE  Live(m)' # 0 /\ index'[Live(m)'].repo = m /\ index'[Live(m)'].pack # None
    <3>1. m # n /\ repos'[m] = repos[m]
      BY <2>1, <1>3, <1>4
    <3>2. Live(m) # 0 /\ index[Live(m)].repo = m /\ index[Live(m)].pack # None
      BY <3>1, <2>1, <1>1 DEF ReportHasIndex
    <3> QED BY <3>1, <3>2, <1>7
  <2> QED BY <2>1 DEF ReportHasIndex
<1>11. HeadsBelow'
  <2>1. \A i \in Indexes : index'[i].pack # None => index'[i].pack.head <= tip
    BY <1>1, <1>3, <1>4 DEF HeadsBelow
  <2> QED BY <2>1, <1>1, <1>2 DEF HeadsBelow
<1>12. Newest'
  <2>1. ASSUME NEW b \in Builds, InFlight(b), NEW m, m = rowOf'[b], m # None,
               Live(m)' # 0, index'[Live(m)'].pack # None
        PROVE  \/ index'[Live(m)'].pack.build = b
               \/ index'[Live(m)'].pack.head <= at[b].since
    <3>1. m = rowOf[b] /\ m \in Names /\ m # n
      BY <2>1, <1>5
    <3>2. Live(m)' = Live(m) /\ (Live(m) # 0 => index'[Live(m)] = index[Live(m)])
      BY <3>1, <1>7
    <3> QED BY <3>1, <3>2, <2>1, <1>1 DEF Newest
  <2> QED BY <2>1, <1>2 DEF Newest, InFlight
<1> QED BY <1>8, <1>9, <1>10, <1>11, <1>12 DEF Order

\* With no Build in flight, the row that is kept keeps its Stored Index.
LEMMA SettleKeepsOrder ==
  ASSUME IInv, Order, OneByOne, Settle PROVE Order'
<1>1. /\ TypeOK /\ Owners /\ ReportHasIndex /\ HeadsBelow
      /\ Current \in Names /\ UNCHANGED <<at, tip>>
  BY PublicationAssumption DEF IInv, Consistent, Order, Settle
<1>2. \A b \in Builds : at[b].pc \in {"asked", "over"}
  BY DEF Settle, InFlight, OneByOne, BetweenBuilds
<1>3. HoldsOne' /\ LoadedIsThere' /\ Newest'
  BY <1>1, <1>2 DEF HoldsOne, LoadedIsThere, Newest, InFlight, Exported
<1> DEFINE members == {n \in Names : repos[n].there}
           holders == {n \in members : repos[n].report # "none"}
           choice == IF holders # {} THEN holders ELSE (members \cap {Current}) \cup
                       (IF Current \in members THEN {} ELSE {None})
<1>4. PICK from \in choice :
        LET dropped == {i \in Indexes : index[i].there /\ index[i].repo # from}
            base == IF from # None THEN repos[from] ELSE NoRepo
        IN
        /\ repos' = [n \in Names |->
                       IF n = Current THEN [base EXCEPT !.there = TRUE] ELSE NoRepo]
        /\ index' = [i \in Indexes |->
                       IF i \in dropped THEN NoIndex
                       ELSE IF index[i].there THEN [index[i] EXCEPT !.repo = Current]
                       ELSE index[i]]
  BY Zenon DEF Settle
<1>5. from \in Names \cup {None}
  OBVIOUS
<1> HIDE DEF members, holders, choice
<1> DEFINE base == IF from # None THEN repos[from] ELSE NoRepo
<1>6. /\ NoIndex.pack = None
      /\ NoRepo \in Repo /\ NoRepo.report = "none"
  BY PublicationAssumption DEF NoIndex, NoRepo, Repo
<1>7. ASSUME NEW i \in Indexes
      PROVE  /\ index'[i].pack \in {None, index[i].pack}
             /\ index[i].there /\ index[i].repo = from =>
                  /\ index'[i].there /\ index'[i].repo = Current
                  /\ index'[i].pack = index[i].pack
  <2>1. index[i] \in Index
    BY <1>1 DEF TypeOK
  <2> DEFINE x == [index[i] EXCEPT !.repo = Current]
  <2>2. x.repo = Current /\ x.there = index[i].there /\ x.pack = index[i].pack
    BY <2>1 DEF Index
  <2>3. \/ index[i].there /\ index[i].repo # from /\ index'[i] = NoIndex
        \/ index[i].there /\ index[i].repo = from /\ index'[i] = x
        \/ ~index[i].there /\ index'[i] = index[i]
    BY <1>4
  <2> HIDE DEF x
  <2> QED BY <2>2, <2>3, <1>6
<1>8. /\ repos'[Current].index = base.index /\ repos'[Current].report = base.report
      /\ \A n \in Names : n # Current => repos'[n].report = "none"
  <2> DEFINE x == [base EXCEPT !.there = TRUE]
  <2>1. base \in Repo
    BY <1>1, <1>5, <1>6 DEF TypeOK
  <2>2. x.index = base.index /\ x.report = base.report
    BY <2>1 DEF Repo
  <2>3. repos' = [n \in Names |-> IF n = Current THEN x ELSE NoRepo]
    BY <1>4
  <2> HIDE DEF x, base
  <2> QED BY <2>2, <2>3, <1>1, <1>6
<1>9. ReportHasIndex'
  <2>1. ASSUME NEW m \in Names, repos'[m].report # "none"
        PROVE  Live(m)' # 0 /\ index'[Live(m)'].repo = m /\ index'[Live(m)'].pack # None
    <3>1. m = Current /\ base.report # "none"
      BY <2>1, <1>8
    <3>2. from \in Names /\ base = repos[from]
      BY <3>1, <1>5, <1>6
    <3>3. /\ Live(from) # 0 /\ index[Live(from)].repo = from
          /\ index[Live(from)].pack # None
      BY <3>1, <3>2, <1>1 DEF ReportHasIndex
    <3>4. /\ Live(from) \in Indexes /\ Live(from) = repos[from].index
          /\ index[Live(from)].there
      BY <3>3, <1>1, LiveIndex
    <3>5. Live(m)' = Live(from)
      <4>1. repos'[m].index = Live(from) /\ index'[Live(from)].there
        BY <3>1, <3>2, <3>3, <3>4, <1>7, <1>8
      <4> QED BY <4>1, <3>3 DEF Live
    <3> QED BY <3>1, <3>3, <3>4, <3>5, <1>7
  <2> QED BY <2>1 DEF ReportHasIndex
<1>10. HeadsBelow'
  BY <1>1, <1>7 DEF HeadsBelow
<1> QED BY <1>3, <1>9, <1>10 DEF Order

LEMMA CrashKeepsOrder == ASSUME IInv, Order, Crash PROVE Order'
<1>1. /\ TypeOK /\ HoldsOne /\ LoadedIsThere /\ ReportHasIndex /\ HeadsBelow /\ Newest
      /\ UNCHANGED <<repos, rowOf, index, tip>> /\ tip \in Nat
  BY DEF IInv, Order, Crash, TypeOK, Heads
<1>2. ASSUME NEW b \in Builds
      PROVE  at'[b].pc \in {"asked", "over"} /\ at'[b].head \in {0, at[b].head}
             /\ at'[b].since \in {0, at[b].since}
  <2> DEFINE h == AtRest("over", at[b].attempt, None)
  <2>1. h.pc = "over" /\ h.head = 0 /\ h.since = 0
    BY DEF AtRest
  <2>2. at'[b] = IF InFlight(b) THEN h ELSE at[b]
    BY DEF Crash
  <2> HIDE DEF h
  <2> QED BY <2>1, <2>2 DEF InFlight
<1>3. \A n \in Names : Live(n)' = Live(n)
  BY <1>1 DEF Live
<1>4. HoldsOne' /\ LoadedIsThere' /\ Newest'
  BY <1>2 DEF HoldsOne, LoadedIsThere, Newest, InFlight, Exported
<1>5. ReportHasIndex'
  BY <1>1, <1>3 DEF ReportHasIndex
<1>6. HeadsBelow'
  BY <1>1, <1>2 DEF HeadsBelow, Exported
<1> QED BY <1>4, <1>5, <1>6 DEF Order

\* Steps that touch none of it, and pushes.
LEMMA OthersKeepOrder ==
  ASSUME IInv, Order, UNCHANGED <<repos, rowOf, index, at>>, tip' \in {tip, tip + 1}
  PROVE  Order'
<1>1. /\ TypeOK /\ HoldsOne /\ LoadedIsThere /\ ReportHasIndex /\ HeadsBelow /\ Newest
      /\ tip \in Nat
  BY DEF IInv, Order, TypeOK, Heads
<1>2. \A n \in Names : Live(n)' = Live(n)
  BY DEF Live
<1>3. \A b \in Builds : Live(rowOf[b])' = Live(rowOf[b])
  BY DEF Live
<1>4. HoldsOne' /\ LoadedIsThere' /\ ReportHasIndex' /\ Newest'
  BY <1>1, <1>2, <1>3 DEF HoldsOne, LoadedIsThere, ReportHasIndex, Newest, InFlight
<1>5. HeadsBelow'
  <2>1. \A b \in Builds : at[b].head \in Nat /\ at[b].since \in Nat
    BY <1>1 DEF TypeOK, Handler, Heads
  <2>2. \A i \in Indexes : index[i].pack # None => index[i].pack.head \in Nat
    BY <1>1, NamedArePacks DEF Packs, Heads
  <2> QED BY <2>1, <2>2, <1>1 DEF HeadsBelow
<1> QED BY <1>4, <1>5 DEF Order

-----------------------------------------------------------------------------
(* A Report has its index, and never goes back *)

LEMMA InitOrder == Init => Order
<1> SUFFICES ASSUME Init PROVE Order
  OBVIOUS
<1>1. \A b \in Builds : at[b].pc = "asked" /\ at[b].head = 0 /\ at[b].since = 0
  BY DEF Init, AtRest
<1>2. \A i \in Indexes : index[i].pack = None
  BY DEF Init, NoIndex
<1>3. \A n \in Names : repos[n].report = "none"
  BY DEF Init, NoRepo
<1>4. tip = 0
  BY DEF Init
<1> QED BY <1>1, <1>2, <1>3, <1>4
        DEF Order, HoldsOne, LoadedIsThere, ReportHasIndex, HeadsBelow, Newest, InFlight, Exported

LEMMA NextOrder ==
  ASSUME OneByOne, IInv, Order, [Next]_vars PROVE Order'
<1>1. CASE \E b \in Builds : Work(b)
  BY <1>1, RestingKeepsOrder, ExportKeepsOrder, LoadKeepsOrder, CommitKeepsOrder DEF Work
<1>2. CASE (\E p \in atlas : AtlasLooks(p)) \/ (\E p \in making : AtlasStored(p))
  BY <1>2, OthersKeepOrder DEF AtlasLooks, AtlasStored
<1>3. CASE \E n \in Names : RemoveObjects(n)
  BY <1>3, OthersKeepOrder DEF RemoveObjects
<1>4. CASE \E n \in Names : RemoveRow(n)
  BY <1>4, RemoveRowKeepsOrder
<1>5. CASE Push \/ UNCHANGED vars
  BY <1>5, OthersKeepOrder DEF Push, vars
<1>6. CASE Settle
  BY <1>6, SettleKeepsOrder
<1>7. CASE Crash
  BY <1>7, CrashKeepsOrder
<1> QED BY <1>1, <1>2, <1>3, <1>4, <1>5, <1>6, <1>7 DEF Next

LEMMA OrderIsKept == ASSUME OneByOne PROVE Spec => [](IInv /\ Order)
<1>1. Init => IInv /\ Order
  BY InitIInv, InitOrder
<1>2. (IInv /\ Order) /\ [Next]_vars => (IInv /\ Order)'
  BY NextIInv, NextOrder
<1> QED BY <1>1, <1>2, PTL DEF Spec

\* A public repository with a Report points at a Stored Index that is there, is its
\* own and has a pack, unless a rename is found in the middle of a Build.
THEOREM ReportKeepsIndex == ASSUME OneByOne PROVE Spec => []ReportHasIndex
<1>1. IInv /\ Order => ReportHasIndex
  BY DEF Order
<1> QED BY <1>1, OrderIsKept, PTL

\* Only the transaction takes a handler from its upload to its clean-up.
LEMMA OnlyCommitCleans ==
  ASSUME TypeOK, Next, NEW b \in Builds, at[b].pc = "uploaded", at'[b].pc = "cleanup"
  PROVE  Commit(b)
<1>1. at'[b] # at[b]
  OBVIOUS
<1>2. CASE \E c \in Builds : Work(c)
  <2>1. PICK c \in Builds : Work(c)
    BY <1>2
  <2>2. CASE c # b
    <3>1. at'[b] = at[b]
      BY <2>1, <2>2 DEF TypeOK, Work, Start, Export, TimesOut, LoadNew, Append, Fails,
         Declines, Upload, Commit, CommitFindsNone, Cleanup
    <3> QED BY <3>1, <1>1
  <2>3. CASE c = b
    <3>1. Fails(b) \/ Commit(b) \/ CommitFindsNone(b)
      BY <2>1, <2>3 DEF Work, Start, Export, TimesOut, LoadNew, Append, Declines, Upload,
         Cleanup
    <3>2. CASE Fails(b)
      <4>1. at'[b] = NextPhase(b)
        BY <3>2 DEF Fails, TypeOK
      <4> QED BY <4>1, NextPhaseRests
    <3>3. CASE CommitFindsNone(b)
      <4>1. at'[b] = [at[b] EXCEPT !.pc = "undo", !.gone = {at[b].pack}]
        BY <3>3 DEF CommitFindsNone, TypeOK
      <4> QED BY <4>1 DEF TypeOK, Handler
    <3> QED BY <3>1, <3>2, <3>3
  <2> QED BY <2>2, <2>3
<1>3. CASE Crash
  <2>1. at'[b] = AtRest("over", at[b].attempt, None)
    BY <1>3 DEF Crash, InFlight
  <2> QED BY <2>1 DEF AtRest
<1>4. CASE \/ \E p \in atlas : AtlasLooks(p)
           \/ \E p \in making : AtlasStored(p)
           \/ \E n \in Names : RemoveObjects(n) \/ RemoveRow(n)
           \/ Push \/ Settle
  BY <1>1, <1>4 DEF AtlasLooks, AtlasStored, RemoveObjects, RemoveRow, Push, Settle
<1> QED BY <1>2, <1>3, <1>4 DEF Next

\* A public repository's Report is never replaced by another Build's of an older head,
\* however many Builds are in flight and whatever fails, unless a rename is found in the
\* middle of one.
THEOREM NeverGoesBack == ASSUME OneByOne PROVE Spec => NeverBack
<1>1. ASSUME IInv, Order, [Next]_vars,
             NEW b \in Builds, at[b].pc = "uploaded", at'[b].pc = "cleanup",
             Live(rowOf[b]) # 0, index[Live(rowOf[b])].pack # None
      PROVE  \/ index[Live(rowOf[b])].pack.build = b
             \/ at[b].pack.head >= index[Live(rowOf[b])].pack.head
  <2>1. TypeOK /\ HeadsBelow /\ Newest
    BY <1>1 DEF IInv, Order
  <2>2. Commit(b)
    <3>1. Next
      BY <1>1 DEF vars
    <3> QED BY <3>1, <2>1, <1>1, OnlyCommitCleans
  <2>3. /\ \/ index[Live(rowOf[b])].pack.build = b
           \/ index[Live(rowOf[b])].pack.head <= at[b].since
        /\ at[b].since <= at[b].head
    BY <2>1, <2>2, <1>1 DEF Newest, HeadsBelow, Exported, Commit, InFlight
  <2>4. at[b].pack.head = at[b].head
    BY <2>1, <1>1 DEF HeadsBelow
  <2>5. at[b].head \in Nat /\ at[b].since \in Nat
    BY <2>1 DEF TypeOK, Handler, Heads
  <2>6. index[Live(rowOf[b])].pack.head \in Nat
    BY <2>1, <1>1, LiveIndex, NamedArePacks DEF Packs, Heads
  <2> QED BY <2>3, <2>4, <2>5, <2>6
<1>2. (IInv /\ Order) /\ [Next]_vars =>
        \A b \in Builds : at[b].pc = "uploaded" /\ at'[b].pc = "cleanup" =>
          LET i == Live(rowOf[b]) IN
          i # 0 /\ index[i].pack # None =>
            index[i].pack.build = b \/ at[b].pack.head >= index[i].pack.head
  BY <1>1
<1> QED BY <1>2, OrderIsKept, PTL DEF Spec, NeverBack

-----------------------------------------------------------------------------
(* A quick Report never replaces one with lines *)

\* What a quick handler found when it uploaded is so until its transaction.
QuickFinds ==
  \A b \in Builds : at[b].pc = "uploaded" /\ at[b].quick /\ rowOf[b] # None =>
    repos[rowOf[b]].report # "with"

\* The steps that upload nothing and change no row.
LEMMA QuickStays ==
  ASSUME QuickFinds, UNCHANGED <<repos, rowOf>>,
         \A b \in Builds : at'[b].pc = "uploaded" => at'[b] = at[b]
  PROVE  QuickFinds'
BY DEF QuickFinds

LEMMA NextQuick ==
  ASSUME OneByOne, IInv, Order, QuickFinds, [Next]_vars PROVE QuickFinds'
<1>1. /\ TypeOK /\ HoldsOne
      /\ \A b \in Builds : at[b] \in Handler /\ rowOf[b] \in Names \cup {None}
  BY DEF IInv, Order, TypeOK
<1>2. ASSUME NEW b \in Builds, NEW h, at' = [at EXCEPT ![b] = h], h.pc # "uploaded",
             UNCHANGED <<repos, rowOf>>
      PROVE  QuickFinds'
  <2>1. \A c \in Builds : at'[c].pc = "uploaded" => at'[c] = at[c]
    BY <1>1, <1>2 DEF TypeOK
  <2> QED BY <2>1, <1>2, QuickStays
<1>3. ASSUME NEW b \in Builds, Work(b) PROVE QuickFinds'
  <2>1. CASE Start(b)
    <3>1. PICK quick \in BOOLEAN, home \in HomesOf(b) :
            at' = [at EXCEPT ![b] = [AtRest("holding", at[b].attempt, home)
                                         EXCEPT !.quick = quick, !.since = tip]]
      BY <2>1 DEF Start
    <3> DEFINE h == [AtRest("holding", at[b].attempt, home)
                       EXCEPT !.quick = quick, !.since = tip]
    <3>2. h.pc # "uploaded" /\ at' = [at EXCEPT ![b] = h]
      BY <3>1 DEF AtRest
    <3> HIDE DEF h
    <3> QED BY <3>2, <2>1, <1>2 DEF Start
  <2>2. CASE Export(b)
    <3>1. PICK head \in at[b].since .. tip, lines \in BOOLEAN, full \in BOOLEAN :
            at' = [at EXCEPT ![b] = [at[b] EXCEPT
              !.pc = "exported", !.head = head, !.lines = lines, !.full = full]]
      BY <2>2 DEF Export
    <3> DEFINE h == [at[b] EXCEPT
              !.pc = "exported", !.head = head, !.lines = lines, !.full = full]
    <3>2. h.pc # "uploaded" /\ at' = [at EXCEPT ![b] = h]
      BY <3>1, <1>1 DEF Handler
    <3> HIDE DEF h
    <3> QED BY <3>2, <2>2, <1>2 DEF Export
  <2>3. CASE TimesOut(b)
    <3>1. AtRest("asked", at[b].attempt + 1, None).pc # "uploaded"
      BY DEF AtRest
    <3> QED BY <3>1, <2>3, <1>2 DEF TimesOut
  <2>4. CASE LoadNew(b) \/ Append(b)
    <3>1. PICK i \in Indexes : at' = [at EXCEPT ![b] = [at[b] EXCEPT !.pc = "loaded", !.si = i]]
      BY <2>4, LoadFacts
    <3> DEFINE h == [at[b] EXCEPT !.pc = "loaded", !.si = i]
    <3>2. h.pc # "uploaded" /\ at' = [at EXCEPT ![b] = h]
      BY <3>1, <1>1 DEF Handler
    <3> HIDE DEF h
    <3> QED BY <3>2, <2>4, <1>2 DEF LoadNew, Append
  <2>5. CASE Fails(b) \/ Declines(b) \/ Cleanup(b)
    <3>1. NextPhase(b).pc # "uploaded"
      BY <2>5, <1>1, NextPhaseRests DEF Fails, Declines, Cleanup
    <3> QED BY <3>1, <2>5, <1>2 DEF Fails, Declines, Cleanup
  <2>6. CASE CommitFindsNone(b)
    <3>1. [at[b] EXCEPT !.pc = "undo", !.gone = {at[b].pack}].pc # "uploaded"
      BY <1>1 DEF Handler
    <3> QED BY <3>1, <2>6, <1>2 DEF CommitFindsNone
  <2>7. CASE Upload(b)
    <3>1. /\ UNCHANGED <<repos, rowOf>> /\ (at[b].quick => repos[rowOf[b]].report # "with")
          /\ \A c \in Builds : c # b => at'[c] = at[c]
          /\ at'[b].quick = at[b].quick
      BY <2>7, <1>1 DEF Upload, TypeOK, Handler
    <3> QED BY <3>1 DEF QuickFinds
  <2>8. CASE Commit(b)
    <3>1. ASSUME NEW c \in Builds, at'[c].pc = "uploaded", at'[c].quick, rowOf'[c] # None
          PROVE  repos'[rowOf'[c]].report # "with"
      <4>1. PICK n : n = rowOf[b]
        OBVIOUS
      <4>2. /\ UNCHANGED rowOf /\ at'[b].pc = "cleanup"
            /\ \A m \in Names : m # n => repos'[m] = repos[m]
            /\ \A d \in Builds : d # b => at'[d] = at[d]
            /\ \A d \in Builds : d # b /\ InFlight(d) /\ rowOf[d] # None =>
                 rowOf[d] # n /\ rowOf[d] \in Names
        BY <4>1, <2>8, CommitFacts
      <4>3. c # b /\ at'[c] = at[c] /\ InFlight(c)
        BY <3>1, <4>2 DEF InFlight
      <4> QED BY <3>1, <4>2, <4>3 DEF QuickFinds
    <3> QED BY <3>1 DEF QuickFinds
  <2> QED BY <1>3, <2>1, <2>2, <2>3, <2>4, <2>5, <2>6, <2>7, <2>8 DEF Work
<1>4. CASE \/ \E p \in atlas : AtlasLooks(p)
           \/ \E p \in making : AtlasStored(p)
           \/ \E n \in Names : RemoveObjects(n)
           \/ Push \/ UNCHANGED vars
  BY <1>4, QuickStays DEF AtlasLooks, AtlasStored, RemoveObjects, Push, vars
<1>5. CASE \E n \in Names : RemoveRow(n)
  <2>1. PICK n \in Names : RemoveRow(n)
    BY <1>5
  <2>2. \A b \in Builds : rowOf'[b] # None => rowOf'[b] = rowOf[b] /\ rowOf[b] # n
    BY <2>1, <1>1 DEF RemoveRow, TypeOK
  <2>3. at' = at /\ \A m \in Names : m # n => repos'[m] = repos[m]
    BY <2>1, <1>1 DEF RemoveRow, TypeOK
  <2> QED BY <2>2, <2>3, <1>1 DEF QuickFinds
<1>6. CASE Settle
  <2>1. at' = at /\ \A b \in Builds : ~InFlight(b)
    BY <1>6 DEF Settle, OneByOne, BetweenBuilds
  <2> QED BY <2>1 DEF QuickFinds, InFlight
<1>7. CASE Crash
  <2>1. \A b \in Builds : at'[b] = IF InFlight(b) THEN AtRest("over", at[b].attempt, None) ELSE at[b]
    BY <1>7 DEF Crash
  <2>2. \A b \in Builds : AtRest("over", at[b].attempt, None).pc # "uploaded"
    BY DEF AtRest
  <2>3. \A b \in Builds : at'[b].pc = "uploaded" => at'[b] = at[b]
    BY <2>1, <2>2
  <2> QED BY <2>3, <1>7, QuickStays DEF Crash
<1> QED BY <1>3, <1>4, <1>5, <1>6, <1>7 DEF Next

\* publishBuild: "A quick one never replaces one with lines", though it looks before
\* its upload and its transaction does not look again: no other Build of a public repository's
\* row publishes in between.
THEOREM QuickNeverReplacesLines == ASSUME OneByOne PROVE Spec => QuickKeepsLines
<1>1. Init => QuickFinds
  BY DEF Init, AtRest, QuickFinds
<1>2. IInv /\ Order /\ QuickFinds /\ [Next]_vars => QuickFinds'
  BY NextQuick
<1>3. ASSUME IInv, QuickFinds, [Next]_vars, NEW b \in Builds,
             at[b].quick, at[b].pc = "uploaded", at'[b].pc = "cleanup"
      PROVE  repos[rowOf[b]].report # "with"
  <2>1. Next /\ TypeOK
    BY <1>3 DEF vars, IInv
  <2>2. rowOf[b] # None
    BY <2>1, <1>3, OnlyCommitCleans DEF Commit
  <2> QED BY <2>2, <1>3 DEF QuickFinds
<1>4. IInv /\ QuickFinds /\ [Next]_vars =>
        \A b \in Builds : at[b].quick /\ at[b].pc = "uploaded" /\ at'[b].pc = "cleanup"
          => repos[rowOf[b]].report # "with"
  BY <1>3
<1> QED BY <1>1, <1>2, <1>4, OrderIsKept, PTL DEF Spec, QuickKeepsLines

-----------------------------------------------------------------------------
(* Nothing is left in R2 *)

\* A Build's row goes with its repository's.
RowsThere == \A b \in Builds : rowOf[b] # None => repos[rowOf[b]].there

\* A handler that is to delete what it replaced, or to take back its pack.
Deletes == {"cleanup", "undo"}

\* A handler has a pack: to make it live, or to delete it.
Has(b, p) == \/ at[b].pc = "uploaded" /\ at[b].pack = p
             \/ at[b].pc \in Deletes /\ p \in at[b].gone

\* A pack is served, is about to be, or is about to be deleted.
HasKeeper(p) == IsLive(p) \/ \E b \in Builds : Has(b, p)

NoneLeft ==
  ~spoiled => \A o \in r2 : o.kind # "atlas" => o.pack \in Packs /\ HasKeeper(o.pack)

\* The steps that change no row and no pack that is live or handed on.
LEMMA KeepersStay ==
  ASSUME IInv, NoneLeft, SameLive, RowsThere, spoiled => spoiled',
         \A o \in r2' : o.kind # "atlas" => o \in r2,
         ~spoiled' => \A b \in Builds :
           at[b].pc = "uploaded" \/ at[b].pc \in Deletes => at'[b] = at[b]
  PROVE  NoneLeft' /\ RowsThere'
<1>1. ASSUME ~spoiled', NEW o \in r2', o.kind # "atlas"
      PROVE  o.pack \in Packs /\ HasKeeper(o.pack)'
  <2>1. PICK p : p = o.pack
    OBVIOUS
  <2>2. p \in Packs /\ HasKeeper(p) /\ UNCHANGED repos
    BY <1>1, <2>1 DEF NoneLeft, SameLive
  <2>3. CASE IsLive(p)
    <3>1. p.index \in Indexes
      BY <2>2 DEF Packs
    <3> QED BY <2>1, <2>2, <2>3, <3>1 DEF IsLive, HasKeeper, SameLive
  <2>4. CASE ~IsLive(p)
    <3>1. PICK b \in Builds : Has(b, p)
      BY <2>2, <2>4 DEF HasKeeper
    <3>2. at'[b] = at[b]
      BY <3>1, <1>1 DEF Has
    <3> QED BY <2>1, <2>2, <3>1, <3>2 DEF Has, HasKeeper
  <2> QED BY <2>3, <2>4
<1>2. NoneLeft'
  BY <1>1 DEF NoneLeft
<1>3. RowsThere'
  BY DEF RowsThere, SameLive
<1> QED BY <1>2, <1>3

\* A pack is stored: its handler has it.
LEMMA UploadKeepsNone ==
  ASSUME IInv, NoneLeft, RowsThere, NEW b \in Builds, Upload(b)
  PROVE  NoneLeft' /\ RowsThere'
<1>0. PICK p : p = [repo |-> rowOf[b], index |-> at[b].si, head |-> at[b].head,
                    build |-> b, quick |-> at[b].quick]
  OBVIOUS
<1>1. /\ TypeOK /\ at[b] \in Handler /\ at[b].pc = "loaded"
      /\ UNCHANGED <<repos, rowOf, index, spoiled>>
  BY DEF IInv, TypeOK, Upload
<1>2. p \in Packs
  <2>1. at[b].si \in Indexes /\ rowOf[b] \in Names
    BY <1>1, PublicationAssumption
       DEF IInv, Consistent, TypeOK, Handlers, Handler, Indexes, Upload
  <2> QED BY <2>1, <1>0, <1>1 DEF Handler, Packs
<1>3. PICK beside \in SUBSET {"screens", "atlas"} :
        r2' = r2 \cup {[kind |-> k, pack |-> p] : k \in beside \cup {"pack"}}
  BY <1>0 DEF Upload
<1>4. /\ at'[b].pc = "uploaded" /\ at'[b].pack = p
      /\ \A c \in Builds : c # b => at'[c] = at[c]
  BY <1>0, <1>1 DEF Upload, TypeOK, Handler
<1>5. ASSUME NEW q \in Packs, HasKeeper(q) PROVE HasKeeper(q)'
  <2>1. CASE IsLive(q)
    BY <2>1, <1>1 DEF HasKeeper, IsLive
  <2>2. CASE \E c \in Builds : Has(c, q)
    <3>1. PICK c \in Builds : Has(c, q)
      BY <2>2
    <3>2. at'[c] = at[c]
      BY <3>1, <1>1, <1>4 DEF Has, Deletes
    <3> QED BY <3>1, <3>2 DEF Has, HasKeeper
  <2> QED BY <2>1, <2>2, <1>5 DEF HasKeeper
<1>6. HasKeeper(p)'
  BY <1>4 DEF Has, HasKeeper
<1>7. ASSUME ~spoiled', NEW o \in r2', o.kind # "atlas"
      PROVE  o.pack \in Packs /\ HasKeeper(o.pack)'
  <2>1. CASE o \in r2
    BY <2>1, <1>1, <1>5, <1>7 DEF NoneLeft
  <2>2. CASE o \notin r2
    <3>1. o.pack = p
      BY <2>2, <1>3, <1>7
    <3> QED BY <3>1, <1>2, <1>6
  <2> QED BY <2>1, <2>2
<1>8. NoneLeft'
  BY <1>7 DEF NoneLeft
<1>9. RowsThere'
  BY <1>1 DEF RowsThere
<1> QED BY <1>8, <1>9

\* What a transaction replaces, its handler is to delete.
LEMMA CommitKeepsNone ==
  ASSUME IInv, Order, NoneLeft, RowsThere, NEW b \in Builds, Commit(b)
  PROVE  NoneLeft' /\ RowsThere'
<1>0. PICK n, i, p : n = rowOf[b] /\ i = at[b].si /\ p = at[b].pack
  OBVIOUS
<1>1. /\ TypeOK /\ Owners /\ Handlers /\ Apart /\ at[b] \in Handler /\ at[b].pc = "uploaded"
      /\ UNCHANGED <<r2, spoiled>>
  BY DEF IInv, Consistent, TypeOK, Commit
<1>2. /\ n \in Names /\ i \in Indexes /\ n # None /\ p \in Packs /\ p # None
      /\ index'[i].there /\ index'[i].pack = p /\ index[i].repo = n
  BY <1>0, CommitFacts
<1>3. \A k \in Indexes : index[k].there /\ index[k].repo # n =>
        index'[k].there /\ index'[k].pack = index[k].pack
  BY <1>0, CommitFacts
<1>4. /\ UNCHANGED rowOf /\ repos'[n].index = i
      /\ \A m \in Names : m # n => repos'[m] = repos[m]
  BY <1>0, CommitFacts
<1>5. at'[b].pc = "cleanup" /\ \A c \in Builds : c # b => at'[c] = at[c]
  BY <1>0, CommitFacts
<1>6. at'[b].gone = ReplacedPacks(b)
  BY <1>1 DEF Commit, TypeOK, Handler
<1>7. p.index = i
  BY <1>0, <1>1 DEF Handlers
<1>8. repos'[n].there = repos[n].there
  BY <1>0, <1>1, <1>2 DEF Commit, TypeOK, Repo
<1>9. HasKeeper(p)'
  <2>1. repos[n].there
    BY <1>0, <1>2 DEF RowsThere
  <2> QED BY <2>1, <1>2, <1>4, <1>7, <1>8 DEF HasKeeper, IsLive
<1>10. ASSUME NEW q \in Packs, HasKeeper(q) PROVE HasKeeper(q)'
  <2>1. CASE IsLive(q)
    <3>1. PICK m \in Names : /\ repos[m].there /\ repos[m].index = q.index
                             /\ index[q.index].there /\ index[q.index].pack = q
      BY <2>1 DEF IsLive
    <3>2. q.index \in Indexes /\ q.index # 0
      BY PublicationAssumption DEF Packs, Indexes
    <3>3. Live(m) = q.index
      BY <3>1, <3>2 DEF Live
    <3>4. index[q.index].repo = m
      BY <3>2, <3>3, <1>1 DEF Owners
    <3>5. CASE m # n
      BY <3>1, <3>2, <3>4, <3>5, <1>3, <1>4 DEF HasKeeper, IsLive
    <3>6. CASE m = n
      <4>1. q.index \in Others(b) \cup {at[b].si}
        BY <3>1, <3>2, <3>4, <3>6, <1>0 DEF Others, OfRepo
      <4>2. q # at[b].pack /\ q # None
        BY <3>1, <3>2, <1>1, NoneIsNoPack DEF Apart
      <4>3. q \in ReplacedPacks(b)
        BY <4>1, <4>2, <3>1 DEF ReplacedPacks
      <4> QED BY <4>3, <1>5, <1>6 DEF Has, HasKeeper, Deletes
    <3> QED BY <3>5, <3>6
  <2>2. CASE \E c \in Builds : Has(c, q)
    <3>1. PICK c \in Builds : Has(c, q)
      BY <2>2
    <3>2. CASE c = b
      <4>1. q = p
        BY <3>1, <3>2, <1>0, <1>1 DEF Has, Deletes
      <4> QED BY <4>1, <1>9
    <3>3. CASE c # b
      BY <3>1, <3>3, <1>5 DEF Has, HasKeeper
    <3> QED BY <3>2, <3>3
  <2> QED BY <2>1, <2>2, <1>10 DEF HasKeeper
<1>11. NoneLeft'
  BY <1>1, <1>10 DEF NoneLeft
<1>12. RowsThere'
  BY <1>0, <1>4, <1>8, <1>1 DEF RowsThere, TypeOK
<1> QED BY <1>11, <1>12

\* What was uploaded is taken back, what was replaced is deleted.
LEMMA DeletingKeepsNone ==
  ASSUME IInv, NoneLeft, RowsThere, NEW b \in Builds, CommitFindsNone(b) \/ Cleanup(b)
  PROVE  NoneLeft' /\ RowsThere'
<1>1. /\ TypeOK /\ at[b] \in Handler /\ UNCHANGED <<repos, rowOf, index>>
      /\ \A c \in Builds : c # b => at'[c] = at[c]
  BY DEF IInv, TypeOK, CommitFindsNone, Cleanup
<1>2. ASSUME NEW q \in Packs, HasKeeper(q),
             at[b].pc \in Deletes => q \notin at[b].gone,
             at[b].pc = "uploaded" => at'[b].pc = "undo" /\ at'[b].gone = {at[b].pack}
      PROVE  HasKeeper(q)'
  <2>1. CASE IsLive(q)
    BY <2>1, <1>1 DEF HasKeeper, IsLive
  <2>2. CASE \E c \in Builds : Has(c, q)
    <3>1. PICK c \in Builds : Has(c, q)
      BY <2>2
    <3>2. CASE c = b
      <4>1. at'[b].pc = "undo" /\ q \in at'[b].gone
        BY <3>1, <3>2, <1>2 DEF Has
      <4> QED BY <4>1 DEF Has, HasKeeper, Deletes
    <3>3. CASE c # b
      BY <3>1, <3>3, <1>1 DEF Has, HasKeeper
    <3> QED BY <3>2, <3>3
  <2> QED BY <2>1, <2>2, <1>2 DEF HasKeeper
<1>3. CASE CommitFindsNone(b)
  <2>1. /\ at[b].pc = "uploaded" /\ at'[b].pc = "undo" /\ at'[b].gone = {at[b].pack}
        /\ UNCHANGED <<r2, spoiled>>
    BY <1>1, <1>3 DEF CommitFindsNone, TypeOK, Handler
  <2> QED BY <2>1, <1>1, <1>2 DEF NoneLeft, RowsThere, Deletes
<1>4. CASE Cleanup(b)
  <2>1. PICK lost \in SUBSET Replaced(b) :
          r2' = r2 \ (Replaced(b) \ lost) /\ spoiled' = (spoiled \/ lost # {})
    BY <1>4 DEF Cleanup
  <2>2. at[b].pc \in Deletes /\ at[b].pc # "uploaded"
    BY <1>4 DEF Cleanup, Deletes
  <2>3. ASSUME ~spoiled', NEW o \in r2', o.kind # "atlas"
        PROVE  o.pack \in Packs /\ HasKeeper(o.pack)'
    <3>1. ~spoiled /\ lost = {}
      BY <2>1, <2>3
    <3>2. o \in r2 /\ o \notin Replaced(b)
      BY <3>1, <2>1, <2>3
    <3>3. o.pack \notin at[b].gone
      BY <3>2 DEF Replaced
    <3>4. o.pack \in Packs /\ HasKeeper(o.pack)
      BY <3>1, <3>2, <2>3 DEF NoneLeft
    <3> QED BY <3>3, <3>4, <2>2, <1>2
  <2> QED BY <2>3, <1>1 DEF NoneLeft, RowsThere
<1> QED BY <1>3, <1>4

\* A rename that drops an index with its pack is counted, and no Build is in flight.
LEMMA SettleKeepsNone ==
  ASSUME IInv, NoneLeft, RowsThere, OneByOne, Settle
  PROVE  NoneLeft' /\ RowsThere'
<1>1. TypeOK /\ Owners /\ Current \in Names /\ UNCHANGED <<at, r2>>
  BY PublicationAssumption DEF IInv, Consistent, Settle
<1>2. \A b \in Builds : at[b].pc \in {"asked", "over"}
  BY DEF Settle, InFlight, OneByOne, BetweenBuilds
<1> DEFINE members == {n \in Names : repos[n].there}
           holders == {n \in members : repos[n].report # "none"}
           choice == IF holders # {} THEN holders ELSE (members \cap {Current}) \cup
                       (IF Current \in members THEN {} ELSE {None})
<1>3. PICK from \in choice :
        LET dropped == {i \in Indexes : index[i].there /\ index[i].repo # from}
            base == IF from # None THEN repos[from] ELSE NoRepo
        IN
        /\ repos' = [n \in Names |->
                       IF n = Current THEN [base EXCEPT !.there = TRUE] ELSE NoRepo]
        /\ index' = [i \in Indexes |->
                       IF i \in dropped THEN NoIndex
                       ELSE IF index[i].there THEN [index[i] EXCEPT !.repo = Current]
                       ELSE index[i]]
        /\ spoiled' = (spoiled \/ LeavesBehind(dropped))
  BY Zenon DEF Settle
<1>4. from \in Names \cup {None}
  OBVIOUS
<1> HIDE DEF members, holders, choice
<1> DEFINE base == IF from # None THEN repos[from] ELSE NoRepo
           dropped == {i \in Indexes : index[i].there /\ index[i].repo # from}
<1>5. ASSUME NEW i \in Indexes, index[i].there, index[i].repo = from
      PROVE  index'[i].there /\ index'[i].pack = index[i].pack
  <2>1. index[i] \in Index
    BY <1>1 DEF TypeOK
  <2> DEFINE x == [index[i] EXCEPT !.repo = Current]
  <2>2. x.there = index[i].there /\ x.pack = index[i].pack
    BY <2>1 DEF Index
  <2>3. index'[i] = x
    BY <1>3, <1>5
  <2> QED BY <2>2, <2>3, <1>5
<1>6. repos'[Current].there /\ repos'[Current].index = base.index
  <2> DEFINE x == [base EXCEPT !.there = TRUE]
  <2>1. base \in Repo
    BY <1>1, <1>4, PublicationAssumption DEF TypeOK, NoRepo, Repo
  <2>2. x.there /\ x.index = base.index
    BY <2>1 DEF Repo
  <2>3. repos'[Current] = x
    BY <1>1, <1>3
  <2> QED BY <2>2, <2>3
<1>7. spoiled' = (spoiled \/ LeavesBehind(dropped))
  BY <1>3
<1>8. ASSUME ~spoiled', NEW o \in r2', o.kind # "atlas"
      PROVE  o.pack \in Packs /\ HasKeeper(o.pack)'
  <2>1. PICK p : p = o.pack
    OBVIOUS
  <2>2. ~spoiled /\ ~LeavesBehind(dropped) /\ o \in r2
    BY <1>1, <1>7, <1>8
  <2>3. p \in Packs /\ IsLive(p)
    BY <2>1, <2>2, <1>2, <1>8 DEF Has, NoneLeft, HasKeeper, Deletes
  <2>4. PICK m \in Names : /\ repos[m].there /\ repos[m].index = p.index
                           /\ index[p.index].there /\ index[p.index].pack = p
    BY <2>3 DEF IsLive
  <2>5. p.index \in Indexes /\ p.index # 0
    BY <2>3, PublicationAssumption DEF Packs, Indexes
  <2>6. index[p.index].repo = m
    BY <2>4, <2>5, <1>1 DEF Owners, Live
  <2>7. p.index \notin dropped
    <3>1. p.index \in dropped => LeavesBehind(dropped)
      BY <2>1, <2>2, <2>4, <1>8 DEF LeavesBehind
    <3> QED BY <3>1, <2>2
  <2>8. m = from
    BY <2>4, <2>5, <2>6, <2>7
  <2>9. base = repos[m]
    BY <2>8, PublicationAssumption
  <2> HIDE DEF base, dropped
  <2>10. index'[p.index].there /\ index'[p.index].pack = p /\ repos'[Current].index = p.index
    BY <2>4, <2>5, <2>6, <2>8, <2>9, <1>5, <1>6
  <2>11. IsLive(p)'
    BY <2>10, <1>1, <1>6 DEF IsLive
  <2> QED BY <2>1, <2>3, <2>11 DEF HasKeeper
<1>9. NoneLeft'
  BY <1>8 DEF NoneLeft
<1>10. RowsThere'
  <2>1. \A b \in Builds : rowOf'[b] = IF rowOf[b] = None THEN None ELSE Current
    BY DEF Settle
  <2> QED BY <2>1, <1>6 DEF RowsThere
<1> QED BY <1>9, <1>10

LEMMA RemoveRowKeepsNone ==
  ASSUME IInv, NoneLeft, RowsThere, NEW n \in Names, RemoveRow(n)
  PROVE  NoneLeft' /\ RowsThere'
<1>1. /\ TypeOK /\ Owners /\ UNCHANGED <<at, r2>>
      /\ spoiled' = (spoiled \/ LeavesBehind(OfRepo(n)))
  BY DEF IInv, Consistent, RemoveRow
<1>2. /\ \A i \in Indexes : i \notin OfRepo(n) => index'[i] = index[i]
      /\ \A m \in Names : m # n => repos'[m] = repos[m]
  BY <1>1 DEF RemoveRow, Without, TypeOK
<1>3. ASSUME ~spoiled', NEW o \in r2', o.kind # "atlas"
      PROVE  o.pack \in Packs /\ HasKeeper(o.pack)'
  <2>1. PICK p : p = o.pack
    OBVIOUS
  <2>2. ~spoiled /\ ~LeavesBehind(OfRepo(n)) /\ o \in r2
    BY <1>1, <1>3
  <2>3. p \in Packs /\ HasKeeper(p)
    BY <2>1, <2>2, <1>3 DEF NoneLeft
  <2>4. CASE IsLive(p)
    <3>1. PICK m \in Names : /\ repos[m].there /\ repos[m].index = p.index
                             /\ index[p.index].there /\ index[p.index].pack = p
      BY <2>4 DEF IsLive
    <3>2. p.index \in Indexes /\ p.index # 0
      BY <2>3, PublicationAssumption DEF Packs, Indexes
    <3>3. index[p.index].repo = m
      BY <3>1, <3>2, <1>1 DEF Owners, Live
    <3>4. p.index \notin OfRepo(n)
      <4>1. p.index \in OfRepo(n) => LeavesBehind(OfRepo(n))
        BY <2>1, <2>2, <3>1, <1>3 DEF LeavesBehind
      <4> QED BY <4>1, <2>2
    <3>5. m # n
      BY <3>1, <3>2, <3>3, <3>4 DEF OfRepo
    <3>6. repos'[m] = repos[m] /\ index'[p.index] = index[p.index]
      BY <3>2, <3>4, <3>5, <1>2
    <3> QED BY <2>1, <2>3, <3>1, <3>6 DEF HasKeeper, IsLive
  <2>5. CASE ~IsLive(p)
    BY <2>1, <2>3, <2>5, <1>1 DEF Has, HasKeeper
  <2> QED BY <2>4, <2>5
<1>4. NoneLeft'
  BY <1>3 DEF NoneLeft
<1>5. RowsThere'
  <2>1. \A b \in Builds : rowOf'[b] # None =>
          rowOf'[b] = rowOf[b] /\ rowOf[b] # n /\ rowOf[b] \in Names
    BY <1>1 DEF RemoveRow, TypeOK
  <2> QED BY <2>1, <1>2 DEF RowsThere
<1> QED BY <1>4, <1>5

\* The steps of a handler that has no pack, or loses it.
LEMMA RestingKeepsNone ==
  ASSUME IInv, NoneLeft, RowsThere, NEW b \in Builds,
         \/ Start(b) \/ Export(b) \/ TimesOut(b) \/ Fails(b) \/ Declines(b)
         \/ LoadNew(b) \/ Append(b)
  PROVE  NoneLeft' /\ RowsThere'
<1>1. TypeOK /\ SameLive
  <2>1. CASE LoadNew(b) \/ Append(b)
    BY <2>1, LoadFacts DEF IInv
  <2>2. CASE ~(LoadNew(b) \/ Append(b))
    <3>1. UNCHANGED <<repos, rowOf, index>>
      BY <2>2 DEF Start, Export, TimesOut, Fails, Declines
    <3> QED BY <3>1, UnchangedIsSameLive DEF IInv
  <2> QED BY <2>1, <2>2
<1>2. \A c \in Builds : c # b => at'[c] = at[c]
  BY <1>1 DEF TypeOK, Start, Export, TimesOut, Fails, Declines, LoadNew, Append
<1>3. r2' = r2 /\ (spoiled => spoiled')
  <2>1. CASE Fails(b)
    BY <2>1 DEF Fails
  <2>2. CASE ~Fails(b)
    <3>1. UNCHANGED <<r2, spoiled>>
      BY <2>2 DEF Start, Export, TimesOut, Declines, LoadNew, Append
    <3> QED BY <3>1
  <2> QED BY <2>1, <2>2
<1>4. at[b].pc = "uploaded" => spoiled'
  BY DEF Start, Export, TimesOut, Fails, Declines, LoadNew, Append
<1>5. at[b].pc \notin Deletes
  BY DEF Start, Export, TimesOut, Fails, Declines, LoadNew, Append, Deletes
<1> QED BY <1>1, <1>2, <1>3, <1>4, <1>5, KeepersStay

LEMMA NextNone ==
  ASSUME OneByOne, IInv, Order, NoneLeft, RowsThere, [Next]_vars
  PROVE  NoneLeft' /\ RowsThere'
<1>1. CASE \E b \in Builds : Work(b)
  BY <1>1, RestingKeepsNone, UploadKeepsNone, CommitKeepsNone, DeletingKeepsNone DEF Work
<1>2. ASSUME UNCHANGED <<repos, rowOf, index, spoiled, at>>,
             \A o \in r2' : o.kind # "atlas" => o \in r2
      PROVE  NoneLeft' /\ RowsThere'
  BY <1>2, UnchangedIsSameLive, KeepersStay
<1>3. CASE (\E p \in atlas : AtlasLooks(p)) \/ (\E p \in making : AtlasStored(p))
  BY <1>2, <1>3 DEF AtlasLooks, AtlasStored
<1>4. CASE \E n \in Names : RemoveObjects(n)
  BY <1>2, <1>4 DEF RemoveObjects
<1>5. CASE Push \/ UNCHANGED vars
  BY <1>2, <1>5 DEF Push, vars
<1>6. CASE \E n \in Names : RemoveRow(n)
  BY <1>6, RemoveRowKeepsNone
<1>7. CASE Settle
  BY <1>7, SettleKeepsNone
<1>8. CASE Crash
  <2>1. /\ SameLive /\ r2' = r2 /\ spoiled \in BOOLEAN
        /\ spoiled' = (spoiled \/ \E b \in Builds : at[b].pc \in {"uploaded", "undo", "cleanup"})
    BY <1>8, UnchangedIsSameLive DEF Crash, IInv, TypeOK
  <2>2. ~spoiled' => \A b \in Builds : ~(at[b].pc = "uploaded" \/ at[b].pc \in Deletes)
    BY <2>1 DEF Deletes
  <2>3. spoiled => spoiled'
    BY <2>1
  <2> QED BY <2>1, <2>2, <2>3, KeepersStay
<1> QED BY <1>1, <1>3, <1>4, <1>5, <1>6, <1>7, <1>8 DEF Next

\* With every handler at rest and no step failed half way, R2 holds the packs of a public
\* repository that are served with their screens, and no others: each is at every moment live, or in
\* the hands of a handler that will make it live or delete it.
THEOREM NothingIsLeft == ASSUME OneByOne PROVE Spec => []NothingLeaks
<1>1. Init => NoneLeft /\ RowsThere
  <2> SUFFICES ASSUME Init PROVE NoneLeft /\ RowsThere
    OBVIOUS
  <2>1. NoneLeft
    BY DEF Init, NoneLeft
  <2>2. ASSUME NEW b \in Builds, rowOf[b] # None PROVE repos[rowOf[b]].there
    <3>1. PICK n \in Names : n = rowOf[b] /\ NameOf[b] = n
      BY PublicationAssumption DEF Init
    <3>2. repos[n] = [NoRepo EXCEPT !.there = \E c \in Builds : NameOf[c] = n]
      BY DEF Init
    <3>3. PICK t \in BOOLEAN : t = \E c \in Builds : NameOf[c] = n
      BY Zenon
    <3>4. repos[n] = [there |-> t, index |-> 0, report |-> "none"]
      BY <3>2, <3>3 DEF NoRepo
    <3> QED BY <3>1, <3>3, <3>4
  <2> QED BY <2>1, <2>2 DEF RowsThere
<1>2. IInv /\ Order /\ NoneLeft /\ RowsThere /\ [Next]_vars => NoneLeft' /\ RowsThere'
  BY NextNone
<1>3. NoneLeft => NothingLeaks
  BY DEF NoneLeft, NothingLeaks, HasKeeper, Has, Deletes, InFlight
<1> QED BY <1>1, <1>2, <1>3, OrderIsKept, PTL DEF Spec

-----------------------------------------------------------------------------
(* To the Site each repository is a ReportStore *)

\* The pack of the index its row points at, and the packs in R2.
Served(n) == IF Live(n) = 0 THEN None ELSE index[Live(n)].pack

PacksKept == {o.pack : o \in {x \in r2 : x.kind = "pack"}}

LEMMA PackIsKept == \A p : Stored(p) \in r2 => p \in PacksKept
BY DEF PacksKept, Stored

LEMMA KeptIsStored == ASSUME TypeOK, NEW p \in PacksKept PROVE p \in Packs /\ Stored(p) \in r2
<1>1. PICK o \in r2 : o.kind = "pack" /\ o.pack = p
  BY DEF PacksKept
<1>2. o = [kind |-> o.kind, pack |-> o.pack] /\ o.pack \in Packs
  BY <1>1 DEF TypeOK, Objects
<1> QED BY <1>1, <1>2 DEF Stored

\* The steps of a ReportStore, in this module's variables.
LEMMA StoreStutters ==
  ASSUME NEW n \in Names, Served(n)' = Served(n), PacksKept' = PacksKept,
         (n \in removing') = (n \in removing)
  PROVE  UNCHANGED Store(n)!storeVars
BY DEF Store!storeVars, Served, PacksKept

LEMMA StoreStores ==
  ASSUME NEW n \in Names, Served(n)' = Served(n), UNCHANGED removing,
         PacksKept \subseteq PacksKept', PacksKept' \subseteq Packs
  PROVE  Store(n)!StoreNext
BY DEF Store!StoreNext, Store!Stores, Served, PacksKept

LEMMA StorePublishes ==
  ASSUME NEW n \in Names, Served(n)' \in PacksKept, PacksKept' = PacksKept, UNCHANGED removing
  PROVE  Store(n)!StoreNext
BY DEF Store!StoreNext, Store!Publishes, Served, PacksKept

LEMMA StoreDiscards ==
  ASSUME NEW n \in Names, Served(n)' = Served(n), (n \in removing') = (n \in removing),
         PacksKept' \subseteq PacksKept, Served(n) \in PacksKept \ PacksKept' => n \in removing
  PROVE  Store(n)!StoreNext
BY DEF Store!StoreNext, Store!Discards, Served, PacksKept

LEMMA StoreEmpties ==
  ASSUME NEW n \in Names, Served(n)' = Served(n), n \notin removing, n \in removing',
         PacksKept' \subseteq PacksKept
  PROVE  Store(n)!StoreNext
BY DEF Store!StoreNext, Store!Empties, Served, PacksKept

LEMMA StoreWithdraws ==
  ASSUME NEW n \in Names, Served(n)' = None, n \notin removing', PacksKept' = PacksKept
  PROVE  Store(n)!StoreNext
BY DEF Store!StoreNext, Store!Withdraws, Served, PacksKept

\* What is served is the name's own.
LEMMA ServedIsOwn ==
  ASSUME IInv, NEW n \in Names, Served(n) # None
  PROVE  /\ Live(n) \in Indexes /\ index[Live(n)].repo = n
         /\ Served(n) = index[Live(n)].pack /\ Served(n).index = Live(n)
         /\ Served(n) \in Packs
<1>1. Live(n) # 0 /\ Served(n) = index[Live(n)].pack
  BY DEF Served
<1>2. Live(n) \in Indexes /\ index[Live(n)].repo = n
  BY <1>1, LiveIndex DEF IInv, Consistent, Owners
<1> QED BY <1>1, <1>2, NamedArePacks DEF IInv, Consistent, Kept

LEMMA ServedStays ==
  ASSUME TypeOK, SameLive, NEW n \in Names PROVE Served(n)' = Served(n)
<1>1. Live(n)' = Live(n)
  BY DEF SameLive
<1>2. CASE Live(n) = 0
  BY <1>1, <1>2 DEF Served
<1>3. CASE Live(n) # 0
  <2>1. index'[Live(n)].pack = index[Live(n)].pack
    BY <1>3, LiveIndex DEF SameLive
  <2> QED BY <1>1, <1>3, <2>1 DEF Served
<1> QED BY <1>2, <1>3

ActsAsStore == \A n \in Names : Store(n)!StoreNext \/ UNCHANGED Store(n)!storeVars

\* Most steps touch neither what is served nor the packs.
LEMMA QuietActs ==
  ASSUME TypeOK, SameLive, PacksKept' = PacksKept, UNCHANGED removing PROVE ActsAsStore
BY ServedStays, StoreStutters DEF ActsAsStore

LEMMA UploadActs == ASSUME IInv, NEW b \in Builds, Upload(b) PROVE ActsAsStore
<1>1. TypeOK /\ TypeOK' /\ SameLive /\ UNCHANGED removing
  <2>1. IInv'
    BY UploadKeepsIInv
  <2>2. UNCHANGED <<repos, rowOf, index, removing>>
    BY DEF Upload
  <2> QED BY <2>1, <2>2, UnchangedIsSameLive DEF IInv
<1>2. r2 \subseteq r2'
  BY DEF Upload
<1>3. PacksKept \subseteq PacksKept'
  BY <1>2 DEF PacksKept
<1>4. PacksKept' \subseteq Packs
  BY <1>1 DEF PacksKept, TypeOK, Objects
<1> QED BY <1>1, <1>3, <1>4, ServedStays, StoreStores DEF ActsAsStore

\* The transaction publishes the pack that its handler has stored.
LEMMA CommitActs ==
  ASSUME IInv, Order \/ removing = {}, NEW b \in Builds, Commit(b) PROVE ActsAsStore
<1>0. PICK n, i, p : n = rowOf[b] /\ i = at[b].si /\ p = at[b].pack
  OBVIOUS
<1>1. /\ TypeOK /\ Owners /\ Handlers /\ Kept /\ at[b].pc = "uploaded"
      /\ UNCHANGED <<r2, removing>>
  BY DEF IInv, Consistent, Commit
<1>2. /\ n \in Names /\ n # None /\ i \in Indexes /\ i # 0 /\ i \notin Others(b)
  <2>1. n # None /\ i \in Indexes /\ i \notin Others(b) /\ n \in Names
    BY <1>0, CommitIndexes DEF Commit
  <2> QED BY <2>1, PublicationAssumption DEF Indexes
<1>3. /\ \A k \in Indexes : k \in Others(b) => index'[k] = NoIndex
      /\ \A k \in Indexes \ Others(b) :
           /\ index'[k].there = index[k].there
           /\ index'[k].pack = index[k].pack \/ (k = i /\ index'[k].pack = p)
      /\ index[i].there => index'[i].pack = p
      /\ \A k \in Indexes : index'[k].there => index[k].there
  BY <1>0, CommitIndexes
<1>4. repos'[n].index = i /\ \A m \in Names : m # n => repos'[m] = repos[m]
  BY <1>0, <1>1, <1>2 DEF Commit, TypeOK, Repo
<1>5. PacksKept' = PacksKept
  BY <1>1 DEF PacksKept
<1>6. p \in PacksKept
  BY <1>0, <1>1, PackIsKept DEF Kept
<1>7. Store(n)!StoreNext
  <2>1. CASE index[i].there
    <3>1. index'[i].there /\ index'[i].pack = p
      BY <2>1, <1>2, <1>3
    <3>2. Served(n)' = p
      BY <3>1, <1>2, <1>4 DEF Served, Live
    <3> QED BY <3>2, <1>1, <1>2, <1>5, <1>6, StorePublishes
  <2>2. CASE ~index[i].there
    <3>1. removing = {}
      BY <2>2, <1>0, <1>1, <1>2 DEF Order, LoadedIsThere
    <3>2. ~index'[i].there
      BY <2>2, <1>2, <1>3
    <3>3. Served(n)' = None
      BY <3>2, <1>2, <1>4 DEF Served, Live
    <3> QED BY <3>1, <3>3, <1>1, <1>2, <1>5, StoreWithdraws
  <2> QED BY <2>1, <2>2
<1>8. ASSUME NEW m \in Names, m # n PROVE UNCHANGED Store(m)!storeVars
  <2>1. repos'[m].index = repos[m].index /\ repos[m].index \in 0 .. MaxIndex
    BY <1>1, <1>4, <1>8 DEF TypeOK, Repo
  <2>2. CASE Live(m) = 0
    <3>1. repos[m].index = 0 \/ (repos[m].index \in Indexes /\ ~index[repos[m].index].there)
      BY <2>1, <2>2 DEF Live, Indexes
    <3>2. Live(m)' = 0
      BY <3>1, <2>1, <1>3 DEF Live
    <3>3. Served(m)' = Served(m)
      BY <3>2, <2>2 DEF Served
    <3> QED BY <3>3, <1>1, <1>5, StoreStutters
  <2>3. CASE Live(m) # 0
    <3>1. /\ Live(m) \in Indexes /\ Live(m) = repos[m].index /\ index[Live(m)].there
          /\ index[Live(m)].repo = m
      BY <2>3, <1>1, LiveIndex DEF Owners
    <3>2. Live(m) \notin Others(b)
      BY <3>1, <1>0, <1>8 DEF Others, OfRepo
    <3>3. Live(m) # i
      BY <3>1, <1>0, <1>1, <1>2, <1>8 DEF Owners
    <3>4. index'[Live(m)].there /\ index'[Live(m)].pack = index[Live(m)].pack
      BY <3>1, <3>2, <3>3, <1>3
    <3>5. Live(m)' = Live(m)
      BY <2>1, <2>3, <3>1, <3>4 DEF Live
    <3>6. Served(m)' = Served(m)
      BY <3>4, <3>5, <2>3 DEF Served
    <3> QED BY <3>6, <1>1, <1>5, StoreStutters
  <2> QED BY <2>2, <2>3
<1> QED BY <1>7, <1>8 DEF ActsAsStore

\* What a handler deletes, nothing serves.
LEMMA CleanupActs == ASSUME IInv, NEW b \in Builds, Cleanup(b) PROVE ActsAsStore
<1>1. TypeOK /\ Apart /\ SameLive /\ UNCHANGED removing
  <2>1. UNCHANGED <<repos, rowOf, index, removing>>
    BY DEF Cleanup
  <2> QED BY <2>1, UnchangedIsSameLive DEF IInv, Consistent
<1>2. PICK lost \in SUBSET Replaced(b) : r2' = r2 \ (Replaced(b) \ lost)
  BY DEF Cleanup
<1>3. PacksKept' \subseteq PacksKept
  BY <1>2 DEF PacksKept
<1>4. ASSUME NEW n \in Names, Served(n) \in PacksKept \ PacksKept' PROVE FALSE
  <2>1. PICK p : p = Served(n)
    OBVIOUS
  <2>2. p \in Packs /\ Stored(p) \in r2
    BY <2>1, <1>1, <1>4, KeptIsStored
  <2>3. p # None
    BY <2>2, NoneIsNoPack
  <2>4. p \notin at[b].gone
    BY <2>1, <2>3, <1>1, ServedIsOwn DEF Apart
  <2>5. Stored(p).kind = "pack" /\ Stored(p).pack = p
    BY DEF Stored
  <2>6. Stored(p) \notin Replaced(b)
    BY <2>4, <2>5 DEF Replaced
  <2>7. Stored(p) \in r2'
    BY <2>2, <2>6, <1>2
  <2>8. p \in PacksKept'
    BY <2>5, <2>7 DEF PacksKept
  <2> QED BY <2>1, <2>8, <1>4
<1> QED BY <1>1, <1>3, <1>4, ServedStays, StoreDiscards DEF ActsAsStore

\* A removal takes no other repository's pack.
LEMMA RemoveObjectsActs ==
  ASSUME IInv, NEW n \in Names, RemoveObjects(n) PROVE ActsAsStore
<1>1. TypeOK /\ Kept /\ SameLive /\ removing' = removing \cup {n} /\ n \notin removing
  <2>1. UNCHANGED <<repos, rowOf, index>>
    BY DEF RemoveObjects
  <2> QED BY <2>1, UnchangedIsSameLive DEF IInv, Consistent, RemoveObjects
<1>2. r2' \subseteq r2
  BY DEF RemoveObjects
<1>3. PacksKept' \subseteq PacksKept
  BY <1>2 DEF PacksKept
<1>4. ASSUME NEW m \in Names, m # n, Served(m) \in PacksKept \ PacksKept' PROVE FALSE
  <2>1. PICK p : p = Served(m)
    OBVIOUS
  <2>2. p \in Packs /\ Stored(p) \in r2 /\ p # None
    BY <2>1, <1>1, <1>4, KeptIsStored, NoneIsNoPack
  <2>3. p.index = Live(m) /\ index[Live(m)].repo = m
    BY <2>1, <2>2, ServedIsOwn
  <2>4. \A i \in OfRepo(n) : index[i].pack # p
    BY <2>2, <2>3, <1>1, <1>4 DEF OfRepo, Kept
  <2>5. Stored(p).kind = "pack" /\ Stored(p).pack = p
    BY DEF Stored
  <2>6. Stored(p) \in r2'
    BY <2>2, <2>4, <2>5 DEF RemoveObjects
  <2>7. p \in PacksKept'
    BY <2>5, <2>6 DEF PacksKept
  <2> QED BY <2>1, <2>7, <1>4
<1>5. \A m \in Names : Served(m)' = Served(m)
  BY <1>1, ServedStays
<1>6. Store(n)!StoreNext
  BY <1>1, <1>3, <1>5, StoreEmpties
<1>7. ASSUME NEW m \in Names, m # n PROVE Store(m)!StoreNext
  <2>1. (m \in removing') = (m \in removing)
    BY <1>1, <1>7
  <2> QED BY <2>1, <1>3, <1>4, <1>5, <1>7, StoreDiscards
<1> QED BY <1>6, <1>7 DEF ActsAsStore

LEMMA RemoveRowActs ==
  ASSUME IInv, NEW n \in Names, RemoveRow(n) PROVE ActsAsStore
<1>1. /\ TypeOK /\ Owners /\ removing' = removing \ {n} /\ UNCHANGED r2
      /\ NoRepo.index = 0 /\ ~NoIndex.there
  BY DEF IInv, Consistent, RemoveRow, NoRepo, NoIndex
<1>2. /\ \A i \in Indexes : i \in OfRepo(n) => index'[i] = NoIndex
      /\ \A i \in Indexes : i \notin OfRepo(n) => index'[i] = index[i]
      /\ repos'[n] = NoRepo
      /\ \A m \in Names : m # n => repos'[m] = repos[m]
  BY <1>1 DEF RemoveRow, Without, TypeOK
<1>3. PacksKept' = PacksKept
  BY <1>1 DEF PacksKept
<1>4. Served(n)' = None
  BY <1>1, <1>2 DEF Served, Live
<1>5. Store(n)!StoreNext
  BY <1>1, <1>3, <1>4, StoreWithdraws
<1>6. ASSUME NEW m \in Names, m # n PROVE UNCHANGED Store(m)!storeVars
  <2>1. repos'[m].index = repos[m].index /\ repos[m].index \in 0 .. MaxIndex
    BY <1>1, <1>2, <1>6 DEF TypeOK, Repo
  <2>2. ASSUME Live(m) = 0 PROVE Served(m)' = Served(m)
    <3>1. repos[m].index = 0 \/ (repos[m].index \in Indexes /\ ~index[repos[m].index].there)
      BY <2>1, <2>2 DEF Live, Indexes
    <3>2. Live(m)' = 0
      BY <3>1, <2>1, <1>1, <1>2 DEF Live
    <3> QED BY <3>2, <2>2 DEF Served
  <2>3. ASSUME Live(m) # 0 PROVE Served(m)' = Served(m)
    <3>1. /\ Live(m) \in Indexes /\ Live(m) = repos[m].index /\ index[Live(m)].there
          /\ index[Live(m)].repo = m
      BY <2>3, <1>1, LiveIndex DEF Owners
    <3>2. index'[Live(m)] = index[Live(m)]
      BY <3>1, <1>2, <1>6 DEF OfRepo
    <3>3. Live(m)' = Live(m)
      BY <2>1, <2>3, <3>1, <3>2 DEF Live
    <3> QED BY <3>2, <3>3, <2>3 DEF Served
  <2>4. Served(m)' = Served(m)
    BY <2>2, <2>3
  <2>5. (m \in removing') = (m \in removing)
    BY <1>1, <1>6
  <2> QED BY <2>4, <2>5, <1>3, StoreStutters
<1> QED BY <1>5, <1>6 DEF ActsAsStore

\* A rename gives the current name the pack of the row that is kept, or none.
LEMMA SettleActs == ASSUME IInv, NamedIsStored, Settle, Unraced PROVE ActsAsStore
<1>1. TypeOK /\ Owners /\ Kept /\ Current \in Names /\ UNCHANGED <<r2, removing>>
  BY PublicationAssumption DEF IInv, Consistent, Settle
<1>2. removing = {}
  BY DEF Unraced
<1>3. PacksKept' = PacksKept
  BY <1>1 DEF PacksKept
<1> DEFINE members == {n \in Names : repos[n].there}
           holders == {n \in members : repos[n].report # "none"}
           choice == IF holders # {} THEN holders ELSE (members \cap {Current}) \cup
                       (IF Current \in members THEN {} ELSE {None})
<1>4. PICK from \in choice :
        LET dropped == {i \in Indexes : index[i].there /\ index[i].repo # from}
            base == IF from # None THEN repos[from] ELSE NoRepo
        IN
        /\ repos' = [n \in Names |->
                       IF n = Current THEN [base EXCEPT !.there = TRUE] ELSE NoRepo]
        /\ index' = [i \in Indexes |->
                       IF i \in dropped THEN NoIndex
                       ELSE IF index[i].there THEN [index[i] EXCEPT !.repo = Current]
                       ELSE index[i]]
  BY Zenon DEF Settle
<1>5. from \in Names \cup {None}
  OBVIOUS
<1> HIDE DEF members, holders, choice
<1> DEFINE base == IF from # None THEN repos[from] ELSE NoRepo
<1>6. NoRepo \in Repo /\ NoRepo.index = 0 /\ ~NoIndex.there
  BY PublicationAssumption DEF NoRepo, Repo, NoIndex
<1>7. base \in Repo
  BY <1>1, <1>5, <1>6 DEF TypeOK
<1>8. repos'[Current].index = base.index /\ \A n \in Names : n # Current => repos'[n] = NoRepo
  <2> DEFINE x == [base EXCEPT !.there = TRUE]
  <2>1. x.index = base.index
    BY <1>7 DEF Repo
  <2>2. repos' = [n \in Names |-> IF n = Current THEN x ELSE NoRepo]
    BY <1>4
  <2> HIDE DEF x, base
  <2> QED BY <2>1, <2>2, <1>1
<1>9. ASSUME NEW i \in Indexes, index'[i].there
      PROVE  index[i].there /\ index'[i].pack = index[i].pack
  <2>1. index[i] \in Index
    BY <1>1 DEF TypeOK
  <2> DEFINE x == [index[i] EXCEPT !.repo = Current]
  <2>2. x.there = index[i].there /\ x.pack = index[i].pack
    BY <2>1 DEF Index
  <2>3. index'[i] \in {NoIndex, x, index[i]}
    BY <1>4
  <2> HIDE DEF x
  <2> QED BY <2>2, <2>3, <1>6, <1>9
<1> HIDE DEF base
<1>10. Served(Current)' \in PacksKept \cup {None}
  <2>1. CASE Live(Current)' = 0
    BY <2>1 DEF Served
  <2>2. CASE Live(Current)' # 0
    <3>1. PICK i : i = Live(Current)'
      OBVIOUS
    <3>2. /\ i = base.index /\ i # 0 /\ index'[i].there /\ Served(Current)' = index'[i].pack
      BY <2>2, <3>1, <1>8 DEF Live, Served
    <3>3. i \in Indexes
      BY <3>2, <1>7 DEF Repo, Indexes
    <3>4. index'[i].pack = index[i].pack
      BY <3>2, <3>3, <1>9
    <3>5. index[i].pack # None => Stored(index[i].pack) \in r2
      BY <3>3, <1>2 DEF NamedIsStored
    <3> QED BY <3>2, <3>4, <3>5, PackIsKept
  <2> QED BY <2>1, <2>2
<1>11. \A n \in Names : n # Current => Served(n)' = None
  BY <1>6, <1>8 DEF Served, Live
<1> QED BY <1>1, <1>2, <1>3, <1>10, <1>11, StorePublishes, StoreWithdraws DEF ActsAsStore

LEMMA NextActs ==
  ASSUME IInv, NamedIsStored, "remove" \in Events => Order, [Next]_vars, [Unraced]_vars
  PROVE  ActsAsStore
<1>1. TypeOK
  BY DEF IInv
<1>2. ASSUME UNCHANGED <<repos, rowOf, index, removing>>, PacksKept' = PacksKept
      PROVE  ActsAsStore
  BY <1>1, <1>2, UnchangedIsSameLive, QuietActs
<1>3. r2' = r2 => PacksKept' = PacksKept
  BY DEF PacksKept
<1>4. ASSUME NEW b \in Builds, Work(b) PROVE ActsAsStore
  <2>1. CASE \/ Start(b) \/ Export(b) \/ TimesOut(b) \/ Fails(b) \/ Declines(b)
             \/ CommitFindsNone(b)
    BY <2>1, <1>2, <1>3 DEF Start, Export, TimesOut, Fails, Declines, CommitFindsNone
  <2>2. CASE LoadNew(b) \/ Append(b)
    <3>1. SameLive /\ UNCHANGED <<removing, r2>>
      BY <2>2, LoadFacts DEF LoadNew, Append
    <3> QED BY <3>1, <1>1, <1>3, QuietActs
  <2>3. CASE Commit(b)
    <3>1. Order \/ removing = {}
      BY DEF IInv, Consistent, Kept
    <3> QED BY <3>1, <2>3, CommitActs
  <2> QED BY <1>4, <2>1, <2>2, <2>3, UploadActs, CleanupActs DEF Work
<1>5. CASE (\E p \in atlas : AtlasLooks(p)) \/ Push \/ Crash \/ UNCHANGED vars
  BY <1>5, <1>2, <1>3 DEF AtlasLooks, Push, Crash, vars
<1>6. CASE \E p \in making : AtlasStored(p)
  <2>1. PICK p : r2' = r2 \cup {[kind |-> "atlas", pack |-> p]}
    BY <1>6 DEF AtlasStored
  <2>2. PacksKept' = PacksKept
    BY <2>1 DEF PacksKept
  <2> QED BY <2>2, <1>2, <1>6 DEF AtlasStored
<1>7. CASE \E n \in Names : RemoveObjects(n) \/ RemoveRow(n)
  BY <1>7, RemoveObjectsActs, RemoveRowActs
<1>8. CASE Settle
  BY <1>5, <1>8, SettleActs
<1> QED BY <1>4, <1>5, <1>6, <1>7, <1>8 DEF Next

\* To the Site every repository is a ReportStore: what is served is in R2 from before
\* its row names it, and no crash, failed step, rename or removal is more to it than
\* a step of that store, as long as no rename is settled between the two stores of a
\* removal, nor, where repositories are removed, in the middle of a Build (and those of a
\* private repository, which may overlap, are none there).
THEOREM IsAReportStore ==
  ASSUME "remove" \in Events => OneByOne
  PROVE  Spec /\ [][Unraced]_vars => ImplementsStore
<1>1. ASSUME Init PROVE \A n \in Names : Store(n)!StoreInit
  <2>1. ASSUME NEW n \in Names PROVE Store(n)!StoreInit
    <3>1. Live(n) = 0
      BY <1>1 DEF Init, NoRepo, Live
    <3>2. r2 = {} /\ removing = {}
      BY <1>1 DEF Init
    <3> QED BY <3>1, <3>2 DEF Store!StoreInit
  <2> QED BY <2>1
<1>2. Init => IInv /\ ("remove" \in Events => Order)
  BY InitIInv, InitOrder
<1>3. IInv /\ ("remove" \in Events => Order) /\ [Next]_vars
        => (IInv /\ ("remove" \in Events => Order))'
  BY NextIInv, NextOrder
<1>4. IInv /\ NamedIsStored /\ ("remove" \in Events => Order) /\ [Next]_vars /\ [Unraced]_vars =>
        \A n \in Names : Store(n)!StoreNext \/ UNCHANGED Store(n)!storeVars
  BY NextActs DEF ActsAsStore
<1> HIDE DEF IInv, Order, Init, Next, NamedIsStored, Unraced
<1> QED BY <1>1, <1>2, <1>3, <1>4, NamedAlways, PTL DEF Spec, ImplementsStore

=============================================================================
