---------------------------- MODULE PipelineProofs ----------------------------
(***************************************************************************)
(* Proofs about SubscriberPipeline, for every set of client configurations *)
(* and catalogs, every number of groups and objects, and any number of     *)
(* failing calls.                                                          *)
(***************************************************************************)
EXTENDS SubscriberPipeline, SequenceTheorems, TLAPS

(***************************************************************************)
(* Functions and sequences.                                                *)
(***************************************************************************)

LEMMA EmptySequence == IsSequence(<<>>) /\ DOMAIN <<>> = {}
  BY DEF IsSequence

\* A sequence is a function on 1..Len.
LEMMA SequenceDomain ==
  ASSUME NEW s, IsSequence(s)
  PROVE  /\ Len(s) \in Nat /\ DOMAIN s = 1..Len(s)
         /\ s = <<>> <=> DOMAIN s = {}
         /\ s # <<>> => 1 \in DOMAIN s
  <1> DEFINE S == {s[i] : i \in DOMAIN s}
  <1>1. s \in Seq(S)
    BY DEF IsSequence
  <1> HIDE DEF S
  <1>2. Len(s) \in Nat /\ DOMAIN s = 1..Len(s)
    BY <1>1
  <1>3. s # <<>> => Len(s) > 0
    BY <1>1
  <1>4. s = <<>> => DOMAIN s = {}
    OBVIOUS
  <1> QED BY <1>2, <1>3, <1>4

\* Writing a piece keeps what the output holds and puts the piece behind it.
LEMMA AppendFacts ==
  ASSUME NEW s, IsSequence(s), NEW e
  PROVE  /\ IsSequence(Append(s, e))
         /\ DOMAIN Append(s, e) = DOMAIN s \cup {Len(s) + 1}
         /\ \A i \in DOMAIN s : Append(s, e)[i] = s[i]
         /\ Append(s, e)[Len(s) + 1] = e
         /\ Append(s, e) # <<>>
         /\ s # <<>> => Append(s, e)[1] = s[1]
         /\ s = <<>> => Append(s, e)[1] = e /\ DOMAIN Append(s, e) = {1}
  <1> DEFINE S == {s[i] : i \in DOMAIN s} \cup {e}
             a == Append(s, e)
  <1>1. s \in Seq({s[i] : i \in DOMAIN s})
    BY DEF IsSequence
  <1>2. /\ Len(s) \in Nat /\ DOMAIN s = 1..Len(s)
        /\ s # <<>> => 1 \in DOMAIN s
        /\ s = <<>> => DOMAIN s = {}
    BY SequenceDomain
  <1>3. s \in Seq(S) /\ e \in S
    <2>1. \A i \in 1..Len(s) : s[i] \in S
      BY <1>2
    <2> QED BY <1>1, <1>2, <2>1
  <1> HIDE DEF S
  <1>4. /\ a \in Seq(S) /\ Len(a) = Len(s) + 1 /\ DOMAIN a = 1..(Len(s) + 1)
        /\ \A i \in 1..Len(s) : a[i] = s[i]
        /\ a[Len(s) + 1] = e
    BY <1>3, AppendProperties
  <1>5. IsSequence(a)
    <2>1. \A i \in 1..Len(a) : a[i] \in {a[j] : j \in DOMAIN a}
      BY <1>2, <1>4
    <2> QED BY <1>2, <1>4, <2>1 DEF IsSequence
  <1> HIDE DEF a
  <1>6. DOMAIN a = DOMAIN s \cup {Len(s) + 1}
    BY <1>2, <1>4
  <1>7. a # <<>>
    BY <1>2, <1>4
  <1>8. s = <<>> => Len(s) = 0
    OBVIOUS
  <1> QED BY <1>2, <1>4, <1>5, <1>6, <1>7, <1>8 DEF a

-----------------------------------------------------------------------------
(***************************************************************************)
(* The catalog.                                                            *)
(***************************************************************************)

\* Names identify tracks.
LEMMA TrackOfName ==
  ASSUME cfg \in Configs, NEW i \in DOMAIN cfg.catalog
  PROVE  Track(cfg.catalog[i].name) = cfg.catalog[i] /\ IsTrack(cfg.catalog[i])
  <1> DEFINE j == CHOOSE k \in DOMAIN cfg.catalog : cfg.catalog[k].name = cfg.catalog[i].name
  <1>1. /\ \A k \in DOMAIN cfg.catalog : IsTrack(cfg.catalog[k])
        /\ \A k, l \in DOMAIN cfg.catalog : cfg.catalog[k].name = cfg.catalog[l].name => k = l
    BY PipelineAssumption DEF IsConfig
  <1>2. j \in DOMAIN cfg.catalog /\ cfg.catalog[j].name = cfg.catalog[i].name
    OBVIOUS
  <1>3. j = i
    <2> HIDE DEF j
    <2> QED BY <1>1, <1>2
  <1> QED BY <1>1, <1>3 DEF Track

LEMMA TrackListed ==
  ASSUME cfg \in Configs, NEW n, Listed(n)
  PROVE  Track(n).name = n /\ IsTrack(Track(n)) /\ n # None
  <1>1. PICK i \in DOMAIN cfg.catalog : cfg.catalog[i].name = n
    BY DEF Listed
  <1> QED BY <1>1, TrackOfName DEF IsTrack

LEMMA CatalogDomain ==
  ASSUME cfg \in Configs
  PROVE  Len(cfg.catalog) \in Nat /\ DOMAIN cfg.catalog = 1..Len(cfg.catalog)
  <1>1. IsSequence(cfg.catalog)
    BY PipelineAssumption DEF IsConfig, IsSequence
  <1> QED BY <1>1, SequenceDomain

LEMMA ConsideredListed ==
  ASSUME NEW n, Considered(n)
  PROVE  Listed(n)
  BY DEF Considered, Listed

\* The track at idx has not been considered.
LEMMA CurrentIsNew ==
  ASSUME cfg \in Configs, idx \in DOMAIN cfg.catalog, NEW n, Considered(n)
  PROVE  n # cfg.catalog[idx].name
  <1>1. PICK i \in DOMAIN cfg.catalog : i < idx /\ cfg.catalog[i].name = n
    BY DEF Considered
  <1>2. \A k, l \in DOMAIN cfg.catalog : cfg.catalog[k].name = cfg.catalog[l].name => k = l
    BY PipelineAssumption DEF IsConfig
  <1>3. i # idx
    BY <1>1, CatalogDomain
  <1> QED BY <1>1, <1>2, <1>3

-----------------------------------------------------------------------------
(***************************************************************************)
(* What the steps leave alone.                                             *)
(***************************************************************************)

SetupKept == UNCHANGED <<cfg, overtaking, setupVars>>

\* A reader that only moves on.
LEMMA GoFacts ==
  ASSUME NEW n \in DOMAIN readers, NEW where, Go(n, where),
         DOMAIN readers[n] = {"media", "pc", "state", "last", "piece"}
  PROVE  /\ DOMAIN readers' = DOMAIN readers
         /\ \A m \in DOMAIN readers : m # n => readers'[m] = readers[m]
         /\ DOMAIN readers'[n] = {"media", "pc", "state", "last", "piece"}
         /\ readers'[n].pc = where
         /\ readers'[n].media = readers[n].media /\ readers'[n].state = readers[n].state
         /\ readers'[n].last = readers[n].last /\ readers'[n].piece = readers[n].piece
  BY DEF Go

\* The readers leave the set-up alone, and handle does after the loop.
LEMMA ReaderStepKeeps ==
  ASSUME NEW n, Work(n) \/ EndReader(n)
  PROVE  SetupKept /\ idx' = idx /\ todo' = todo /\ pc' \in {pc, "panic"}
  <1>1. CASE ReadObject(n)
    BY <1>1 DEF ReadObject, SetupKept, handleVars, setupVars
  <1>2. CASE WriteLOC(n)
    BY <1>2 DEF WriteLOC, SetupKept, handleVars, setupVars
  <1>3. CASE MuxSample(n)
    BY <1>3 DEF MuxSample, SetupKept, setupVars
  <1>4. CASE EncodeFragment(n)
    BY <1>4 DEF EncodeFragment, SetupKept, handleVars, setupVars
  <1>5. CASE WriteOut(n)
    BY <1>5 DEF WriteOut, SetupKept, handleVars, setupVars
  <1>6. CASE ReadMoqMI(n)
    BY <1>6 DEF ReadMoqMI, SetupKept, handleVars, setupVars
  <1>7. CASE EndReader(n)
    BY <1>7 DEF EndReader, SetupKept, handleVars, setupVars
  <1> QED BY <1>1, <1>2, <1>3, <1>4, <1>5, <1>6, <1>7 DEF Work

LEMMA HandleKeeps ==
  ASSUME StartSession \/ EndOfTracks \/ Subscribe \/ SubscribeMoqMI
  PROVE  SetupKept /\ out' = out
  <1>1. CASE StartSession
    BY <1>1 DEF StartSession, SetupKept, setupVars
  <1>2. CASE EndOfTracks
    BY <1>2 DEF EndOfTracks, SetupKept, setupVars
  <1>3. CASE Subscribe
    BY <1>3 DEF Subscribe, SetupKept, setupVars
  <1>4. CASE SubscribeMoqMI
    BY <1>4 DEF SubscribeMoqMI, SetupKept, setupVars
  <1> QED BY <1>1, <1>2, <1>3, <1>4

\* Failures are only added.
LEMMA FailedGrows ==
  ASSUME Next
  PROVE  failed \subseteq failed'
  <1>1. CASE StartSession
    BY <1>1 DEF StartSession, NoFault, Fault
  <1>2. CASE ConsiderTrack
    BY <1>2 DEF ConsiderTrack, NoFault, Fault
  <1>3. CASE EndOfTracks
    BY <1>3 DEF EndOfTracks, NoFault, Fault
  <1>4. CASE Subscribe
    BY <1>4 DEF Subscribe, NoFault, Fault
  <1>5. CASE SubscribeMoqMI
    BY <1>5 DEF SubscribeMoqMI, NoFault, Fault
  <1>6. ASSUME NEW n \in DOMAIN readers, Work(n) \/ EndReader(n)
        PROVE  failed \subseteq failed'
    <2>1. CASE ReadObject(n)
      BY <2>1 DEF ReadObject, NoFault
    <2>2. CASE WriteLOC(n) \/ MuxSample(n) \/ EncodeFragment(n) \/ WriteOut(n)
      BY <2>2 DEF WriteLOC, MuxSample, EncodeFragment, WriteOut, NoFault
    <2>3. CASE ReadMoqMI(n)
      BY <2>3 DEF ReadMoqMI, NoFault, Fault
    <2>4. CASE EndReader(n)
      BY <2>4 DEF EndReader, NoFault, Fault
    <2> QED BY <1>6, <2>1, <2>2, <2>3, <2>4 DEF Work
  <1> QED BY <1>1, <1>2, <1>3, <1>4, <1>5, <1>6 DEF Next, Handle

\* With the set-up, everything that is said of tracks and their media stays.
LEMMA SetupKeptFacts ==
  ASSUME SetupKept
  PROVE  /\ \A n : Track(n)' = Track(n)
         /\ \A n : Listed(n)' <=> Listed(n)
         /\ \A n : StillEncrypted(n)' = StillEncrypted(n)
         /\ \A n, m : MayRead(n, m)' <=> MayRead(n, m)
         /\ \A w : OwnInit(w)' = OwnInit(w)
         /\ Combined(inits)' <=> Combined(inits)
         /\ lost' = lost
  <1>1. /\ cfg' = cfg /\ sel' = sel /\ cenc' = cenc /\ inits' = inits /\ locWriters' = locWriters
        /\ lost' = lost
    BY DEF SetupKept, setupVars
  <1>2. \A n : Track(n)' = Track(n)
    BY <1>1 DEF Track
  <1>3. \A n : Listed(n)' <=> Listed(n)
    BY <1>1 DEF Listed
  <1>4. \A n : StillEncrypted(n)' = StillEncrypted(n)
    BY <1>1, <1>2 DEF StillEncrypted
  <1>5. \A n, m : MayRead(n, m)' <=> MayRead(n, m)
    BY <1>1, <1>2, <1>3 DEF MayRead
  <1>6. \A w : OwnInit(w)' = OwnInit(w)
    BY <1>1, <1>4 DEF OwnInit
  <1> QED BY <1>1, <1>2, <1>3, <1>4, <1>5, <1>6 DEF Combined

-----------------------------------------------------------------------------
(***************************************************************************)
(* The initial state, and a turn of the loop over the catalog.             *)
(***************************************************************************)

LEMMA InitInvariant == Init => IInv
  <1> SUFFICES ASSUME Init PROVE IInv
    OBVIOUS
  <1>1. DOMAIN readers = {} /\ DOMAIN next = {} /\ DOMAIN inits = {}
    BY EmptySequence DEF Init
  <1>2. \A w \in cfg.outs : out[w] = <<>> /\ DOMAIN out[w] = {}
    BY EmptySequence DEF Init
  <1>3. TypeOK
    BY <1>1, <1>2, EmptySequence DEF Init, TypeOK
  <1>4. SetUp
    BY <1>1 DEF Init, SetUp
  <1>5. ~Combined(inits)
    BY <1>1 DEF Combined, MuxRoles
  <1>6. Outputs
    BY <1>2, <1>5 DEF Init, Outputs, OwnOutput, MuxOutput, Roles
  <1>7. Subscribed
    BY <1>1, EmptySequence DEF Init, Subscribed
  <1>8. Decoding /\ StopsOnlyOnOwnFailure
    BY <1>1 DEF Decoding, StopsOnlyOnOwnFailure
  <1>9. DecodedOnReference
    BY <1>1, <1>2 DEF Init, DecodedOnReference, Fragments
  <1> QED BY <1>3, <1>4, <1>6, <1>7, <1>8, <1>9 DEF IInv

\* What a turn that goes on does with track t: it may select it, and prepares its
\* outputs with an init that is as encrypted as the track's payloads will be.
Turn(t, enc, bad) ==
  /\ idx' = idx + 1 /\ pc' = pc
  /\ sel' = Select(t)
  /\ DOMAIN cenc' = {"on", "info"}
  /\ \A m : m # t.name => (m \in cenc'.info <=> m \in cenc.info)
  /\ enc = IF t.protected /\ t.name \notin cenc'.info THEN {t.role} ELSE {}
  /\ \/ MayFail(t, enc, bad) /\ Prepare(t, enc, bad) /\ sel'[t.role] = t.name
     \/ UNCHANGED <<inits, locWriters, out, lost>> /\ sel'[t.role] # t.name

LEMMA CencFacts ==
  ASSUME NEW t, NEW decrypted \in BOOLEAN, t.name \notin cenc.info,
         DOMAIN cenc = {"on", "info"}, cenc' = CencAfter(t, decrypted), t.protected \/ decrypted
  PROVE  /\ DOMAIN cenc' = {"on", "info"}
         /\ \A m : m # t.name => (m \in cenc'.info <=> m \in cenc.info)
         /\ t.protected /\ t.name \notin cenc'.info <=> ~decrypted
  <1>1. CASE t.protected
    <2>1. cenc' = [on |-> TRUE, info |-> cenc.info \cup (IF decrypted THEN {t.name} ELSE {})]
      BY <1>1 DEF CencAfter
    <2>2. cenc'.info = cenc.info \cup (IF decrypted THEN {t.name} ELSE {})
      BY <2>1
    <2>3. DOMAIN cenc' = {"on", "info"}
      BY <2>1
    <2> QED BY <1>1, <2>2, <2>3
  <1>2. CASE ~t.protected
    BY <1>2 DEF CencAfter
  <1> QED BY <1>1, <1>2

LEMMA TurnOfTheLoop ==
  ASSUME TypeOK, SetUp, ConsiderTrack
  PROVE  /\ cfg' = cfg /\ overtaking' = overtaking
         /\ UNCHANGED <<todo, readers, next>>
         /\ pc = "tracks" /\ idx \in DOMAIN cfg.catalog /\ IsTrack(cfg.catalog[idx])
         /\ pc' \in {"tracks", "closed"} /\ faults' \in Nat
         /\ \/ SetupKept /\ out' = out /\ idx' = idx
            \/ \E enc, bad : Turn(cfg.catalog[idx], enc, bad)
  <1> DEFINE t == cfg.catalog[idx]
  <1>1. idx \in DOMAIN cfg.catalog
    BY CatalogDomain DEF TypeOK, ConsiderTrack
  <1>2. IsTrack(t)
    BY <1>1, TrackOfName DEF TypeOK
  <1>3. t.name \notin cenc.info
    BY <1>1, CurrentIsNew DEF SetUp, TypeOK
  <1>4. cfg' = cfg /\ overtaking' = overtaking /\ UNCHANGED <<todo, readers, next>> /\ pc = "tracks"
    BY DEF ConsiderTrack
  <1>5. CASE pc' = "closed" /\ UNCHANGED <<idx, setupVars, out>>
             /\ (NoFault \/ Fault(t.name))
    BY <1>1, <1>2, <1>4, <1>5 DEF SetupKept, NoFault, Fault, TypeOK
  <1>6. ASSUME NEW decrypted \in BOOLEAN, idx' = idx + 1, pc' = pc, sel' = Select(t),
               t.protected \/ decrypted, cenc' = CencAfter(t, decrypted),
               LET enc == IF t.protected /\ ~decrypted THEN {t.role} ELSE {}
               IN  IF sel'[t.role] = t.name
                   THEN \E bad \in SUBSET (OutNames \cup {"add"}) :
                          /\ MayFail(t, enc, bad) /\ Prepare(t, enc, bad)
                          /\ IF decrypted /\ bad = {} THEN NoFault ELSE Fault("set-up")
                   ELSE /\ UNCHANGED <<inits, locWriters, out, lost>>
                        /\ IF decrypted THEN NoFault ELSE Fault("set-up")
        PROVE  (\E enc, bad : Turn(t, enc, bad)) /\ faults' \in Nat
    <2> DEFINE enc == IF t.protected /\ ~decrypted THEN {t.role} ELSE {}
    <2>1. /\ DOMAIN cenc' = {"on", "info"}
          /\ \A m : m # t.name => (m \in cenc'.info <=> m \in cenc.info)
          /\ t.protected /\ t.name \notin cenc'.info <=> ~decrypted
      <3>1. DOMAIN cenc = {"on", "info"}
        BY DEF TypeOK
      <3> HIDE DEF t
      <3> QED BY <1>3, <1>6, <3>1, CencFacts
    <2>2. enc = IF t.protected /\ t.name \notin cenc'.info THEN {t.role} ELSE {}
      BY <1>6, <2>1
    <2> HIDE DEF enc
    <2>3. \E bad :
            \/ MayFail(t, enc, bad) /\ Prepare(t, enc, bad) /\ sel'[t.role] = t.name
            \/ UNCHANGED <<inits, locWriters, out, lost>> /\ sel'[t.role] # t.name
      BY <1>6 DEF enc
    <2>4. faults' \in Nat
      <3>1. NoFault \/ Fault("set-up")
        BY <1>6 DEF enc
      <3> QED BY <3>1 DEF NoFault, Fault, TypeOK
    <2>5. \E bad : Turn(t, enc, bad)
      BY <1>6, <2>1, <2>2, <2>3 DEF Turn
    <2> QED BY <2>4, <2>5
  <1>7. \/ pc' = "closed" /\ UNCHANGED <<idx, setupVars, out>> /\ (NoFault \/ Fault(t.name))
        \/ (\E enc, bad : Turn(t, enc, bad)) /\ faults' \in Nat /\ pc' = pc
    BY <1>6 DEF ConsiderTrack
  <1> QED BY <1>1, <1>2, <1>4, <1>5, <1>7 DEF Turn

\* A turn touches the track at idx only: what was selected before stays selected,
\* and is as encrypted as before.
LEMMA TurnFacts ==
  ASSUME TypeOK, SetUp, cfg' = cfg, idx \in DOMAIN cfg.catalog,
         NEW t, t = cfg.catalog[idx], NEW enc, NEW bad, Turn(t, enc, bad)
  PROVE  /\ StillEncrypted(t.name)' = enc
         /\ \A m : m # t.name => StillEncrypted(m)' = StillEncrypted(m)
         /\ \A m : Considered(m) => Considered(m)'
         /\ Considered(t.name)'
         /\ DOMAIN sel' = Roles
         /\ \A r \in Roles : r # t.role => sel'[r] = sel[r]
         /\ \/ sel'[t.role] = t.name /\ sel[t.role] = None
            \/ sel'[t.role] = sel[t.role] /\ sel'[t.role] # t.name
         /\ \A r \in Roles : sel[r] # None => /\ sel'[r] = sel[r] /\ sel[r] # t.name
                                              /\ StillEncrypted(sel[r])' = StillEncrypted(sel[r])
  <1>1. Track(t.name) = t /\ IsTrack(t)
    BY TrackOfName DEF TypeOK
  <1>2. \A m : Track(m)' = Track(m)
    BY DEF Track
  <1>3. StillEncrypted(t.name)' = enc
    BY <1>1, <1>2 DEF StillEncrypted, Turn
  <1>4. ASSUME NEW m, m # t.name
        PROVE  StillEncrypted(m)' = StillEncrypted(m)
    <2>1. m \in cenc'.info <=> m \in cenc.info
      BY <1>4 DEF Turn
    <2> QED BY <1>2, <2>1 DEF StillEncrypted
  <1>5. Considered(t.name)' /\ \A m : Considered(m) => Considered(m)'
    <2>1. idx' = idx + 1 /\ DOMAIN cfg.catalog \subseteq Nat /\ idx \in Nat
      BY CatalogDomain DEF Turn, TypeOK
    <2>2. Considered(t.name)'
      BY <2>1 DEF Considered
    <2>3. ASSUME NEW m, Considered(m) PROVE Considered(m)'
      <3>1. PICK i \in DOMAIN cfg.catalog : i < idx /\ cfg.catalog[i].name = m
        BY <2>3 DEF Considered
      <3> QED BY <2>1, <3>1 DEF Considered
    <2> QED BY <2>2, <2>3
  <1>6. \A r \in Roles : sel[r] # None => sel[r] # t.name
    BY CurrentIsNew DEF SetUp, TypeOK
  <1>7. t.role \in Roles /\ t.name # None
    BY <1>1 DEF IsTrack
  <1>8. /\ DOMAIN sel' = Roles
        /\ \A r \in Roles : r # t.role => sel'[r] = sel[r]
        /\ \/ sel'[t.role] = t.name /\ sel[t.role] = None
           \/ sel'[t.role] = sel[t.role] /\ sel'[t.role] # t.name
    <2>1. sel' = IF sel[t.role] = None /\ Matches(t) THEN [sel EXCEPT ![t.role] = t.name] ELSE sel
      BY DEF Turn, Select
    <2>2. DOMAIN sel = Roles
      BY DEF TypeOK
    <2> QED BY <1>6, <1>7, <2>1, <2>2
  <1>9. \A r \in Roles : sel[r] # None => sel'[r] = sel[r]
    BY <1>8
  <1> QED BY <1>3, <1>4, <1>5, <1>6, <1>8, <1>9

\* The inits that a prepared track adds to the mux.
LEMMA PreparedInits ==
  ASSUME NEW t, NEW enc, NEW bad, Prepare(t, enc, bad), t.packaging # "loc"
  PROVE  /\ InMux(t) /\ "add" \notin bad =>
              /\ DOMAIN inits' = DOMAIN inits \cup {t.role}
              /\ inits'[t.role] = enc
              /\ \A r \in DOMAIN inits : r # t.role => inits'[r] = inits[r]
         /\ "add" \notin bad => inits' = AddInit(t, enc)
         /\ ~InMux(t) \/ "add" \in bad => inits' = inits
  <1>1. inits' = IF "add" \in bad THEN inits ELSE AddInit(t, enc)
    BY DEF Prepare
  <1>2. CASE InMux(t) /\ "add" \notin bad
    <2>1. inits' = Put(inits, t.role, enc)
      BY <1>1, <1>2 DEF AddInit
    <2>2. /\ DOMAIN Put(inits, t.role, enc) = DOMAIN inits \cup {t.role}
          /\ Put(inits, t.role, enc)[t.role] = enc
          /\ \A r \in DOMAIN inits : r # t.role => Put(inits, t.role, enc)[r] = inits[r]
      BY DEF Put
    <2> QED BY <1>1, <1>2, <2>1, <2>2
  <1>3. CASE ~(InMux(t) /\ "add" \notin bad)
    BY <1>1, <1>3 DEF AddInit
  <1> QED BY <1>1, <1>2, <1>3

LEMMA SetUpTurn ==
  ASSUME TypeOK, SetUp, cfg' = cfg, idx \in DOMAIN cfg.catalog,
         NEW t, t = cfg.catalog[idx], NEW enc, NEW bad, Turn(t, enc, bad)
  PROVE  SetUp'
  <1>1. Track(t.name) = t /\ IsTrack(t)
    BY TrackOfName DEF TypeOK
  <1>2. \A m : Track(m)' = Track(m)
    BY DEF Track
  <1>3. ASSUME NEW r \in Roles, sel'[r] # None
        PROVE  Considered(sel[r])' /\ Track(sel'[r]).role = r
    <2>1. CASE sel'[r] = sel[r]
      BY <1>3, <2>1, TurnFacts DEF SetUp
    <2>2. CASE sel'[r] # sel[r]
      <3>1. r = t.role /\ sel'[r] = t.name
        BY <2>2, TurnFacts
      <3> QED BY <1>1, <3>1, TurnFacts
    <2> QED BY <2>1, <2>2
  <1>4. ASSUME NEW m \in cenc'.info
        PROVE  Considered(m)'
    <2>1. CASE m = t.name
      BY <2>1, TurnFacts
    <2>2. CASE m # t.name
      <3>1. m \in cenc.info
        BY <1>4, <2>2 DEF Turn
      <3> QED BY <3>1, TurnFacts DEF SetUp
    <2> QED BY <2>1, <2>2
  <1>5. DOMAIN inits \subseteq MuxRoles /\ MuxRoles \subseteq Roles
    BY DEF SetUp, MuxRoles, Roles
  <1>6. ASSUME NEW r \in DOMAIN inits
        PROVE  /\ "mux" \in cfg.outs /\ sel'[r] # None /\ Track(sel'[r]).packaging # "loc"
               /\ inits[r] = StillEncrypted(sel[r])'
               /\ sel[r] # None
    <2>1. /\ "mux" \in cfg.outs /\ sel[r] # None /\ Track(sel[r]).packaging # "loc"
          /\ inits[r] = StillEncrypted(sel[r])
      BY <1>6 DEF SetUp
    <2>2. sel'[r] = sel[r] /\ StillEncrypted(sel[r])' = StillEncrypted(sel[r])
      BY <1>5, <2>1, TurnFacts
    <2>3. StillEncrypted(sel[r])' = StillEncrypted(sel[r])'
      BY <2>2 DEF StillEncrypted, Track
    <2> QED BY <2>1, <2>2, <2>3
  <1>7. /\ DOMAIN inits' \subseteq MuxRoles
        /\ \A r \in DOMAIN inits' :
             /\ "mux" \in cfg.outs /\ sel'[r] # None /\ Track(sel'[r]).packaging # "loc"
             /\ inits'[r] = StillEncrypted(sel[r])'
    <2>1. CASE inits' = inits
      BY <1>5, <1>6, <2>1
    <2>2. CASE inits' # inits
      <3>1. Prepare(t, enc, bad) /\ t.packaging # "loc" /\ sel'[t.role] = t.name
        BY <2>2 DEF Turn, Prepare
      <3>2. /\ "mux" \in cfg.outs /\ t.role \in MuxRoles
            /\ DOMAIN inits' = DOMAIN inits \cup {t.role}
            /\ inits'[t.role] = enc
            /\ \A r \in DOMAIN inits : r # t.role => inits'[r] = inits[r]
        BY <2>2, <3>1, PreparedInits DEF InMux
      <3>3. StillEncrypted(t.name)' = enc /\ t.name # None
        BY <1>1, TurnFacts DEF IsTrack
      <3>4. StillEncrypted(sel[t.role])' = enc
        BY <3>1, <3>3 DEF StillEncrypted, Track
      <3> QED BY <1>1, <1>5, <1>6, <3>1, <3>2, <3>3, <3>4
    <2> QED BY <2>1, <2>2
  <1> QED BY <1>2, <1>3, <1>4, <1>7 DEF SetUp

\* A turn that could not write the combined init has given the mux its init.
LEMMA LostTurn ==
  ASSUME TypeOK, SetUp, cfg' = cfg, idx \in DOMAIN cfg.catalog,
         NEW t, t = cfg.catalog[idx], NEW enc, NEW bad, Turn(t, enc, bad)
  PROVE  /\ lost \subseteq lost'
         /\ "mux" \in lost' /\ "mux" \notin lost => inits' # inits /\ Combined(inits')
  <1>1. CASE lost' = lost
    BY <1>1
  <1>2. CASE lost' # lost
    <2>1. /\ Prepare(t, enc, bad) /\ MayFail(t, enc, bad) /\ sel'[t.role] = t.name
          /\ t.packaging # "loc" /\ lost' = lost \cup (bad \cap cfg.outs)
      BY <1>2 DEF Turn, Prepare
    <2>2. ASSUME "mux" \in bad
          PROVE  inits' # inits /\ Combined(inits')
      <3>1. "add" \notin bad /\ Combined(AddInit(t, enc))
        BY <2>1, <2>2 DEF MayFail
      <3>2. InMux(t)
        <4>1. t.role # "mux"
          BY TrackOfName DEF TypeOK, IsTrack, Roles
        <4> QED BY <2>1, <2>2, <4>1 DEF MayFail
      <3>3. inits' = AddInit(t, enc) /\ t.role \in DOMAIN inits'
        BY <2>1, <3>1, <3>2, PreparedInits
      <3>4. t.role \notin DOMAIN inits
        <4>1. sel[t.role] = None
          BY <2>1, TurnFacts
        <4> QED BY <4>1 DEF SetUp
      <3> QED BY <3>1, <3>3, <3>4
    <2> QED BY <2>1, <2>2
  <1> QED BY <1>1, <1>2

\* What the outputs of a role hold after a turn, when the turn wrote no init.
LEMMA OwnOutputKept ==
  ASSUME TypeOK, SetUp, cfg' = cfg, idx \in DOMAIN cfg.catalog,
         NEW t, t = cfg.catalog[idx], NEW enc, NEW bad, Turn(t, enc, bad), lost \subseteq lost',
         NEW w \in cfg.outs \cap Roles, OwnOutput(w), out'[w] = out[w],
         sel'[w] = t.name => t.packaging = "loc" \/ w \in lost'
  PROVE  OwnOutput(w)'
  <1>1. Track(t.name) = t /\ IsTrack(t) /\ \A m : Track(m)' = Track(m)
    <2>1. Track(t.name) = t /\ IsTrack(t)
      BY TrackOfName DEF TypeOK
    <2>2. \A m : Track(m)' = Track(m)
      BY DEF Track
    <2> QED BY <2>1, <2>2
  <1>2. CASE sel[w] # None
    <2>1. sel'[w] = sel[w] /\ StillEncrypted(sel[w])' = StillEncrypted(sel[w])
      BY <1>2, TurnFacts
    <2>2. OwnInit(w)' = OwnInit(w)
      BY <2>1 DEF OwnInit
    <2> QED BY <1>1, <1>2, <2>1, <2>2 DEF OwnOutput
  <1>3. CASE sel[w] = None
    <2>1. DOMAIN out[w] = {}
      BY <1>3 DEF OwnOutput
    <2>2. sel'[w] # None => w = t.role /\ sel'[w] = t.name
      BY <1>3, TurnFacts
    <2> QED BY <1>1, <2>1, <2>2 DEF OwnOutput
  <1> QED BY <1>2, <1>3

\* The init of a track that has just been selected is the first piece of its output.
LEMMA OwnOutputStarted ==
  ASSUME TypeOK, SetUp, cfg' = cfg, idx \in DOMAIN cfg.catalog,
         NEW t, t = cfg.catalog[idx], NEW enc, NEW bad, Turn(t, enc, bad),
         t.role \in cfg.outs \cap Roles, OwnOutput(t.role), sel'[t.role] = t.name,
         out'[t.role] = Append(out[t.role], InitPiece(t.name, {t.role}, enc))
  PROVE  OwnOutput(t.role)'
  <1> DEFINE w == t.role
             p == InitPiece(t.name, {w}, enc)
  <1>1. sel[w] = None
    BY TurnFacts
  <1>2. DOMAIN out[w] = {} /\ IsSequence(out[w])
    BY <1>1 DEF OwnOutput, TypeOK
  <1>3. out[w] = <<>>
    BY <1>2, SequenceDomain
  <1>4. out'[w] # <<>> /\ out'[w][1] = p /\ DOMAIN out'[w] = {1}
    BY <1>2, <1>3, AppendFacts
  <1>5. OwnInit(w)' = p
    <2>1. StillEncrypted(sel[w])' = enc
      BY TurnFacts
    <2> QED BY <2>1 DEF OwnInit
  <1>6. t.name # None
    BY TrackOfName DEF TypeOK, IsTrack
  <1> HIDE DEF p
  <1> QED BY <1>4, <1>5, <1>6 DEF OwnOutput

\* A turn that adds no init to the mux leaves the combined output alone.
LEMMA MuxOutputKept ==
  ASSUME TypeOK, SetUp, cfg' = cfg, idx \in DOMAIN cfg.catalog,
         NEW t, t = cfg.catalog[idx], NEW enc, NEW bad, Turn(t, enc, bad), MuxOutput,
         out'["mux"] = out["mux"], inits' = inits, "mux" \in lost' <=> "mux" \in lost
  PROVE  MuxOutput'
  <1>1. Combined(inits)' <=> Combined(inits)
    BY DEF Combined
  <1>2. CASE Combined(inits)
    <2>1. \A r \in MuxRoles : sel'[r] = sel[r] /\ StillEncrypted(sel[r])' = StillEncrypted(sel[r])
      <3>1. \A r \in MuxRoles : r \in Roles /\ sel[r] # None
        BY <1>2 DEF Combined, SetUp, MuxRoles, Roles
      <3> QED BY <3>1, TurnFacts
    <2> QED BY <1>1, <1>2, <2>1 DEF MuxOutput
  <1>3. CASE ~Combined(inits)
    BY <1>1, <1>3 DEF MuxOutput
  <1> QED BY <1>2, <1>3

\* A turn that adds an init to the mux writes the combined init when it is the
\* second one, and nothing before that.
LEMMA MuxOutputStarted ==
  ASSUME TypeOK, SetUp, MuxOutput, "mux" \in cfg.outs, cfg' = cfg,
         ~Combined(inits), "mux" \in lost' => Combined(inits'),
         out'["mux"] = IF Combined(inits') /\ "mux" \notin lost'
                       THEN Append(out["mux"],
                                   InitPiece("mux", MuxRoles, UNION {inits'[r] : r \in MuxRoles}))
                       ELSE out["mux"]
  PROVE  MuxOutput'
  <1> DEFINE p == InitPiece("mux", MuxRoles, UNION {inits'[r] : r \in MuxRoles})
  <1>1. out["mux"] = <<>> /\ IsSequence(out["mux"])
    BY DEF MuxOutput, TypeOK
  <1>2. Combined(inits)' <=> Combined(inits')
    BY DEF Combined
  <1>3. CASE Combined(inits') /\ "mux" \notin lost'
    <2>1. out'["mux"] # <<>> /\ out'["mux"][1] = p /\ DOMAIN out'["mux"] = {1}
      BY <1>1, <1>3, AppendFacts
    <2>2. \A i \in DOMAIN out'["mux"] : ~(i > 1)
      BY <2>1
    <2> QED BY <1>2, <1>3, <2>1, <2>2 DEF MuxOutput
  <1>4. CASE ~(Combined(inits') /\ "mux" \notin lost')
    <2>1. out'["mux"] = <<>> /\ DOMAIN out'["mux"] = {}
      BY <1>1, <1>4, SequenceDomain
    <2> QED BY <1>2, <1>4, <2>1 DEF MuxOutput
  <1> QED BY <1>3, <1>4

LEMMA OutputsTurn ==
  ASSUME TypeOK, SetUp, Outputs, cfg' = cfg, idx \in DOMAIN cfg.catalog,
         NEW t, t = cfg.catalog[idx], NEW enc, NEW bad, Turn(t, enc, bad)
  PROVE  Outputs'
  <1> SUFFICES ASSUME ~cfg.moqmi
               PROVE  /\ \A w \in cfg.outs \cap Roles : OwnOutput(w)'
                      /\ "mux" \in cfg.outs => MuxOutput'
    BY DEF Outputs
  <1>0. /\ lost \subseteq lost'
        /\ "mux" \in lost' /\ "mux" \notin lost => inits' # inits /\ Combined(inits')
    BY LostTurn
  <1>1. /\ \A w \in cfg.outs \cap Roles : OwnOutput(w)
        /\ "mux" \in cfg.outs => MuxOutput
    BY DEF Outputs
  <1>2. IsTrack(t)
    BY TrackOfName DEF TypeOK
  <1>3. DOMAIN out = cfg.outs /\ \A w \in cfg.outs : IsSequence(out[w])
    BY DEF TypeOK
  <1>4. CASE /\ out' = out /\ inits' = inits
             /\ sel'[t.role] = t.name => t.packaging = "loc"
    <2>1. ASSUME NEW w \in cfg.outs \cap Roles
          PROVE  sel'[w] = t.name => t.packaging = "loc"
      <3>1. sel'[w] = t.name => w = t.role
        BY <1>2, TurnFacts DEF IsTrack
      <3> QED BY <1>4, <3>1
    <2>2. \A w \in cfg.outs \cap Roles : OwnOutput(w)'
      BY <1>0, <1>1, <1>4, <2>1, OwnOutputKept
    <2>3. "mux" \in cfg.outs => MuxOutput'
      BY <1>0, <1>1, <1>4, MuxOutputKept
    <2> QED BY <2>2, <2>3
  <1>5. CASE Prepare(t, enc, bad) /\ sel'[t.role] = t.name /\ t.packaging # "loc"
    <2> DEFINE own == IF t.role \in cfg.outs \ bad
                      THEN Write(out, t.role, InitPiece(t.name, {t.role}, enc)) ELSE out
               both == InitPiece("mux", MuxRoles, UNION {inits'[r] : r \in MuxRoles})
    <2>1. out' = MuxInit(own, inits', bad) /\ lost' = lost \cup (bad \cap cfg.outs)
      BY <1>5 DEF Prepare
    <2>2. t.role \in Roles /\ "mux" \notin Roles /\ MuxRoles \subseteq Roles
      BY <1>2 DEF IsTrack, Roles, MuxRoles
    <2>3. /\ DOMAIN own = cfg.outs
          /\ \A w \in cfg.outs : w # t.role => own[w] = out[w]
          /\ t.role \in cfg.outs \ bad =>
               own[t.role] = Append(out[t.role], InitPiece(t.name, {t.role}, enc))
          /\ t.role \in cfg.outs /\ t.role \in bad => own[t.role] = out[t.role]
      <3> HIDE DEF both
      <3>1. CASE t.role \in cfg.outs \ bad
        <4>1. own = [out EXCEPT ![t.role] = Append(@, InitPiece(t.name, {t.role}, enc))]
          BY <3>1 DEF Write
        <4> HIDE DEF own
        <4> QED BY <1>3, <3>1, <4>1
      <3>2. CASE t.role \notin cfg.outs \ bad
        BY <1>3, <3>2
      <3> QED BY <3>1, <3>2
    <2>4. sel[t.role] = None
      BY <1>5, TurnFacts
    <2>5. t.role \notin DOMAIN inits
      BY <2>4 DEF SetUp
    <2>6. (inits' # inits) => "mux" \in cfg.outs /\ t.role \in MuxRoles /\ ~Combined(inits)
      BY <1>5, <2>5, PreparedInits DEF Combined, InMux
    <2> HIDE DEF own
    <2>7. \A w \in cfg.outs \cap Roles : out'[w] = own[w]
      <3>1. CASE inits' # inits /\ Combined(inits') /\ "mux" \notin bad
        <4>1. out' = Write(own, "mux", both)
          BY <2>1, <3>1 DEF MuxInit
        <4> HIDE DEF both
        <4> QED BY <2>2, <2>3, <4>1 DEF Write
      <3>2. CASE ~(inits' # inits /\ Combined(inits') /\ "mux" \notin bad)
        <4>1. out' = own
          BY <2>1, <3>2 DEF MuxInit
        <4> QED BY <4>1
      <3> QED BY <3>1, <3>2
    <2>8. "mux" \in cfg.outs => out'["mux"] =
            IF inits' # inits /\ Combined(inits') /\ "mux" \notin bad
            THEN Append(out["mux"], both) ELSE out["mux"]
      <3>1. "mux" \in cfg.outs => own["mux"] = out["mux"]
        BY <2>2, <2>3
      <3>2. CASE inits' # inits /\ Combined(inits') /\ "mux" \notin bad
        <4>1. out' = Write(own, "mux", both)
          BY <2>1, <3>2 DEF MuxInit
        <4> HIDE DEF both
        <4> QED BY <2>3, <3>1, <3>2, <4>1 DEF Write
      <3>3. CASE ~(inits' # inits /\ Combined(inits') /\ "mux" \notin bad)
        <4>1. out' = own
          BY <2>1, <3>3 DEF MuxInit
        <4> HIDE DEF both
        <4> QED BY <3>1, <3>3, <4>1
      <3> QED BY <3>2, <3>3
    <2>9. ASSUME NEW w \in cfg.outs \cap Roles
          PROVE  OwnOutput(w)'
      <3>1. CASE w = t.role /\ w \notin bad
        BY <1>1, <1>5, <2>2, <2>3, <2>7, <3>1, OwnOutputStarted
      <3>3. CASE w = t.role /\ w \in bad
        <4>1. out'[w] = out[w] /\ w \in lost'
          BY <2>1, <2>3, <2>7, <3>3
        <4> QED BY <1>0, <1>1, <4>1, OwnOutputKept
      <3>2. CASE w # t.role
        <4>1. out'[w] = out[w] /\ sel'[w] # t.name
          <5>1. out'[w] = out[w]
            BY <2>3, <2>7, <3>2
          <5>2. sel'[w] = sel[w]
            BY <3>2, TurnFacts
          <5>3. sel[w] # t.name
            BY <1>2, TurnFacts DEF IsTrack
          <5> QED BY <5>1, <5>2, <5>3
        <4> QED BY <1>0, <1>1, <4>1, OwnOutputKept
      <3> QED BY <3>1, <3>2, <3>3
    <2>10. ASSUME "mux" \in cfg.outs
           PROVE  MuxOutput'
      <3>1. CASE inits' = inits
        <4>1. out'["mux"] = out["mux"]
          BY <2>8, <2>10, <3>1
        <4> QED BY <1>0, <1>1, <2>10, <3>1, <4>1, MuxOutputKept
      <3>2. CASE inits' # inits
        <4>0. "mux" \notin lost /\ ("mux" \in lost' <=> "mux" \in bad)
          BY <1>1, <2>1, <2>6, <2>10, <3>2 DEF MuxOutput
        <4>1. out'["mux"] = IF Combined(inits') /\ "mux" \notin lost'
                            THEN Append(out["mux"], both) ELSE out["mux"]
          BY <2>8, <2>10, <3>2, <4>0
        <4> QED BY <1>0, <1>1, <2>6, <2>10, <3>2, <4>0, <4>1, MuxOutputStarted
      <3> QED BY <3>1, <3>2
    <2> QED BY <2>9, <2>10
  <1>6. CASE Prepare(t, enc, bad) /\ sel'[t.role] = t.name /\ t.packaging = "loc"
    <2>1. out' = out /\ inits' = inits
      BY <1>6 DEF Prepare
    <2> QED BY <1>4, <1>6, <2>1
  <1> QED BY <1>4, <1>5, <1>6 DEF Turn

\* Outputs remain sequences when one of them is written.
AllSequences(o) == DOMAIN o = cfg.outs /\ \A w \in cfg.outs : IsSequence(o[w])

LEMMA WriteSequences ==
  ASSUME NEW o, AllSequences(o), NEW w \in cfg.outs, NEW p
  PROVE  AllSequences(Write(o, w, p))
  <1> DEFINE q == Write(o, w, p)
  <1>1. DOMAIN o = cfg.outs /\ \A v \in cfg.outs : IsSequence(o[v])
    BY DEF AllSequences
  <1>2. DOMAIN q = cfg.outs /\ q[w] = Append(o[w], p) /\ \A v \in cfg.outs : v # w => q[v] = o[v]
    BY <1>1 DEF Write
  <1>3. IsSequence(Append(o[w], p))
    BY <1>1, AppendFacts
  <1> HIDE DEF q
  <1>4. \A v \in cfg.outs : IsSequence(q[v])
    BY <1>1, <1>2, <1>3
  <1> QED BY <1>2, <1>4 DEF AllSequences, q

\* Every fragment in the outputs was decoded on the right reference.
GoodOutputs(o) == \A w \in DOMAIN o : \A i \in DOMAIN o[w] : IsFrag(o[w][i]) => o[w][i].good

LEMMA WriteGood ==
  ASSUME NEW o, AllSequences(o), GoodOutputs(o), NEW w \in cfg.outs, NEW p, IsFrag(p) => p.good
  PROVE  GoodOutputs(Write(o, w, p))
  <1> DEFINE q == Write(o, w, p)
  <1>1. DOMAIN o = cfg.outs /\ IsSequence(o[w])
    BY DEF AllSequences
  <1>2. DOMAIN q = DOMAIN o /\ q[w] = Append(o[w], p) /\ \A v \in DOMAIN o : v # w => q[v] = o[v]
    BY <1>1 DEF Write
  <1>3. /\ DOMAIN Append(o[w], p) = DOMAIN o[w] \cup {Len(o[w]) + 1}
        /\ \A i \in DOMAIN o[w] : Append(o[w], p)[i] = o[w][i]
        /\ Append(o[w], p)[Len(o[w]) + 1] = p
    BY <1>1, AppendFacts
  <1> HIDE DEF q
  <1>4. ASSUME NEW v \in DOMAIN o, NEW i \in DOMAIN q[v], IsFrag(q[v][i])
        PROVE  q[v][i].good
    <2>1. CASE v # w
      BY <1>2, <1>4, <2>1 DEF GoodOutputs
    <2>2. CASE v = w /\ i \in DOMAIN o[w]
      <3>1. q[v][i] = o[w][i]
        BY <1>2, <1>3, <2>2
      <3> QED BY <1>4, <2>2, <3>1 DEF GoodOutputs
    <2>3. CASE v = w /\ i \notin DOMAIN o[w]
      <3>1. q[v][i] = p
        BY <1>2, <1>3, <1>4, <2>3
      <3> QED BY <1>4, <3>1
    <2> QED BY <2>1, <2>2, <2>3
  <1> QED BY <1>2, <1>4 DEF GoodOutputs, q

\* DecodedOnReference in these words.
LEMMA DecodedOnReferenceAsGood ==
  DecodedOnReference <=>
    (~overtaking =>
       /\ GoodOutputs(out)
       /\ cfg.moqmi =>
            \A n \in DOMAIN readers \ failed :
              readers[n].piece # <<>> =>
                LET p == readers[n].piece[1]
                IN  p.gap = IF p.group = 0 /\ p.object = 0 THEN 0 ELSE 1)
  BY DEF DecodedOnReference, GoodOutputs, Fragments

LEMMA TypeTurn ==
  ASSUME TypeOK, SetUp, cfg' = cfg, idx \in DOMAIN cfg.catalog,
         NEW t, t = cfg.catalog[idx], NEW enc, NEW bad, Turn(t, enc, bad)
  PROVE  /\ locWriters' \subseteq Roles \cap cfg.outs
         /\ AllSequences(out')
         /\ GoodOutputs(out) => GoodOutputs(out')
  <1>1. IsTrack(t)
    BY TrackOfName DEF TypeOK
  <1>2. AllSequences(out) /\ locWriters \subseteq Roles \cap cfg.outs
    BY DEF TypeOK, AllSequences
  <1>3. CASE UNCHANGED <<inits, locWriters, out, lost>>
    BY <1>2, <1>3
  <1>4. CASE Prepare(t, enc, bad) /\ t.packaging = "loc"
    <2>1. out' = out
      BY <1>4 DEF Prepare
    <2>2. locWriters' \subseteq locWriters \cup ({t.role} \cap cfg.outs)
      BY <1>4 DEF Prepare
    <2> QED BY <1>1, <1>2, <2>1, <2>2 DEF IsTrack
  <1>5. CASE Prepare(t, enc, bad) /\ t.packaging # "loc"
    <2> DEFINE own == IF t.role \in cfg.outs \ bad
                      THEN Write(out, t.role, InitPiece(t.name, {t.role}, enc)) ELSE out
               both == InitPiece("mux", MuxRoles, UNION {inits'[r] : r \in MuxRoles})
    <2>1. out' = MuxInit(own, inits', bad) /\ locWriters' = locWriters
      BY <1>5 DEF Prepare
    <2>2. AllSequences(own) /\ (GoodOutputs(out) => GoodOutputs(own))
      <3> DEFINE p == InitPiece(t.name, {t.role}, enc)
      <3>1. ~IsFrag(p)
        BY DEF IsFrag, InitPiece
      <3> HIDE DEF p
      <3>2. CASE t.role \in cfg.outs \ bad
        <4>1. own = Write(out, t.role, p)
          BY <3>2 DEF p
        <4> QED BY <1>2, <3>1, <3>2, <4>1, WriteSequences, WriteGood
      <3>3. CASE t.role \notin cfg.outs \ bad
        BY <1>2, <3>3
      <3> QED BY <3>2, <3>3
    <2> HIDE DEF own
    <2>3. out' \in {own, Write(own, "mux", both)}
      BY <2>1 DEF MuxInit
    <2>4. inits' # inits => "mux" \in cfg.outs
      BY <1>5, PreparedInits DEF InMux
    <2>5. CASE out' = own
      BY <1>2, <2>1, <2>2, <2>5
    <2>6. CASE out' # own
      <3>1. "mux" \in cfg.outs
        BY <2>1, <2>4, <2>6 DEF MuxInit
      <3>2. ~IsFrag(both)
        BY DEF IsFrag, InitPiece
      <3> HIDE DEF both
      <3> QED BY <1>2, <2>1, <2>2, <2>3, <2>6, <3>1, <3>2, WriteSequences, WriteGood
    <2> QED BY <2>5, <2>6
  <1> QED BY <1>3, <1>4, <1>5 DEF Turn

LEMMA ConsiderTrackStep ==
  ASSUME IInv, ConsiderTrack, failed \subseteq failed'
  PROVE  IInv'
  <1>1. TypeOK /\ SetUp /\ Outputs /\ Subscribed /\ DecodedOnReference
    BY DEF IInv
  <1>2. /\ cfg' = cfg /\ overtaking' = overtaking
        /\ UNCHANGED <<todo, readers, next>>
        /\ pc = "tracks" /\ idx \in DOMAIN cfg.catalog /\ IsTrack(cfg.catalog[idx])
        /\ pc' \in {"tracks", "closed"} /\ faults' \in Nat
        /\ \/ SetupKept /\ out' = out /\ idx' = idx
           \/ \E enc, bad : Turn(cfg.catalog[idx], enc, bad)
    BY <1>1, TurnOfTheLoop
  <1>3. DOMAIN readers = {} /\ DOMAIN next = {} /\ todo = <<>> /\ DOMAIN todo = {}
    BY <1>1, <1>2, EmptySequence DEF Subscribed, TypeOK
  <1>4. Subscribed' /\ Decoding' /\ StopsOnlyOnOwnFailure'
    BY <1>1, <1>2, <1>3 DEF Subscribed, Decoding, StopsOnlyOnOwnFailure
  <1>5. CASE SetupKept /\ out' = out /\ idx' = idx
    <2>1. /\ cfg' = cfg /\ sel' = sel /\ cenc' = cenc /\ inits' = inits /\ locWriters' = locWriters
      BY <1>5 DEF SetupKept, setupVars
    <2>2. TypeOK'
      BY <1>1, <1>2, <1>3, <1>5, <2>1 DEF TypeOK
    <2>3. \A n : Considered(n)' <=> Considered(n)
      BY <1>5, <2>1 DEF Considered
    <2>4. SetUp'
      BY <1>1, <1>5, <2>1, <2>3, SetupKeptFacts DEF SetUp
    <2>5. Outputs'
      <3>1. \A w \in cfg.outs \cap Roles : OwnOutput(w) => OwnOutput(w)'
        BY <1>5, <2>1, SetupKeptFacts DEF OwnOutput
      <3>2. MuxOutput => MuxOutput'
        BY <1>5, <2>1, SetupKeptFacts DEF MuxOutput
      <3> QED BY <1>1, <2>1, <3>1, <3>2 DEF Outputs
    <2>6. DecodedOnReference'
      BY <1>1, <1>2, <1>3, <1>5 DEF DecodedOnReference, Fragments
    <2> QED BY <1>4, <2>2, <2>4, <2>5, <2>6 DEF IInv
  <1>6. ASSUME NEW enc, NEW bad, Turn(cfg.catalog[idx], enc, bad)
        PROVE  IInv'
    <2> DEFINE t == cfg.catalog[idx]
    <2>1. SetUp' /\ Outputs'
      BY <1>1, <1>2, <1>6, SetUpTurn, OutputsTurn
    <2>2. TypeOK'
      <3>1. locWriters' \subseteq Roles \cap cfg.outs /\ AllSequences(out')
        BY <1>1, <1>2, <1>6, TypeTurn
      <3>2. DOMAIN sel' = Roles
        BY <1>1, <1>2, <1>6, TurnFacts
      <3>3. DOMAIN cenc' = {"on", "info"} /\ idx' = idx + 1
        BY <1>6 DEF Turn
      <3> QED BY <1>1, <1>2, <1>3, <3>1, <3>2, <3>3 DEF TypeOK, AllSequences
    <2>3. DecodedOnReference'
      <3>1. GoodOutputs(out) => GoodOutputs(out')
        BY <1>1, <1>2, <1>6, TypeTurn
      <3>2. GoodOutputs(out)' <=> GoodOutputs(out')
        BY DEF GoodOutputs
      <3>3. ~overtaking => GoodOutputs(out)
        BY <1>1, DecodedOnReferenceAsGood
      <3>4. ~overtaking' => GoodOutputs(out)'
        BY <1>2, <3>1, <3>2, <3>3
      <3> QED BY <1>2, <1>3, <3>4 DEF DecodedOnReference, GoodOutputs, Fragments
    <2> QED BY <1>4, <2>1, <2>2, <2>3 DEF IInv
  <1> QED BY <1>2, <1>5, <1>6

-----------------------------------------------------------------------------
(***************************************************************************)
(* The invariant, reader by reader.                                        *)
(***************************************************************************)

ReaderType(n) ==
  /\ DOMAIN readers[n] = {"media", "pc", "state", "last", "piece"}
  /\ readers[n].pc \in {"read", "loc", "mux", "encode", "out", "ended", "panic"}
  /\ next[n] \in [Groups -> 0..(LastObject + 1)]

GapReported(n) ==
  cfg.moqmi /\ n \notin failed /\ readers[n].piece # <<>> =>
    LET p == readers[n].piece[1] IN p.gap = IF p.group = 0 /\ p.object = 0 THEN 0 ELSE 1

InOrder(n) ==
  /\ ReadInOrder(n) /\ Remembered(n) /\ GapReported(n)
  /\ InHand(n) => readers[n].piece[1].good

MayStand(n) ==
  readers[n].pc = "ended" =>
    \/ n \in failed \/ pc \in {"closed", "panic"}
    \/ overtaking /\ Track(n).packaging = "locmaf"

ReaderOK(n) == ReaderType(n) /\ Holding(n) /\ (~overtaking => InOrder(n)) /\ MayStand(n)

\* What concerns handle and the outputs.
HandleOK ==
  /\ cfg \in Configs
  /\ pc \in {"session", "tracks", "subscribe", "moqmi", "playing", "closed", "panic"}
  /\ idx \in Nat \ {0}
  /\ DOMAIN sel = Roles /\ DOMAIN cenc = {"on", "info"}
  /\ locWriters \subseteq Roles \cap cfg.outs
  /\ IsSequence(todo) /\ faults \in Nat
  /\ pc = "moqmi" => cfg.moqmi
  /\ pc \in {"session", "tracks"} => DOMAIN readers = {} /\ todo = <<>>
  /\ \A i \in DOMAIN todo : MayRead(todo[i].name, todo[i].media)
  /\ SetUp

OutputsOK ==
  /\ Outputs
  /\ DOMAIN out = cfg.outs /\ \A w \in cfg.outs : IsSequence(out[w])
  /\ ~overtaking => GoodOutputs(out)

ReadersOK == DOMAIN next = DOMAIN readers /\ \A n \in DOMAIN readers : ReaderOK(n)

LEMMA Parts == IInv <=> HandleOK /\ OutputsOK /\ ReadersOK
  <1>1. TypeOK /\ Subscribed /\ SetUp /\ Outputs
          <=> /\ HandleOK /\ Outputs /\ DOMAIN out = cfg.outs /\ \A w \in cfg.outs : IsSequence(out[w])
              /\ DOMAIN next = DOMAIN readers
              /\ \A n \in DOMAIN readers : ReaderType(n) /\ Holding(n)
    BY DEF TypeOK, Subscribed, HandleOK, ReaderType
  <1>2. Decoding /\ DecodedOnReference
          <=> (~overtaking => GoodOutputs(out) /\ \A n \in DOMAIN readers : InOrder(n))
    BY DEF Decoding, DecodedOnReference, InOrder, GapReported, GoodOutputs, Fragments
  <1>3. StopsOnlyOnOwnFailure <=> \A n \in DOMAIN readers : MayStand(n)
    BY DEF StopsOnlyOnOwnFailure, MayStand
  <1> QED BY <1>1, <1>2, <1>3 DEF IInv, OutputsOK, ReadersOK, ReaderOK

\* A reader that is left alone.
LEMMA OtherReader ==
  ASSUME SetupKept, failed \subseteq failed', NEW n, ReaderOK(n),
         readers'[n] = readers[n], next'[n] = next[n],
         pc \in {"closed", "panic"} => pc' \in {"closed", "panic"}
  PROVE  ReaderOK(n)'
  <1>1. /\ cfg' = cfg /\ overtaking' = overtaking /\ sel' = sel /\ cenc' = cenc
        /\ inits' = inits /\ locWriters' = locWriters
    BY DEF SetupKept, setupVars
  <1>2. ReaderType(n)'
    BY DEF ReaderOK, ReaderType
  <1>3. Holding(n)'
    BY <1>1, SetupKeptFacts DEF ReaderOK, Holding, InHand
  <1>4. InOrder(n) => InOrder(n)'
    BY <1>1 DEF InOrder, ReadInOrder, Remembered, GapReported, InHand
  <1>5. MayStand(n)'
    BY <1>1, SetupKeptFacts DEF ReaderOK, MayStand
  <1> QED BY <1>1, <1>2, <1>3, <1>4, <1>5 DEF ReaderOK

\* A reader that has just started.
LEMMA NewReaderOK ==
  ASSUME SetupKept, cfg \in Configs, NEW n, NEW media, ~cfg.moqmi => MayRead(n, media),
         readers'[n] = NewReader(media), next'[n] = [g \in Groups |-> 0]
  PROVE  ReaderOK(n)'
  <1>1. cfg' = cfg /\ overtaking' = overtaking
    BY DEF SetupKept
  <1>2. /\ DOMAIN readers'[n] = {"media", "pc", "state", "last", "piece"}
        /\ readers'[n].pc = "read" /\ readers'[n].media = media
        /\ readers'[n].last = <<>> /\ readers'[n].piece = <<>>
    BY DEF NewReader
  <1>3. \A g \in Groups : next'[n][g] = 0
    OBVIOUS
  <1>4. LastObject \in Nat
    BY PipelineAssumption
  <1>5. ReaderType(n)'
    BY <1>2, <1>4 DEF ReaderType
  <1>6. ~InHand(n)'
    BY <1>2 DEF InHand
  <1>7. Holding(n)'
    BY <1>1, <1>2, <1>6, SetupKeptFacts DEF Holding
  <1>8. InOrder(n)'
    <2>1. ReadInOrder(n)'
      BY <1>3 DEF ReadInOrder
    <2>2. Remembered(n)'
      BY <1>2, <1>3, <1>4 DEF Remembered
    <2>3. GapReported(n)'
      BY <1>2 DEF GapReported
    <2> QED BY <1>6, <2>1, <2>2, <2>3 DEF InOrder
  <1>9. MayStand(n)'
    BY <1>2 DEF MayStand
  <1> QED BY <1>5, <1>7, <1>8, <1>9 DEF ReaderOK

LEMMA PartsAfter == IInv' <=> (HandleOK /\ OutputsOK /\ ReadersOK)'
  BY Parts, PTL

-----------------------------------------------------------------------------
(***************************************************************************)
(* The other steps of handle.                                              *)
(***************************************************************************)

LEMMA SetUpKept ==
  ASSUME cfg \in Configs, idx \in Nat, SetUp, SetupKept, idx' \in {idx, idx + 1}
  PROVE  SetUp'
  <1>1. cfg' = cfg /\ sel' = sel /\ cenc' = cenc /\ inits' = inits
    BY DEF SetupKept, setupVars
  <1>2. ASSUME NEW n, Considered(n) PROVE Considered(n)'
    <2>1. PICK i \in DOMAIN cfg.catalog : i < idx /\ cfg.catalog[i].name = n
      BY <1>2 DEF Considered
    <2>2. i \in Nat
      BY CatalogDomain
    <2> QED BY <1>1, <2>1, <2>2 DEF Considered
  <1>3. \A n : Track(n)' = Track(n) /\ StillEncrypted(n)' = StillEncrypted(n)
    BY SetupKeptFacts
  <1> QED BY <1>1, <1>2, <1>3 DEF SetUp

LEMMA OutputsKept ==
  ASSUME OutputsOK, SetupKept, out' = out, failed \subseteq failed'
  PROVE  OutputsOK'
  <1>1. /\ cfg' = cfg /\ overtaking' = overtaking /\ sel' = sel /\ cenc' = cenc /\ inits' = inits
    BY DEF SetupKept, setupVars
  <1>2. \A w : OwnOutput(w) => OwnOutput(w)'
    BY <1>1, SetupKeptFacts DEF OwnOutput
  <1>3. MuxOutput => MuxOutput'
    BY <1>1, SetupKeptFacts DEF MuxOutput
  <1>4. Outputs => Outputs'
    BY <1>1, <1>2, <1>3 DEF Outputs
  <1>5. GoodOutputs(out)' <=> GoodOutputs(out)
    BY DEF GoodOutputs
  <1> QED BY <1>1, <1>4, <1>5 DEF OutputsOK

\* The sequences that handle builds from the subscriptions it has to make.
LEMMA SeqIsSequence ==
  ASSUME NEW S, NEW s \in Seq(S)
  PROVE  IsSequence(s) /\ \A i \in DOMAIN s : s[i] \in S
  <1>1. Len(s) \in Nat /\ DOMAIN s = 1..Len(s) /\ \A i \in 1..Len(s) : s[i] \in S
    OBVIOUS
  <1>2. \A i \in 1..Len(s) : s[i] \in {s[j] : j \in DOMAIN s}
    BY <1>1
  <1> QED BY <1>1, <1>2 DEF IsSequence

LEMMA HeadTail ==
  ASSUME NEW s, IsSequence(s), s # <<>>
  PROVE  /\ 1 \in DOMAIN s /\ Head(s) = s[1] /\ IsSequence(Tail(s))
         /\ \A i \in DOMAIN Tail(s) : i + 1 \in DOMAIN s /\ Tail(s)[i] = s[i + 1]
  <1> DEFINE S == {s[i] : i \in DOMAIN s}
  <1>1. s \in Seq(S)
    BY DEF IsSequence
  <1> HIDE DEF S
  <1>2. Head(s) = s[1]
    BY <1>1
  <1>3. /\ Tail(s) \in Seq(S) /\ Len(Tail(s)) = Len(s) - 1
        /\ \A i \in 1..Len(Tail(s)) : Tail(s)[i] = s[i + 1]
    BY <1>1
  <1>4. IsSequence(Tail(s))
    BY <1>3, SeqIsSequence
  <1>5. Len(s) \in Nat /\ DOMAIN s = 1..Len(s) /\ DOMAIN Tail(s) = 1..Len(Tail(s)) /\ 1 \in DOMAIN s
    BY <1>1, <1>3, SequenceDomain
  <1> QED BY <1>2, <1>3, <1>4, <1>5

\* The subscriptions handle may make.
Jobs == {j \in [name : {cfg.catalog[i].name : i \in DOMAIN cfg.catalog},
                media : Roles \cup {"video_dependency"}] : MayRead(j.name, j.media)}

LEMMA VideoJobs ==
  ASSUME cfg \in Configs, SetUp, sel["video"] # None
  PROVE  VideoChain \in Seq(Jobs)
  <1> DEFINE v == sel["video"]
             chain == IF cfg.deps THEN Track(v).chain ELSE <<v>>
             names == {cfg.catalog[i].name : i \in DOMAIN cfg.catalog}
             like == {n \in names : Track(n).packaging = Track(v).packaging}
  <1>1. PICK i \in DOMAIN cfg.catalog : cfg.catalog[i].name = v
    <2>1. Listed(v)
      BY ConsideredListed DEF SetUp, Roles
    <2> QED BY <2>1 DEF Listed
  <1>2. Track(v) = cfg.catalog[i]
    BY <1>1, TrackOfName
  <1>3. v \in like
    BY <1>1
  <1>4. chain \in Seq(like)
    <2>1. <<v>> \in Seq(like)
      <3> HIDE DEF like, v
      <3> QED BY <1>3
    <2> DEFINE alike == {cfg.catalog[j].name : j \in
               {k \in DOMAIN cfg.catalog : /\ cfg.catalog[k].role = cfg.catalog[i].role
                                           /\ cfg.catalog[k].packaging = cfg.catalog[i].packaging}}
    <2>2. Track(v).chain \in Seq(alike)
      BY <1>2, PipelineAssumption DEF IsConfig
    <2>3. alike \subseteq like
      <3>1. ASSUME NEW k \in DOMAIN cfg.catalog, cfg.catalog[k].packaging = cfg.catalog[i].packaging
            PROVE  cfg.catalog[k].name \in like
        BY <1>2, <3>1, TrackOfName
      <3> HIDE DEF like
      <3> QED BY <3>1
    <2> HIDE DEF alike, like
    <2>4. Track(v).chain \in Seq(like)
      BY <2>2, <2>3
    <2> QED BY <2>1, <2>4
  <1> DEFINE job(n) == [name |-> n, media |-> IF n = v THEN "video" ELSE "video_dependency"]
  <1>5. ASSUME NEW n \in like
        PROVE  job(n) \in Jobs
    <2>1. Listed(n) /\ n \in names
      BY DEF Listed
    <2>2. /\ job(n).name = n /\ job(n).media \in Roles \cup {"video_dependency"}
          /\ job(n).media = IF n = v THEN "video" ELSE "video_dependency"
      BY DEF Roles
    <2>3. MayRead(job(n).name, job(n).media)
      BY <2>1, <2>2 DEF MayRead, Roles
    <2> QED BY <2>1, <2>2, <2>3 DEF Jobs
  <1>6. VideoChain = [k \in DOMAIN chain |-> job(chain[k])]
    BY DEF VideoChain
  <1> HIDE DEF chain, job, like
  <1>7. Len(chain) \in Nat /\ DOMAIN chain = 1..Len(chain) /\ \A k \in 1..Len(chain) : chain[k] \in like
    BY <1>4
  <1>8. VideoChain \in [1..Len(chain) -> Jobs]
    BY <1>5, <1>6, <1>7
  <1> QED BY <1>7, <1>8, SeqDef

LEMMA ChosenJobs ==
  ASSUME cfg \in Configs, SetUp, NEW r \in Roles
  PROVE  Chosen(r) \in Seq(Jobs)
  <1>1. CASE sel[r] = None
    BY <1>1 DEF Chosen
  <1>2. CASE sel[r] # None
    <2> DEFINE j == [name |-> sel[r], media |-> r]
    <2>1. Listed(sel[r])
      BY <1>2, ConsideredListed DEF SetUp
    <2>2. j.name = sel[r] /\ j.media = r
      OBVIOUS
    <2>3. MayRead(j.name, j.media)
      BY <2>1, <2>2 DEF MayRead
    <2>4. j \in Jobs
      BY <2>1, <2>3 DEF Jobs, Listed
    <2> HIDE DEF j
    <2>5. Chosen(r) = <<j>>
      BY <1>2 DEF Chosen, j
    <2> QED BY <2>4, <2>5
  <1> QED BY <1>1, <1>2

\* Starting a reader leaves the other readers alone.
LEMMA StartReaderStep ==
  ASSUME cfg \in Configs, ReadersOK, SetupKept, failed \subseteq failed',
         pc \notin {"closed", "panic"},
         NEW s, StartReader(s), ~cfg.moqmi => MayRead(s.name, s.media)
  PROVE  ReadersOK'
  <1>1. /\ DOMAIN readers' = DOMAIN readers \cup {s.name}
        /\ readers'[s.name] = NewReader(s.media)
        /\ \A n \in DOMAIN readers : n # s.name => readers'[n] = readers[n]
    BY DEF StartReader, Put
  <1>2. /\ DOMAIN next' = DOMAIN next \cup {s.name}
        /\ next'[s.name] = [g \in Groups |-> 0]
        /\ \A n \in DOMAIN next : n # s.name => next'[n] = next[n]
    BY DEF StartReader, Put
  <1>3. DOMAIN next = DOMAIN readers /\ \A n \in DOMAIN readers : ReaderOK(n)
    BY DEF ReadersOK
  <1>4. ReaderOK(s.name)'
    BY <1>1, <1>2, NewReaderOK
  <1>5. ASSUME NEW n \in DOMAIN readers, n # s.name
        PROVE  ReaderOK(n)'
    BY <1>1, <1>2, <1>3, <1>5, OtherReader
  <1> QED BY <1>1, <1>2, <1>3, <1>4, <1>5 DEF ReadersOK

LEMMA NoNewReader ==
  ASSUME ReadersOK, SetupKept, failed \subseteq failed', pc \notin {"closed", "panic"},
         readers' = readers, next' = next
  PROVE  ReadersOK'
  BY OtherReader DEF ReadersOK

LEMMA FaultsStep ==
  ASSUME faults \in Nat, NEW who, NoFault \/ Fault(who)
  PROVE  faults' \in Nat
  BY DEF NoFault, Fault

LEMMA StartSessionStep ==
  ASSUME HandleOK, ReadersOK, StartSession, SetupKept, failed \subseteq failed'
  PROVE  HandleOK' /\ ReadersOK'
  <1>1. /\ cfg' = cfg /\ sel' = sel /\ cenc' = cenc /\ locWriters' = locWriters
        /\ idx' = idx /\ todo' = todo /\ readers' = readers /\ next' = next
        /\ pc = "session"
    BY DEF StartSession, SetupKept, setupVars
  <1>2. pc' \in {"moqmi", "tracks", "closed"} /\ (pc' = "moqmi" => cfg.moqmi)
    BY DEF StartSession
  <1>3. faults' \in Nat
    BY FaultsStep DEF StartSession, HandleOK
  <1>4. SetUp'
    BY <1>1, SetUpKept DEF HandleOK
  <1>5. \A n, m : MayRead(n, m)' <=> MayRead(n, m)
    BY SetupKeptFacts
  <1>6. HandleOK'
    BY <1>1, <1>2, <1>3, <1>4, <1>5 DEF HandleOK
  <1> QED BY <1>1, <1>6, NoNewReader

LEMMA EndOfTracksStep ==
  ASSUME HandleOK, ReadersOK, EndOfTracks, SetupKept, failed \subseteq failed'
  PROVE  HandleOK' /\ ReadersOK'
  <1>1. /\ cfg' = cfg /\ sel' = sel /\ cenc' = cenc /\ locWriters' = locWriters
        /\ idx' = idx /\ readers' = readers /\ next' = next
        /\ pc = "tracks" /\ pc' \in {"closed", "subscribe"}
    BY DEF EndOfTracks, SetupKept, setupVars
  <1>2. faults' \in Nat
    BY FaultsStep DEF EndOfTracks, HandleOK
  <1>3. SetUp' /\ SetUp /\ cfg \in Configs
    BY <1>1, SetUpKept DEF HandleOK
  <1>4. \A n, m : MayRead(n, m)' <=> MayRead(n, m)
    BY SetupKeptFacts
  <1>5. IsSequence(todo') /\ \A i \in DOMAIN todo' : MayRead(todo'[i].name, todo'[i].media)
    <2>1. CASE todo' = todo
      BY <2>1 DEF HandleOK
    <2>2. CASE todo' = (IF sel["video"] = None THEN <<>> ELSE VideoChain)
                         \o Chosen("audio") \o Chosen("subs")
      <3> DEFINE first == IF sel["video"] = None THEN <<>> ELSE VideoChain
      <3>1. first \in Seq(Jobs)
        <4>1. <<>> \in Seq(Jobs)
          OBVIOUS
        <4> QED BY <1>3, <4>1, VideoJobs
      <3>2. Chosen("audio") \in Seq(Jobs) /\ Chosen("subs") \in Seq(Jobs)
        BY <1>3, ChosenJobs DEF Roles
      <3> HIDE DEF first
      <3>3. first \o Chosen("audio") \in Seq(Jobs)
        BY <3>1, <3>2
      <3>4. todo' \in Seq(Jobs)
        <4>1. todo' = (first \o Chosen("audio")) \o Chosen("subs")
          BY <2>2 DEF first
        <4> QED BY <3>2, <3>3, <4>1
      <3>5. \A j \in Jobs : MayRead(j.name, j.media)
        BY DEF Jobs
      <3> QED BY <3>4, <3>5, SeqIsSequence
    <2> QED BY <2>1, <2>2 DEF EndOfTracks
  <1>6. HandleOK'
    BY <1>1, <1>2, <1>3, <1>4, <1>5 DEF HandleOK
  <1> QED BY <1>1, <1>6, NoNewReader

LEMMA SubscribeStep ==
  ASSUME HandleOK, ReadersOK, Subscribe, SetupKept, failed \subseteq failed'
  PROVE  HandleOK' /\ ReadersOK'
  <1>1. /\ cfg' = cfg /\ sel' = sel /\ cenc' = cenc /\ locWriters' = locWriters
        /\ idx' = idx /\ pc = "subscribe" /\ pc' \in {"subscribe", "playing", "closed"}
    BY DEF Subscribe, SetupKept, setupVars
  <1>2. faults' \in Nat
    BY FaultsStep DEF Subscribe, HandleOK
  <1>3. SetUp' /\ SetUp /\ cfg \in Configs
    BY <1>1, SetUpKept DEF HandleOK
  <1>4. \A n, m : MayRead(n, m)' <=> MayRead(n, m)
    BY SetupKeptFacts
  <1>5. IsSequence(todo) /\ \A i \in DOMAIN todo : MayRead(todo[i].name, todo[i].media)
    BY DEF HandleOK
  <1>6. CASE UNCHANGED <<todo, readers, next>>
    <2>1. HandleOK'
      BY <1>1, <1>2, <1>3, <1>4, <1>5, <1>6 DEF HandleOK
    <2> QED BY <1>1, <1>6, <2>1, NoNewReader
  <1>7. CASE todo # <<>> /\ todo' = Tail(todo) /\ StartReader(Head(todo))
    <2>1. /\ 1 \in DOMAIN todo /\ Head(todo) = todo[1] /\ IsSequence(todo')
          /\ \A i \in DOMAIN todo' : i + 1 \in DOMAIN todo /\ todo'[i] = todo[i + 1]
      BY <1>5, <1>7, HeadTail
    <2>2. MayRead(Head(todo).name, Head(todo).media)
      BY <1>5, <2>1
    <2>3. \A i \in DOMAIN todo' : MayRead(todo'[i].name, todo'[i].media)
      BY <1>5, <2>1
    <2>4. HandleOK'
      BY <1>1, <1>2, <1>3, <1>4, <2>1, <2>3 DEF HandleOK
    <2>5. ReadersOK'
      BY <1>1, <1>3, <1>7, <2>2, StartReaderStep
    <2> QED BY <2>4, <2>5
  <1> QED BY <1>6, <1>7 DEF Subscribe

LEMMA SubscribeMoqMIStep ==
  ASSUME HandleOK, ReadersOK, SubscribeMoqMI, SetupKept, failed \subseteq failed'
  PROVE  HandleOK' /\ ReadersOK'
  <1>1. /\ cfg' = cfg /\ sel' = sel /\ cenc' = cenc /\ locWriters' = locWriters
        /\ todo' = todo /\ pc = "moqmi" /\ pc' \in {"moqmi", "playing", "closed"}
        /\ idx' \in {idx, idx + 1}
    BY DEF SubscribeMoqMI, SetupKept, setupVars
  <1>2. faults' \in Nat
    <2>1. NoFault \/ Fault(MoqMITracks[idx].name)
      BY DEF SubscribeMoqMI
    <2> QED BY <2>1, FaultsStep DEF HandleOK
  <1>3. SetUp' /\ SetUp /\ cfg \in Configs /\ cfg.moqmi /\ idx \in Nat \ {0}
    BY <1>1, SetUpKept DEF HandleOK
  <1>4. \A n, m : MayRead(n, m)' <=> MayRead(n, m)
    BY SetupKeptFacts
  <1>5. HandleOK'
    BY <1>1, <1>2, <1>3, <1>4 DEF HandleOK
  <1>6. CASE StartReader(MoqMITracks[idx])
    BY <1>1, <1>3, <1>5, <1>6, StartReaderStep
  <1>7. CASE UNCHANGED <<readers, next>>
    BY <1>1, <1>5, <1>7, NoNewReader
  <1>8. StartReader(MoqMITracks[idx]) \/ UNCHANGED <<readers, next>>
    BY DEF SubscribeMoqMI
  <1> QED BY <1>5, <1>6, <1>7, <1>8

-----------------------------------------------------------------------------
(***************************************************************************)
(* The steps of the readers.                                               *)
(***************************************************************************)

LEMMA HandleKept ==
  ASSUME HandleOK, SetupKept, idx' = idx, todo' = todo, pc' \in {pc, "panic"},
         DOMAIN readers # {}, faults' \in Nat
  PROVE  HandleOK'
  <1>1. /\ cfg' = cfg /\ sel' = sel /\ cenc' = cenc /\ locWriters' = locWriters
    BY DEF SetupKept, setupVars
  <1>2. pc \notin {"session", "tracks"}
    BY DEF HandleOK
  <1>3. SetUp'
    BY SetUpKept DEF HandleOK
  <1>4. \A n, m : MayRead(n, m)' <=> MayRead(n, m)
    BY SetupKeptFacts
  <1> QED BY <1>1, <1>2, <1>3, <1>4 DEF HandleOK

LEMMA OneReader ==
  ASSUME ReadersOK, SetupKept, failed \subseteq failed', pc' \in {pc, "panic"},
         NEW n \in DOMAIN readers,
         DOMAIN readers' = DOMAIN readers, DOMAIN next' = DOMAIN next,
         \A m \in DOMAIN readers : m # n => readers'[m] = readers[m] /\ next'[m] = next[m],
         ReaderOK(n)'
  PROVE  ReadersOK'
  <1>1. ASSUME NEW m \in DOMAIN readers, m # n
        PROVE  ReaderOK(m)'
    <2>1. ReaderOK(m)
      BY DEF ReadersOK
    <2>2. readers'[m] = readers[m] /\ next'[m] = next[m]
      BY <1>1
    <2> QED BY <2>1, <2>2, OtherReader
  <1> QED BY <1>1 DEF ReadersOK

\* A reader that only moves on to a place where it may stand.
LEMMA GoStep ==
  ASSUME NEW n \in DOMAIN readers, ReaderOK(n), SetupKept, failed \subseteq failed',
         pc' \in {pc, "panic"}, next' = next,
         NEW where \in {"read", "encode", "out", "ended", "panic"}, Go(n, where),
         where \in {"encode", "out"} => InHand(n),
         cfg.moqmi => where \in {"read", "out", "ended"},
         where = "encode" => "mux" \in cfg.outs /\ Combined(inits) /\ readers[n].media \in MuxRoles,
         where = "ended" => n \in failed' \/ pc' \in {"closed", "panic"}
  PROVE  ReaderOK(n)'
  <1>1. /\ cfg' = cfg /\ overtaking' = overtaking /\ sel' = sel /\ cenc' = cenc
        /\ inits' = inits /\ locWriters' = locWriters
    BY DEF SetupKept, setupVars
  <1>2. /\ DOMAIN readers'[n] = {"media", "pc", "state", "last", "piece"}
        /\ readers'[n].pc = where
        /\ readers'[n].media = readers[n].media /\ readers'[n].state = readers[n].state
        /\ readers'[n].last = readers[n].last /\ readers'[n].piece = readers[n].piece
    BY GoFacts DEF ReaderOK, ReaderType
  <1>3. InHand(n)' => InHand(n)
    BY <1>2 DEF InHand
  <1>4. ReaderType(n)'
    BY <1>2 DEF ReaderOK, ReaderType
  <1>5. Holding(n)'
    BY <1>1, <1>2, <1>3, SetupKeptFacts DEF ReaderOK, Holding
  <1>6. InOrder(n) => InOrder(n)'
    BY <1>1, <1>2, <1>3 DEF InOrder, ReadInOrder, Remembered, GapReported
  <1>7. MayStand(n)'
    BY <1>2 DEF MayStand
  <1> QED BY <1>1, <1>4, <1>5, <1>6, <1>7 DEF ReaderOK

LEMMA OwnOutputAppend ==
  ASSUME SetupKept, failed \subseteq failed', NEW w, OwnOutput(w), IsSequence(out[w]), NEW p,
         out'[w] = Append(out[w], p),
         sel[w] # None, IsFrag(p), p.name = sel[w], p.enc = StillEncrypted(sel[w])
  PROVE  OwnOutput(w)'
  <1>1. sel' = sel
    BY DEF SetupKept, setupVars
  <1>2. /\ DOMAIN out'[w] = DOMAIN out[w] \cup {Len(out[w]) + 1}
        /\ \A i \in DOMAIN out[w] : out'[w][i] = out[w][i]
        /\ out'[w][Len(out[w]) + 1] = p
        /\ out'[w] # <<>>
        /\ out[w] # <<>> => out'[w][1] = out[w][1]
    BY AppendFacts
  <1>3. StillEncrypted(sel[w])' = StillEncrypted(sel[w]) /\ OwnInit(w)' = OwnInit(w)
        /\ Track(sel[w])' = Track(sel[w])
    BY <1>1, SetupKeptFacts
  <1>5. lost' = lost
    BY SetupKeptFacts
  <1>4. ASSUME NEW i \in DOMAIN out'[w]
        PROVE  \/ i = 1 /\ out'[w][i] = OwnInit(w)
               \/ /\ IsFrag(out'[w][i]) /\ out'[w][i].name = sel[w]
                  /\ out'[w][i].enc = StillEncrypted(sel[w])
    <2>1. CASE i \in DOMAIN out[w]
      BY <1>2, <2>1 DEF OwnOutput
    <2>2. CASE i \notin DOMAIN out[w]
      BY <1>2, <1>4, <2>2
    <2> QED BY <2>1, <2>2
  <1> QED BY <1>1, <1>2, <1>3, <1>4, <1>5 DEF OwnOutput

LEMMA MuxOutputAppend ==
  ASSUME SetupKept, MuxOutput, IsSequence(out["mux"]), NEW p,
         out'["mux"] = Append(out["mux"], p), Combined(inits), IsFrag(p),
         NEW r \in MuxRoles, p.name = sel[r], p.enc = StillEncrypted(sel[r])
  PROVE  MuxOutput'
  <1> DEFINE u == out["mux"]
  <1>1. sel' = sel /\ inits' = inits
    BY DEF SetupKept, setupVars
  <1>2. /\ DOMAIN out'["mux"] = DOMAIN u \cup {Len(u) + 1}
        /\ \A i \in DOMAIN u : out'["mux"][i] = u[i]
        /\ out'["mux"][Len(u) + 1] = p
        /\ out'["mux"] # <<>>
        /\ u # <<>> => out'["mux"][1] = u[1]
    BY AppendFacts
  <1>3. /\ Combined(inits)'
        /\ \A q \in MuxRoles : StillEncrypted(sel[q])' = StillEncrypted(sel[q])
    BY <1>1, SetupKeptFacts
  <1>4. /\ "mux" \notin lost =>
             u # <<>> /\ u[1] = InitPiece("mux", MuxRoles, UNION {inits[q] : q \in MuxRoles})
        /\ \A i \in DOMAIN u : i > 1 \/ "mux" \in lost =>
             /\ IsFrag(u[i])
             /\ \E q \in MuxRoles : u[i].name = sel[q] /\ u[i].enc = StillEncrypted(sel[q])
    BY DEF MuxOutput
  <1>5. ASSUME NEW i \in DOMAIN out'["mux"], i > 1 \/ "mux" \in lost
        PROVE  /\ IsFrag(out'["mux"][i])
               /\ \E q \in MuxRoles : /\ out'["mux"][i].name = sel[q]
                                      /\ out'["mux"][i].enc = StillEncrypted(sel[q])
    <2>1. CASE i \in DOMAIN u
      <3>1. out'["mux"][i] = u[i]
        BY <1>2, <2>1
      <3> HIDE DEF u
      <3> QED BY <1>4, <1>5, <2>1, <3>1
    <2>2. CASE i \notin DOMAIN u
      <3>1. out'["mux"][i] = p
        BY <1>2, <1>5, <2>2
      <3> QED BY <3>1
    <2> QED BY <2>1, <2>2
  <1>6. lost' = lost
    BY SetupKeptFacts
  <1> HIDE DEF u
  <1> QED BY <1>1, <1>2, <1>3, <1>4, <1>5, <1>6 DEF MuxOutput

\* A fragment of the right track goes behind what the output holds.
LEMMA WriteFragment ==
  ASSUME OutputsOK, cfg \in Configs, SetupKept, failed \subseteq failed', NEW w \in cfg.outs, NEW p,
         out' = Write(out, w, p), IsFrag(p), ~overtaking => p.good,
         ~cfg.moqmi /\ w # "mux" => sel[w] # None /\ p.name = sel[w] /\ p.enc = StillEncrypted(sel[w]),
         ~cfg.moqmi /\ w = "mux" =>
           Combined(inits) /\ \E r \in MuxRoles : p.name = sel[r] /\ p.enc = StillEncrypted(sel[r])
  PROVE  OutputsOK'
  <1>1. /\ cfg' = cfg /\ overtaking' = overtaking /\ sel' = sel /\ cenc' = cenc /\ inits' = inits
    BY DEF SetupKept, setupVars
  <1>2. AllSequences(out) /\ DOMAIN out = cfg.outs /\ IsSequence(out[w])
    BY DEF OutputsOK, AllSequences
  <1>3. AllSequences(out')
    BY <1>2, WriteSequences
  <1>4. ~overtaking => GoodOutputs(out')
    BY <1>2, WriteGood DEF OutputsOK
  <1>5. GoodOutputs(out)' <=> GoodOutputs(out')
    BY DEF GoodOutputs
  <1>6. out'[w] = Append(out[w], p) /\ \A v \in cfg.outs : v # w => out'[v] = out[v]
    BY <1>2 DEF Write
  <1>7. ASSUME ~cfg.moqmi, NEW v \in cfg.outs \cap Roles
        PROVE  OwnOutput(v)'
    <2>1. OwnOutput(v)
      BY <1>7 DEF OutputsOK, Outputs
    <2>2. CASE v = w
      <3>1. w # "mux"
        BY <1>7, <2>2 DEF Roles
      <3> QED BY <1>2, <1>6, <1>7, <2>1, <2>2, <3>1, OwnOutputAppend
    <2>3. CASE v # w
      <3>1. out'[v] = out[v]
        BY <1>6, <2>3
      <3> QED BY <1>1, <2>1, <3>1, SetupKeptFacts DEF OwnOutput
    <2> QED BY <2>2, <2>3
  <1>8. ASSUME ~cfg.moqmi, "mux" \in cfg.outs
        PROVE  MuxOutput'
    <2>1. MuxOutput
      BY <1>8 DEF OutputsOK, Outputs
    <2>2. CASE w = "mux"
      <3>1. PICK r \in MuxRoles : p.name = sel[r] /\ p.enc = StillEncrypted(sel[r])
        BY <1>8, <2>2
      <3> QED BY <1>2, <1>6, <1>8, <2>1, <2>2, <3>1, MuxOutputAppend
    <2>3. CASE w # "mux"
      <3>1. out'["mux"] = out["mux"]
        BY <1>6, <1>8, <2>3
      <3> QED BY <1>1, <2>1, <3>1, SetupKeptFacts DEF MuxOutput
    <2> QED BY <2>2, <2>3
  <1>9. Outputs'
    BY <1>1, <1>7, <1>8 DEF Outputs
  <1> QED BY <1>1, <1>3, <1>4, <1>5, <1>9 DEF OutputsOK, AllSequences

\* A client whose mux has both inits reads no LOC track.
LEMMA NoLocBesideTheMux ==
  ASSUME HandleOK, Combined(inits), NEW n, NEW media, MayRead(n, media)
  PROVE  Track(n).packaging # "loc"
  <1>1. Listed(n) /\ n # None /\ IsTrack(Track(n)) /\ SetUp
    BY TrackListed DEF MayRead, HandleOK
  <1>2. \A r \in MuxRoles : r \in DOMAIN inits
    BY DEF Combined
  <1>3. \A r \in MuxRoles : Track(sel[r]).packaging # "loc"
    BY <1>1, <1>2 DEF SetUp
  <1>4. CASE media \in Roles /\ sel[media] = n
    <2>1. CASE media \in MuxRoles
      BY <1>3, <1>4, <2>1
    <2>2. CASE media = "subs"
      BY <1>1, <1>4, <2>2 DEF SetUp, IsTrack
    <2> QED BY <1>4, <2>1, <2>2 DEF Roles, MuxRoles
  <1>5. CASE Track(n).packaging = Track(sel["video"]).packaging
    BY <1>3, <1>5 DEF MuxRoles
  <1> QED BY <1>4, <1>5 DEF MayRead

\* What the steps of one reader have in common.
ReaderStep(n) ==
  /\ n \in DOMAIN readers /\ ReaderOK(n)
  /\ cfg \in Configs
  /\ SetupKept /\ failed \subseteq failed' /\ pc' \in {pc, "panic"}

LEMMA GoOnly ==
  ASSUME ReadersOK, NEW n, ReaderStep(n), NEW where, Go(n, where), next' = next, ReaderOK(n)'
  PROVE  ReadersOK'
  <1>1. /\ n \in DOMAIN readers /\ SetupKept /\ failed \subseteq failed' /\ pc' \in {pc, "panic"}
        /\ DOMAIN readers[n] = {"media", "pc", "state", "last", "piece"}
    BY DEF ReaderStep, ReaderOK, ReaderType
  <1>2. /\ DOMAIN readers' = DOMAIN readers
        /\ \A m \in DOMAIN readers : m # n => readers'[m] = readers[m]
    BY <1>1, GoFacts
  <1> QED BY <1>1, <1>2, OneReader

LEMMA WriteLOCStep ==
  ASSUME HandleOK, OutputsOK, ReadersOK, NEW n, ReaderStep(n), WriteLOC(n)
  PROVE  OutputsOK' /\ ReadersOK'
  <1>1. /\ n \in DOMAIN readers /\ ReaderOK(n) /\ SetupKept /\ failed \subseteq failed'
        /\ pc' \in {pc, "panic"} /\ Holding(n) /\ cfg \in Configs
    BY DEF ReaderStep, ReaderOK
  <1>2. readers[n].pc = "loc" /\ Go(n, "read") /\ next' = next
        /\ out' = Write(out, readers[n].media, readers[n].piece[1])
    BY DEF WriteLOC, At
  <1>3. ~cfg.moqmi /\ InHand(n)
    BY <1>1, <1>2 DEF Holding, InHand
  <1>4. readers[n].media \in Roles \cap cfg.outs
    BY <1>1, <1>2, <1>3 DEF Holding, HandleOK
  <1>5. sel[readers[n].media] = n /\ n # None
    BY <1>1, <1>3, <1>4, TrackListed DEF Holding, MayRead, Roles
  <1>6. /\ IsFrag(readers[n].piece[1]) /\ readers[n].piece[1].name = n
        /\ readers[n].piece[1].enc = StillEncrypted(n)
    BY <1>1, <1>3 DEF Holding
  <1>7. ~overtaking => readers[n].piece[1].good
    BY <1>1, <1>3 DEF ReaderOK, InOrder
  <1>8. readers[n].media # "mux"
    BY <1>4 DEF Roles
  <1>9. OutputsOK'
    BY <1>1, <1>2, <1>4, <1>5, <1>6, <1>7, <1>8, WriteFragment
  <1>10. ReaderOK(n)'
    BY <1>1, <1>2, GoStep
  <1> QED BY <1>2, <1>9, <1>10, GoOnly

LEMMA MuxSampleFacts ==
  ASSUME HandleOK, NEW n, n \in DOMAIN readers, ReaderOK(n), readers[n].pc = "mux"
  PROVE  /\ ~cfg.moqmi /\ InHand(n)
         /\ MuxSampleStep(n) \in {"out", "panic", "encode"}
         /\ MuxSampleStep(n) = "encode" =>
              "mux" \in cfg.outs /\ Combined(inits) /\ readers[n].media \in MuxRoles
  <1>1. Holding(n)
    BY DEF ReaderOK
  <1>2. ~cfg.moqmi /\ InHand(n) /\ MayRead(n, readers[n].media) /\ "mux" \in cfg.outs
    BY <1>1 DEF Holding, InHand
  <1>3. Combined(inits) => Track(n).packaging # "loc"
    BY <1>2, NoLocBesideTheMux
  <1>4. DOMAIN inits \subseteq MuxRoles
    BY DEF HandleOK, SetUp
  <1> QED BY <1>2, <1>3, <1>4 DEF MuxSampleStep

LEMMA MuxSampleStepOK ==
  ASSUME HandleOK, OutputsOK, ReadersOK, NEW n, ReaderStep(n), MuxSample(n)
  PROVE  OutputsOK' /\ ReadersOK'
  <1>1. /\ n \in DOMAIN readers /\ ReaderOK(n) /\ SetupKept /\ failed \subseteq failed'
        /\ pc' \in {pc, "panic"}
    BY DEF ReaderStep
  <1>2. readers[n].pc = "mux" /\ Go(n, MuxSampleStep(n)) /\ next' = next /\ out' = out
    BY DEF MuxSample, At
  <1>3. /\ ~cfg.moqmi /\ InHand(n)
        /\ MuxSampleStep(n) \in {"out", "panic", "encode"}
        /\ MuxSampleStep(n) = "encode" =>
             "mux" \in cfg.outs /\ Combined(inits) /\ readers[n].media \in MuxRoles
    BY <1>1, <1>2, MuxSampleFacts
  <1>4. ReaderOK(n)'
    BY <1>1, <1>2, <1>3, GoStep
  <1>5. OutputsOK'
    BY <1>1, <1>2, OutputsKept
  <1> QED BY <1>2, <1>4, <1>5, GoOnly

LEMMA EncodeFragmentStep ==
  ASSUME HandleOK, OutputsOK, ReadersOK, NEW n, ReaderStep(n), EncodeFragment(n)
  PROVE  OutputsOK' /\ ReadersOK'
  <1>1. /\ n \in DOMAIN readers /\ ReaderOK(n) /\ SetupKept /\ failed \subseteq failed'
        /\ pc' \in {pc, "panic"} /\ Holding(n) /\ cfg \in Configs
    BY DEF ReaderStep, ReaderOK
  <1>2. readers[n].pc = "encode" /\ Go(n, "out") /\ next' = next
        /\ out' = Write(out, "mux", readers[n].piece[1])
    BY DEF EncodeFragment, At
  <1>3. ~cfg.moqmi /\ InHand(n)
    BY <1>1, <1>2 DEF Holding, InHand
  <1>4. "mux" \in cfg.outs /\ Combined(inits) /\ readers[n].media \in MuxRoles
    BY <1>1, <1>2, <1>3 DEF Holding
  <1>5. sel[readers[n].media] = n
    BY <1>1, <1>3, <1>4 DEF Holding, MayRead, MuxRoles
  <1>6. /\ IsFrag(readers[n].piece[1]) /\ readers[n].piece[1].name = n
        /\ readers[n].piece[1].enc = StillEncrypted(n)
    BY <1>1, <1>3 DEF Holding
  <1>7. ~overtaking => readers[n].piece[1].good
    BY <1>1, <1>3 DEF ReaderOK, InOrder
  <1>8. \E r \in MuxRoles : /\ readers[n].piece[1].name = sel[r]
                            /\ readers[n].piece[1].enc = StillEncrypted(sel[r])
    BY <1>4, <1>5, <1>6
  <1>9. OutputsOK'
    BY <1>1, <1>2, <1>4, <1>6, <1>7, <1>8, WriteFragment
  <1>10. ReaderOK(n)'
    BY <1>1, <1>2, <1>3, GoStep
  <1> QED BY <1>2, <1>9, <1>10, GoOnly

LEMMA WriteOutStep ==
  ASSUME HandleOK, OutputsOK, ReadersOK, NEW n, ReaderStep(n), WriteOut(n)
  PROVE  OutputsOK' /\ ReadersOK'
  <1>1. /\ n \in DOMAIN readers /\ ReaderOK(n) /\ SetupKept /\ failed \subseteq failed'
        /\ pc' \in {pc, "panic"} /\ Holding(n) /\ cfg \in Configs
    BY DEF ReaderStep, ReaderOK
  <1>2. readers[n].pc = "out" /\ Go(n, "read") /\ next' = next
        /\ out' = IF readers[n].media \in cfg.outs
                  THEN Write(out, readers[n].media, readers[n].piece[1]) ELSE out
    BY DEF WriteOut, At
  <1>3. InHand(n)
    BY <1>2 DEF InHand
  <1>4. OutputsOK'
    <2>1. CASE readers[n].media \notin cfg.outs
      BY <1>1, <1>2, <2>1, OutputsKept
    <2>2. CASE readers[n].media \in cfg.outs
      <3>1. IsFrag(readers[n].piece[1]) /\ readers[n].piece[1].name = n
        BY <1>1, <1>3 DEF Holding
      <3>2. ~overtaking => readers[n].piece[1].good
        BY <1>1, <1>3 DEF ReaderOK, InOrder
      <3>3. ASSUME ~cfg.moqmi
            PROVE  /\ readers[n].media # "mux" /\ sel[readers[n].media] # None
                   /\ readers[n].piece[1].name = sel[readers[n].media]
                   /\ readers[n].piece[1].enc = StillEncrypted(sel[readers[n].media])
        <4>1. MayRead(n, readers[n].media) /\ readers[n].piece[1].enc = StillEncrypted(n)
          BY <1>1, <1>3, <3>3 DEF Holding
        <4>2. cfg.outs \subseteq OutNames
          BY <1>1, PipelineAssumption DEF IsConfig
        <4>3. readers[n].media \in Roles /\ sel[readers[n].media] = n /\ n # None
          BY <1>1, <2>2, <4>1, <4>2, TrackListed DEF MayRead, OutNames, Roles
        <4> QED BY <3>1, <4>1, <4>3 DEF Roles
      <3>4. out' = Write(out, readers[n].media, readers[n].piece[1])
        BY <1>2, <2>2
      <3> QED BY <1>1, <2>2, <3>1, <3>2, <3>3, <3>4, WriteFragment
    <2> QED BY <2>1, <2>2
  <1>5. ReaderOK(n)'
    BY <1>1, <1>2, GoStep
  <1> QED BY <1>2, <1>4, <1>5, GoOnly

LEMMA EndReaderStep ==
  ASSUME HandleOK, OutputsOK, ReadersOK, NEW n, ReaderStep(n), EndReader(n)
  PROVE  OutputsOK' /\ ReadersOK'
  <1>1. /\ n \in DOMAIN readers /\ ReaderOK(n) /\ SetupKept /\ failed \subseteq failed'
        /\ pc' \in {pc, "panic"}
    BY DEF ReaderStep
  <1>2. Go(n, "ended") /\ next' = next /\ out' = out
    BY DEF EndReader
  <1>3. n \in failed' \/ pc' \in {"closed", "panic"}
    BY <1>1 DEF EndReader, Fault
  <1>4. ReaderOK(n)'
    BY <1>1, <1>2, <1>3, GoStep
  <1>5. OutputsOK'
    BY <1>1, <1>2, OutputsKept
  <1> QED BY <1>2, <1>4, <1>5, GoOnly

-----------------------------------------------------------------------------
(***************************************************************************)
(* Reading an object.                                                      *)
(***************************************************************************)

\* One object of group g has been taken from its stream.
Advance(n, g) == next' = [next EXCEPT ![n][g] = @ + 1]

LEMMA NextFacts ==
  ASSUME NEW n \in DOMAIN next, NEW g \in Groups, next[n] \in [Groups -> 0..(LastObject + 1)],
         Readable(n, g), Advance(n, g)
  PROVE  /\ DOMAIN next' = DOMAIN next
         /\ \A m \in DOMAIN next : m # n => next'[m] = next[m]
         /\ next[n][g] \in 0..LastObject
         /\ next'[n] \in [Groups -> 0..(LastObject + 1)]
         /\ next'[n][g] = next[n][g] + 1
         /\ \A h \in Groups : h # g => next'[n][h] = next[n][h]
  <1>1. LastObject \in Nat
    BY PipelineAssumption
  <1>2. next[n][g] \in 0..LastObject
    BY DEF Readable, Objects
  <1>3. next'[n] = [next[n] EXCEPT ![g] = next[n][g] + 1]
    BY DEF Advance
  <1>4. next[n][g] + 1 \in 0..(LastObject + 1)
    BY <1>1, <1>2
  <1>5. next'[n] \in [Groups -> 0..(LastObject + 1)]
    BY <1>3, <1>4
  <1>6. DOMAIN next' = DOMAIN next /\ \A m \in DOMAIN next : m # n => next'[m] = next[m]
    BY DEF Advance
  <1> QED BY <1>2, <1>3, <1>5, <1>6

\* Without overtaking, the groups before the one that is read are complete and the
\* ones behind it have not begun.
LEMMA ReadGroup ==
  ASSUME NEW n \in DOMAIN next, NEW g \in Groups, next[n] \in [Groups -> 0..(LastObject + 1)],
         Readable(n, g), ~overtaking, ReadInOrder(n)
  PROVE  /\ \A h \in Groups : h < g => next[n][h] = LastObject + 1
         /\ \A h \in Groups : h > g => next[n][h] = 0
  <1>1. LastObject \in Nat /\ Groups \subseteq Nat
    BY PipelineAssumption DEF Groups
  <1>2. next[n][g] \in 0..LastObject /\ \A h \in Groups : h < g => next[n][h] \notin 0..LastObject
    BY DEF Readable, Objects
  <1>3. \A h \in Groups : next[n][h] \in 0..(LastObject + 1)
    OBVIOUS
  <1>4. \A h \in Groups : h < g => next[n][h] = LastObject + 1
    BY <1>1, <1>2, <1>3
  <1>5. ASSUME NEW h \in Groups, h > g PROVE next[n][h] = 0
    <2>1. g < h
      BY <1>1, <1>5
    <2>2. next[n][h] > 0 => next[n][g] = LastObject + 1
      BY <2>1 DEF ReadInOrder
    <2>3. next[n][h] \in 0..(LastObject + 1) /\ next[n][g] # LastObject + 1
      BY <1>1, <1>2, <1>3
    <2> QED BY <1>1, <2>2, <2>3
  <1> QED BY <1>4, <1>5

LEMMA ReadInOrderStep ==
  ASSUME NEW n \in DOMAIN next, NEW g \in Groups, next[n] \in [Groups -> 0..(LastObject + 1)],
         Readable(n, g), ~overtaking, ReadInOrder(n), Advance(n, g)
  PROVE  ReadInOrder(n)'
  <1>1. LastObject \in Nat /\ Groups \subseteq Nat
    BY PipelineAssumption DEF Groups
  <1>2. /\ next[n][g] \in 0..LastObject
        /\ next'[n][g] = next[n][g] + 1
        /\ \A h \in Groups : h # g => next'[n][h] = next[n][h]
    BY NextFacts
  <1>3. /\ \A h \in Groups : h < g => next[n][h] = LastObject + 1
        /\ \A h \in Groups : h > g => next[n][h] = 0
    BY ReadGroup
  <1>4. ASSUME NEW k \in Groups, NEW h \in Groups, h < k, next'[n][k] > 0
        PROVE  next'[n][h] = LastObject + 1
    <2>1. CASE k = g
      <3>1. h < g /\ h # g
        BY <1>1, <1>4, <2>1
      <3> QED BY <1>2, <1>3, <3>1
    <2>2. CASE k > g
      <3>1. next'[n][k] = 0
        BY <1>1, <1>2, <1>3, <2>2
      <3> QED BY <1>4, <3>1
    <2>3. CASE k < g
      <3>1. h < g /\ h # g
        BY <1>1, <1>4, <2>3
      <3> QED BY <1>2, <1>3, <3>1
    <2> QED BY <1>1, <2>1, <2>2, <2>3
  <1> QED BY <1>4 DEF ReadInOrder

\* Reader n has read a piece: it remembers state and last and goes on at where.
HasRead(n, state, last, piece, where) ==
  /\ DOMAIN readers' = DOMAIN readers
  /\ \A m \in DOMAIN readers : m # n => readers'[m] = readers[m]
  /\ DOMAIN readers'[n] = {"media", "pc", "state", "last", "piece"}
  /\ readers'[n].pc = where /\ readers'[n].media = readers[n].media
  /\ readers'[n].state = state /\ readers'[n].last = last
  /\ readers'[n].piece = <<piece>>

LEMMA HasReadObject ==
  ASSUME NEW n \in DOMAIN readers, NEW state, NEW piece, NEW where,
         DOMAIN readers[n] = {"media", "pc", "state", "last", "piece"},
         readers' = [readers EXCEPT ![n].state = state, ![n].piece = <<piece>>, ![n].pc = where]
  PROVE  HasRead(n, state, readers[n].last, piece, where)
  BY DEF HasRead

LEMMA HasReadMoqMI ==
  ASSUME NEW n \in DOMAIN readers, NEW last, NEW piece,
         DOMAIN readers[n] = {"media", "pc", "state", "last", "piece"},
         \/ readers' = [readers EXCEPT ![n].pc = "out", ![n].last = last, ![n].piece = <<piece>>]
         \/ /\ readers' = [readers EXCEPT ![n].pc = "out", ![n].piece = <<piece>>]
            /\ last = readers[n].last
  PROVE  HasRead(n, readers[n].state, last, piece, "out")
  <1>1. CASE readers' = [readers EXCEPT ![n].pc = "out", ![n].last = last, ![n].piece = <<piece>>]
    BY <1>1 DEF HasRead
  <1>2. CASE /\ readers' = [readers EXCEPT ![n].pc = "out", ![n].piece = <<piece>>]
             /\ last = readers[n].last
    BY <1>2 DEF HasRead
  <1> QED BY <1>1, <1>2

\* The piece in a reader's hand.
LEMMA OnePiece ==
  ASSUME NEW x
  PROVE  <<x>> # <<>> /\ <<x>>[1] = x
  OBVIOUS

\* Without overtaking, a delta is decoded on the object before it.
LEMMA DecodesWell ==
  ASSUME NEW n \in DOMAIN readers, ReaderOK(n), ~overtaking, ~cfg.moqmi, NEW g \in Groups,
         next[n][g] \in 0..LastObject
  PROVE  DecodeResult(StateFor(readers[n], next[n][g]), g, next[n][g]) = "good"
  <1>1. LastObject \in Nat
    BY PipelineAssumption
  <1>2. next[n][g] # 0 => readers[n].state = <<g, next[n][g] - 1>>
    BY <1>1 DEF ReaderOK, InOrder, Remembered
  <1> QED BY <1>2 DEF DecodeResult, StateFor

LEMMA RouteFacts ==
  ASSUME NEW media
  PROVE  /\ Route(media) \in {"loc", "mux", "out"}
         /\ Route(media) = "loc" => media \in locWriters
         /\ Route(media) = "mux" => "mux" \in cfg.outs
  BY DEF Route

LEMMA ReadObjectReader ==
  ASSUME HandleOK, NEW n, ReaderStep(n), n \in DOMAIN next, ~cfg.moqmi,
         NEW g \in Groups, Readable(n, g), Advance(n, g),
         NEW result, result = (IF Track(n).packaging = "locmaf"
                               THEN DecodeResult(StateFor(readers[n], next[n][g]), g, next[n][g])
                               ELSE "good"),
         NEW piece, IsFrag(piece), piece.name = n, piece.enc = StillEncrypted(n),
         result = "good" => piece.good,
         HasRead(n, IF result = "good" THEN <<g, next[n][g]>> ELSE <<LastGroup + 1, 0>>,
                 readers[n].last, piece, Route(readers[n].media))
  PROVE  ReaderOK(n)'
  <1>1. /\ n \in DOMAIN readers /\ ReaderOK(n) /\ SetupKept /\ failed \subseteq failed'
        /\ DOMAIN readers[n] = {"media", "pc", "state", "last", "piece"}
        /\ next[n] \in [Groups -> 0..(LastObject + 1)]
        /\ Holding(n)
    BY DEF ReaderStep, ReaderOK, ReaderType
  <1>2. /\ cfg' = cfg /\ overtaking' = overtaking /\ sel' = sel /\ cenc' = cenc
        /\ inits' = inits /\ locWriters' = locWriters
    BY <1>1 DEF SetupKept, setupVars
  <1>3. LastObject \in Nat /\ Groups \subseteq Nat
    BY PipelineAssumption DEF Groups
  <1> DEFINE state == IF result = "good" THEN <<g, next[n][g]>> ELSE <<LastGroup + 1, 0>>
             where == Route(readers[n].media)
  <1>4. /\ DOMAIN readers' = DOMAIN readers
        /\ \A m \in DOMAIN readers : m # n => readers'[m] = readers[m]
        /\ DOMAIN readers'[n] = {"media", "pc", "state", "last", "piece"}
        /\ readers'[n].pc = where /\ readers'[n].media = readers[n].media
        /\ readers'[n].state = state /\ readers'[n].last = readers[n].last
        /\ readers'[n].piece = <<piece>>
    BY DEF HasRead
  <1> HIDE DEF where, state
  <1>5. /\ next[n][g] \in 0..LastObject
        /\ next'[n] \in [Groups -> 0..(LastObject + 1)]
        /\ next'[n][g] = next[n][g] + 1
        /\ \A h \in Groups : h # g => next'[n][h] = next[n][h]
    BY <1>1, NextFacts
  <1>6. /\ where \in {"loc", "mux", "out"}
        /\ where = "loc" => readers[n].media \in locWriters
        /\ where = "mux" => "mux" \in cfg.outs
    BY RouteFacts DEF where
  <1>7. readers'[n].piece # <<>> /\ readers'[n].piece[1] = piece
    BY <1>4, OnePiece
  <1>9. ReaderType(n)'
    BY <1>4, <1>5, <1>6 DEF ReaderType
  <1>10. Holding(n)'
    BY <1>1, <1>2, <1>4, <1>6, <1>7, SetupKeptFacts DEF Holding, InHand
  <1>11. MayStand(n)'
    BY <1>4, <1>6 DEF MayStand
  <1>12. ASSUME ~overtaking PROVE InOrder(n)'
    <2>1. result = "good"
      BY <1>1, <1>5, <1>12, DecodesWell
    <2>2. readers'[n].state = <<g, next[n][g]>>
      BY <1>4, <2>1 DEF state
    <2>3. ReadInOrder(n)
      BY <1>1, <1>12 DEF ReaderOK, InOrder
    <2>4. ReadInOrder(n)'
      BY <1>1, <1>12, <2>3, ReadInOrderStep
    <2>5. /\ \A h \in Groups : h < g => next[n][h] = LastObject + 1
          /\ \A h \in Groups : h > g => next[n][h] = 0
      BY <1>1, <1>12, <2>3, ReadGroup
    <2>6. \A h \in Groups : next'[n][h] \in 1..LastObject => h = g
      BY <1>3, <1>5, <2>5
    <2>7. Remembered(n)'
      <3>1. next'[n][g] - 1 = next[n][g]
        BY <1>3, <1>5
      <3>2. \A h \in Groups : next'[n][h] \in 1..LastObject =>
              readers'[n].state = <<h, next'[n][h] - 1>>
        BY <2>2, <2>6, <3>1
      <3> QED BY <1>2, <3>2 DEF Remembered
    <2>8. GapReported(n)'
      BY <1>2 DEF GapReported
    <2>9. readers'[n].piece[1].good
      BY <1>7, <2>1
    <2> QED BY <2>4, <2>7, <2>8, <2>9 DEF InOrder
  <1> QED BY <1>2, <1>4, <1>9, <1>10, <1>11, <1>12 DEF ReaderOK

LEMMA ReadObjectEnds ==
  ASSUME HandleOK, NEW n, ReaderStep(n), n \in DOMAIN next, ~cfg.moqmi,
         NEW g \in Groups, Readable(n, g), Advance(n, g),
         (IF Track(n).packaging = "locmaf"
          THEN DecodeResult(StateFor(readers[n], next[n][g]), g, next[n][g])
          ELSE "good") # "good",
         Go(n, "ended")
  PROVE  ReaderOK(n)'
  <1>1. /\ n \in DOMAIN readers /\ ReaderOK(n) /\ SetupKept /\ failed \subseteq failed'
        /\ DOMAIN readers[n] = {"media", "pc", "state", "last", "piece"}
        /\ next[n] \in [Groups -> 0..(LastObject + 1)]
        /\ Holding(n)
    BY DEF ReaderStep, ReaderOK, ReaderType
  <1>2. /\ cfg' = cfg /\ overtaking' = overtaking
    BY <1>1 DEF SetupKept, setupVars
  <1>3. /\ DOMAIN readers'[n] = {"media", "pc", "state", "last", "piece"}
        /\ readers'[n].pc = "ended" /\ readers'[n].media = readers[n].media
    BY <1>1, GoFacts
  <1>4. next[n][g] \in 0..LastObject /\ next'[n] \in [Groups -> 0..(LastObject + 1)]
    BY <1>1, NextFacts
  <1>5. overtaking /\ Track(n).packaging = "locmaf"
    BY <1>1, <1>4, DecodesWell
  <1>6. Track(n)' = Track(n) /\ (MayRead(n, readers[n].media) => MayRead(n, readers[n].media)')
    BY <1>1, <1>3, SetupKeptFacts
  <1>7. ReaderType(n)'
    BY <1>3, <1>4 DEF ReaderType
  <1>8. Holding(n)'
    BY <1>1, <1>2, <1>3, <1>6 DEF Holding, InHand
  <1>9. MayStand(n)'
    BY <1>2, <1>5, <1>6 DEF MayStand
  <1> QED BY <1>2, <1>5, <1>7, <1>8, <1>9 DEF ReaderOK

LEMMA ReadObjectStep ==
  ASSUME HandleOK, OutputsOK, ReadersOK, NEW n, ReaderStep(n), ReadObject(n)
  PROVE  OutputsOK' /\ ReadersOK'
  <1>1. /\ n \in DOMAIN readers /\ ReaderOK(n) /\ SetupKept /\ failed \subseteq failed'
        /\ pc' \in {pc, "panic"} /\ n \in DOMAIN next /\ DOMAIN next = DOMAIN readers
        /\ DOMAIN readers[n] = {"media", "pc", "state", "last", "piece"}
        /\ next[n] \in [Groups -> 0..(LastObject + 1)]
    BY DEF ReaderStep, ReadersOK, ReaderOK, ReaderType
  <1>2. ~cfg.moqmi /\ out' = out
    BY DEF ReadObject
  <1>3. OutputsOK'
    BY <1>1, <1>2, OutputsKept
  <1> DEFINE result(g) == IF Track(n).packaging = "locmaf"
                          THEN DecodeResult(StateFor(readers[n], next[n][g]), g, next[n][g])
                          ELSE "good"
             piece(g) == [kind |-> "frag", name |-> n, group |-> g, object |-> next[n][g],
                          good |-> result(g) = "good", gap |-> 0, enc |-> StillEncrypted(n)]
             state(g) == IF result(g) = "good" THEN <<g, next[n][g]>> ELSE <<LastGroup + 1, 0>>
             where == Route(readers[n].media)
  <1>4. PICK g \in Groups :
          /\ Readable(n, g) /\ Advance(n, g)
          /\ \/ readers' = [readers EXCEPT ![n].state = state(g), ![n].piece = <<piece(g)>>,
                                           ![n].pc = where]
             \/ result(g) # "good" /\ Go(n, "ended")
    BY DEF ReadObject, Advance
  <1>5. /\ DOMAIN next' = DOMAIN next
        /\ \A m \in DOMAIN next : m # n => next'[m] = next[m]
    BY <1>1, <1>4, NextFacts
  <1>6. CASE result(g) # "good" /\ Go(n, "ended")
    <2>1. ReaderOK(n)'
      BY <1>1, <1>2, <1>4, <1>6, ReadObjectEnds
    <2>2. /\ DOMAIN readers' = DOMAIN readers
          /\ \A m \in DOMAIN readers : m # n => readers'[m] = readers[m]
      BY <1>1, <1>6, GoFacts
    <2> QED BY <1>1, <1>3, <1>5, <2>1, <2>2, OneReader
  <1>7. CASE readers' = [readers EXCEPT ![n].state = state(g), ![n].piece = <<piece(g)>>,
                                        ![n].pc = where]
    <2>1. HasRead(n, state(g), readers[n].last, piece(g), where)
      <3> HIDE DEF state, piece, where
      <3> QED BY <1>1, <1>7, HasReadObject
    <2>2. /\ IsFrag(piece(g)) /\ piece(g).name = n /\ piece(g).enc = StillEncrypted(n)
          /\ result(g) = "good" => piece(g).good
      BY DEF IsFrag
    <2>3. ReaderOK(n)'
      <3> HIDE DEF piece
      <3> QED BY <1>1, <1>2, <1>4, <2>1, <2>2, ReadObjectReader
    <2>4. /\ DOMAIN readers' = DOMAIN readers
          /\ \A m \in DOMAIN readers : m # n => readers'[m] = readers[m]
      BY <2>1 DEF HasRead
    <2> QED BY <1>1, <1>3, <1>5, <2>3, <2>4, OneReader
  <1> QED BY <1>4, <1>6, <1>7

\* seqDelta counts one step from a sequence number to the next.
LEMMA SeqDeltaOne ==
  ASSUME NEW a \in Nat
  PROVE  SeqDelta(a + 1, <<a>>) = 1
  <1>1. SeqMod \in Nat /\ SeqMod > 1
    <2>1. (LastGroup + 1) * (LastObject + 1) >= 1
      BY PipelineAssumption
    <2> QED BY <2>1, PipelineAssumption
  <1> DEFINE r == (SeqMod + 1) % SeqMod
             q == (SeqMod + 1) \div SeqMod
  <1>2. q \in Int /\ r \in Int /\ SeqMod + 1 = SeqMod * q + r /\ 0 <= r /\ r < SeqMod
    BY <1>1
  <1> HIDE DEF r, q
  <1>3. q = 1
    <2>1. q <= 0 => SeqMod * q <= 0
      BY <1>1, <1>2
    <2>2. q >= 2 => SeqMod * q >= 2 * SeqMod
      BY <1>1, <1>2
    <2> QED BY <1>1, <1>2, <2>1, <2>2
  <1>4. r = 1
    BY <1>1, <1>2, <1>3
  <1>5. a + 1 + SeqMod - a = SeqMod + 1
    BY <1>1
  <1>6. <<a>> # <<>> /\ <<a>>[1] = a
    BY OnePiece
  <1> QED BY <1>4, <1>5, <1>6 DEF SeqDelta, r

\* The sequence numbers of consecutive objects, across the end of a group.
LEMMA SeqOfNext ==
  ASSUME NEW g \in Groups, NEW o \in 0..LastObject
  PROVE  /\ SeqOf(g, o) \in Nat
         /\ o > 0 => SeqOf(g, o) = SeqOf(g, o - 1) + 1 /\ SeqOf(g, o - 1) \in Nat
         /\ o = 0 /\ g > 0 => /\ SeqOf(g, o) = SeqOf(g - 1, LastObject) + 1
                              /\ SeqOf(g - 1, LastObject) \in Nat
  <1>1. LastObject \in Nat /\ g \in Nat /\ o \in Nat
    BY PipelineAssumption DEF Groups
  <1>2. g * (LastObject + 1) \in Nat
    BY <1>1
  <1>3. g > 0 => g - 1 \in Nat /\ (g - 1) * (LastObject + 1) = g * (LastObject + 1) - (LastObject + 1)
                 /\ (g - 1) * (LastObject + 1) \in Nat
    BY <1>1
  <1> QED BY <1>1, <1>2, <1>3 DEF SeqOf

\* What the moq-mi reader compares the sequence number with.
LEMMA GapStep ==
  ASSUME NEW n \in DOMAIN readers, ReaderOK(n), ~overtaking, cfg.moqmi, n \notin failed,
         n \in DOMAIN next, NEW g \in Groups, Readable(n, g)
  PROVE  SeqDelta(SeqOf(g, next[n][g]), readers[n].last) =
           IF g = 0 /\ next[n][g] = 0 THEN 0 ELSE 1
  <1> DEFINE o == next[n][g]
  <1>1. LastObject \in Nat /\ Groups = 0..LastGroup /\ LastGroup \in Nat
    BY PipelineAssumption DEF Groups
  <1>2. /\ next[n] \in [Groups -> 0..(LastObject + 1)] /\ ReadInOrder(n) /\ Remembered(n)
    BY DEF ReaderOK, ReaderType, InOrder
  <1>3. o \in 0..LastObject
    BY DEF Readable, Objects
  <1>4. /\ \A h \in Groups : h < g => next[n][h] = LastObject + 1
        /\ \A h \in Groups : h > g => next[n][h] = 0
    BY <1>2, ReadGroup
  <1>5. CASE o > 0
    <2>1. readers[n].last = <<SeqOf(g, o - 1)>>
      BY <1>4, <1>5, <1>2 DEF Remembered
    <2>2. SeqOf(g, o) = SeqOf(g, o - 1) + 1 /\ SeqOf(g, o - 1) \in Nat
      BY <1>3, <1>5, SeqOfNext
    <2>3. SeqDelta(SeqOf(g, o), readers[n].last) = 1
      BY <2>1, <2>2, SeqDeltaOne
    <2> QED BY <1>1, <1>3, <1>5, <2>3
  <1>6. CASE o = 0 /\ g > 0
    <2>1. g - 1 \in Groups /\ g \in Nat
      BY <1>1, <1>6
    <2>2. next[n][g - 1] = LastObject + 1
      BY <1>4, <2>1
    <2>3. \A h \in Groups : h > g - 1 => next[n][h] = 0
      BY <1>1, <1>4, <1>6, <2>1
    <2>4. readers[n].last = <<SeqOf(g - 1, next[n][g - 1] - 1)>>
      BY <1>1, <1>2, <2>1, <2>2, <2>3 DEF Remembered
    <2>5. next[n][g - 1] - 1 = LastObject
      BY <1>1, <2>2
    <2>6. SeqOf(g, o) = SeqOf(g - 1, LastObject) + 1 /\ SeqOf(g - 1, LastObject) \in Nat
      BY <1>3, <1>6, SeqOfNext
    <2>7. SeqDelta(SeqOf(g, o), readers[n].last) = 1
      BY <2>4, <2>5, <2>6, SeqDeltaOne
    <2> QED BY <1>6, <2>1, <2>7
  <1>7. CASE o = 0 /\ g = 0
    <2>1. \A h \in Groups : next[n][h] = 0
      BY <1>1, <1>4, <1>7
    <2>2. readers[n].last = <<>>
      BY <1>2, <2>1 DEF Remembered
    <2> QED BY <1>7, <2>2 DEF SeqDelta
  <1> QED BY <1>1, <1>3, <1>5, <1>6, <1>7

LEMMA ReadMoqMIReader ==
  ASSUME NEW n, ReaderStep(n), n \in DOMAIN next, cfg.moqmi,
         NEW g \in Groups, Readable(n, g), Advance(n, g),
         NEW last, NEW piece, HasRead(n, readers[n].state, last, piece, "out"),
         IsFrag(piece), piece.name = n, piece.good,
         n \notin failed' =>
           /\ last = <<SeqOf(g, next[n][g])>>
           /\ piece.gap = SeqDelta(SeqOf(g, next[n][g]), readers[n].last)
           /\ piece.group = g /\ piece.object = next[n][g]
  PROVE  ReaderOK(n)'
  <1>1. /\ n \in DOMAIN readers /\ ReaderOK(n) /\ SetupKept /\ failed \subseteq failed'
        /\ next[n] \in [Groups -> 0..(LastObject + 1)]
    BY DEF ReaderStep, ReaderOK, ReaderType
  <1>2. /\ cfg' = cfg /\ overtaking' = overtaking
    BY <1>1 DEF SetupKept
  <1>3. LastObject \in Nat /\ Groups \subseteq Nat
    BY PipelineAssumption DEF Groups
  <1>4. /\ DOMAIN readers'[n] = {"media", "pc", "state", "last", "piece"}
        /\ readers'[n].pc = "out" /\ readers'[n].media = readers[n].media
        /\ readers'[n].last = last /\ readers'[n].piece = <<piece>>
    BY DEF HasRead
  <1>5. /\ next[n][g] \in 0..LastObject
        /\ next'[n] \in [Groups -> 0..(LastObject + 1)]
        /\ next'[n][g] = next[n][g] + 1
        /\ \A h \in Groups : h # g => next'[n][h] = next[n][h]
    BY <1>1, NextFacts
  <1>6. readers'[n].piece # <<>> /\ readers'[n].piece[1] = piece
    BY <1>4, OnePiece
  <1>7. ReaderType(n)'
    BY <1>4, <1>5 DEF ReaderType
  <1>8. Holding(n)'
    BY <1>2, <1>4, <1>6 DEF Holding, InHand
  <1>9. MayStand(n)'
    BY <1>4 DEF MayStand
  <1>10. ASSUME ~overtaking PROVE InOrder(n)'
    <2>1. ReadInOrder(n)
      BY <1>1, <1>10 DEF ReaderOK, InOrder
    <2>2. ReadInOrder(n)'
      BY <1>1, <1>10, <2>1, ReadInOrderStep
    <2>3. /\ \A h \in Groups : h < g => next[n][h] = LastObject + 1
          /\ \A h \in Groups : h > g => next[n][h] = 0
      BY <1>1, <1>10, <2>1, ReadGroup
    <2>4. next'[n][g] > 0 /\ next'[n][g] - 1 = next[n][g]
      BY <1>3, <1>5
    <2>5. ASSUME NEW h \in Groups, next'[n][h] > 0, \A k \in Groups : k > h => next'[n][k] = 0
          PROVE  h = g
      <3>1. ~(g > h)
        BY <2>4, <2>5
      <3>2. h > g => next'[n][h] = 0
        BY <1>3, <1>5, <2>3
      <3>3. ~(h > g)
        BY <2>5, <3>2
      <3>4. g \in Nat /\ h \in Nat
        BY <1>3
      <3> QED BY <3>1, <3>3, <3>4
    <2>6. Remembered(n)'
      <3>1. ASSUME n \notin failed', NEW h \in Groups, next'[n][h] > 0,
                   \A k \in Groups : k > h => next'[n][k] = 0
            PROVE  readers'[n].last = <<SeqOf(h, next'[n][h] - 1)>>
        BY <1>4, <2>4, <2>5, <3>1
      <3>2. ~(\A h \in Groups : next'[n][h] = 0)
        BY <2>4
      <3> QED BY <1>2, <3>1, <3>2 DEF Remembered, SeqOf
    <2>7. GapReported(n)'
      <3>1. CASE n \notin failed'
        <4>1. n \notin failed
          BY <1>1, <3>1
        <4>2. piece.gap = IF g = 0 /\ next[n][g] = 0 THEN 0 ELSE 1
          BY <1>1, <1>10, <3>1, <4>1, GapStep
        <4> QED BY <1>6, <3>1, <4>2 DEF GapReported
      <3>2. CASE n \in failed'
        BY <3>2 DEF GapReported
      <3> QED BY <3>1, <3>2
    <2> QED BY <1>6, <2>2, <2>6, <2>7 DEF InOrder
  <1> QED BY <1>2, <1>7, <1>8, <1>9, <1>10 DEF ReaderOK

LEMMA ReadMoqMIStep ==
  ASSUME HandleOK, OutputsOK, ReadersOK, NEW n, ReaderStep(n), ReadMoqMI(n)
  PROVE  OutputsOK' /\ ReadersOK'
  <1>1. /\ n \in DOMAIN readers /\ ReaderOK(n) /\ SetupKept /\ failed \subseteq failed'
        /\ pc' \in {pc, "panic"} /\ n \in DOMAIN next /\ DOMAIN next = DOMAIN readers
        /\ DOMAIN readers[n] = {"media", "pc", "state", "last", "piece"}
        /\ next[n] \in [Groups -> 0..(LastObject + 1)]
    BY DEF ReaderStep, ReadersOK, ReaderOK, ReaderType
  <1>2. cfg.moqmi /\ out' = out
    BY DEF ReadMoqMI
  <1>3. OutputsOK'
    BY <1>1, <1>2, OutputsKept
  <1> DEFINE piece(g, gap) == [kind |-> "frag", name |-> n, group |-> g, object |-> next[n][g],
                               good |-> TRUE, gap |-> gap, enc |-> {}]
             seq(g) == SeqOf(g, next[n][g])
             delta(g) == SeqDelta(seq(g), readers[n].last)
  <1>4. PICK g \in Groups :
          /\ Readable(n, g) /\ Advance(n, g)
          /\ \/ readers' = [readers EXCEPT ![n].pc = "out", ![n].last = <<seq(g)>>,
                                           ![n].piece = <<piece(g, delta(g))>>]
             \/ /\ readers' = [readers EXCEPT ![n].pc = "out", ![n].piece = <<piece(g, 0)>>]
                /\ Fault(n)
    BY DEF ReadMoqMI, Advance, SeqOf
  <1>5. /\ DOMAIN next' = DOMAIN next
        /\ \A m \in DOMAIN next : m # n => next'[m] = next[m]
    BY <1>1, <1>4, NextFacts
  <1>6. \A gap : /\ IsFrag(piece(g, gap)) /\ piece(g, gap).name = n /\ piece(g, gap).good
                 /\ piece(g, gap).gap = gap
                 /\ piece(g, gap).group = g /\ piece(g, gap).object = next[n][g]
    BY DEF IsFrag
  <1> HIDE DEF piece
  <1>7. CASE readers' = [readers EXCEPT ![n].pc = "out", ![n].last = <<seq(g)>>,
                                        ![n].piece = <<piece(g, delta(g))>>]
    <2>1. HasRead(n, readers[n].state, <<seq(g)>>, piece(g, delta(g)), "out")
      <3> HIDE DEF seq, delta
      <3> QED BY <1>1, <1>7, HasReadMoqMI
    <2>2. ReaderOK(n)'
      BY <1>1, <1>2, <1>4, <1>6, <2>1, ReadMoqMIReader
    <2>3. /\ DOMAIN readers' = DOMAIN readers
          /\ \A m \in DOMAIN readers : m # n => readers'[m] = readers[m]
      BY <2>1 DEF HasRead
    <2> QED BY <1>1, <1>3, <1>5, <2>2, <2>3, OneReader
  <1>8. CASE /\ readers' = [readers EXCEPT ![n].pc = "out", ![n].piece = <<piece(g, 0)>>]
             /\ Fault(n)
    <2>1. HasRead(n, readers[n].state, readers[n].last, piece(g, 0), "out")
      BY <1>1, <1>8, HasReadMoqMI
    <2>2. n \in failed'
      BY <1>8 DEF Fault
    <2>3. ReaderOK(n)'
      BY <1>1, <1>2, <1>4, <1>6, <2>1, <2>2, ReadMoqMIReader
    <2>4. /\ DOMAIN readers' = DOMAIN readers
          /\ \A m \in DOMAIN readers : m # n => readers'[m] = readers[m]
      BY <2>1 DEF HasRead
    <2> QED BY <1>1, <1>3, <1>5, <2>3, <2>4, OneReader
  <1> QED BY <1>4, <1>7, <1>8

-----------------------------------------------------------------------------
(***************************************************************************)
(* The theorems.                                                           *)
(***************************************************************************)

LEMMA ReaderFaults ==
  ASSUME faults \in Nat, NEW n, Work(n) \/ EndReader(n)
  PROVE  faults' \in Nat
  <1>1. NoFault \/ Fault(n)
    BY DEF Work, ReadObject, WriteLOC, MuxSample, EncodeFragment, WriteOut, ReadMoqMI, EndReader
  <1> QED BY <1>1, FaultsStep

LEMMA ReaderStepOK ==
  ASSUME HandleOK, OutputsOK, ReadersOK, failed \subseteq failed', NEW n \in DOMAIN readers,
         Work(n) \/ EndReader(n)
  PROVE  HandleOK' /\ OutputsOK' /\ ReadersOK'
  <1>1. SetupKept /\ idx' = idx /\ todo' = todo /\ pc' \in {pc, "panic"}
    BY ReaderStepKeeps
  <1>2. ReaderStep(n)
    BY <1>1 DEF ReaderStep, ReadersOK, HandleOK
  <1>3. HandleOK'
    BY <1>1, ReaderFaults, HandleKept DEF HandleOK
  <1>4. OutputsOK' /\ ReadersOK'
    BY <1>2, ReadObjectStep, WriteLOCStep, MuxSampleStepOK, EncodeFragmentStep, WriteOutStep,
       ReadMoqMIStep, EndReaderStep DEF Work
  <1> QED BY <1>3, <1>4

LEMMA HandleStepOK ==
  ASSUME HandleOK, OutputsOK, ReadersOK, failed \subseteq failed',
         StartSession \/ EndOfTracks \/ Subscribe \/ SubscribeMoqMI
  PROVE  HandleOK' /\ OutputsOK' /\ ReadersOK'
  <1>1. SetupKept /\ out' = out
    BY HandleKeeps
  <1>2. OutputsOK'
    BY <1>1, OutputsKept
  <1>3. HandleOK' /\ ReadersOK'
    BY <1>1, StartSessionStep, EndOfTracksStep, SubscribeStep, SubscribeMoqMIStep
  <1> QED BY <1>2, <1>3

LEMMA StutterStep ==
  ASSUME IInv, UNCHANGED vars
  PROVE  IInv'
  <1>1. /\ SetupKept /\ readers' = readers /\ next' = next /\ out' = out /\ failed' = failed
        /\ pc' = pc /\ idx' = idx /\ todo' = todo /\ faults' = faults
    BY DEF vars, SetupKept, setupVars
  <1>2. HandleOK /\ OutputsOK /\ ReadersOK
    BY Parts
  <1>3. OutputsOK'
    BY <1>1, <1>2, OutputsKept
  <1>4. ReadersOK'
    BY <1>1, <1>2, OtherReader DEF ReadersOK
  <1>5. HandleOK'
    <2>1. /\ cfg' = cfg /\ sel' = sel /\ cenc' = cenc /\ locWriters' = locWriters
      BY <1>1 DEF SetupKept, setupVars
    <2>2. SetUp'
      BY <1>1, <1>2, SetUpKept DEF HandleOK
    <2>3. \A n, m : MayRead(n, m)' <=> MayRead(n, m)
      BY <1>1, SetupKeptFacts
    <2> QED BY <1>1, <1>2, <2>1, <2>2, <2>3 DEF HandleOK
  <1> QED BY <1>3, <1>4, <1>5, PartsAfter

LEMMA NextInvariant == IInv /\ [Next]_vars => IInv'
  <1> SUFFICES ASSUME IInv, [Next]_vars PROVE IInv'
    OBVIOUS
  <1>1. HandleOK /\ OutputsOK /\ ReadersOK
    BY Parts
  <1>2. CASE UNCHANGED vars
    BY <1>2, StutterStep
  <1>3. ASSUME Next PROVE failed \subseteq failed'
    BY <1>3, FailedGrows
  <1>4. CASE ConsiderTrack
    BY <1>3, <1>4, ConsiderTrackStep DEF Next, Handle
  <1>5. CASE StartSession \/ EndOfTracks \/ Subscribe \/ SubscribeMoqMI
    <2>1. HandleOK' /\ OutputsOK' /\ ReadersOK'
      BY <1>1, <1>3, <1>5, HandleStepOK DEF Next, Handle
    <2> QED BY <2>1, PartsAfter
  <1>6. ASSUME NEW n \in DOMAIN readers, Work(n) \/ EndReader(n)
        PROVE  IInv'
    <2>1. HandleOK' /\ OutputsOK' /\ ReadersOK'
      BY <1>1, <1>3, <1>6, ReaderStepOK DEF Next
    <2> QED BY <2>1, PartsAfter
  <1> QED BY <1>2, <1>4, <1>5, <1>6 DEF Next, Handle

\* The inductive invariant holds in every state of the client: the set-up, the
\* outputs and the readers agree about every track (handle, subscribeAndRead,
\* handleMoqMI).
THEOREM PipelineInvariance == Spec => []IInv
  <1>1. Init => IInv
    BY InitInvariant
  <1>2. IInv /\ [Next]_vars => IInv'
    BY NextInvariant
  <1> QED BY <1>1, <1>2, PTL DEF Spec

\* As long as streams do not overtake each other, LOCMAF deltas are decoded on their
\* reference and moq-mi objects are counted without gaps (decompressLocmafObject,
\* logMoqMIObject), for every number of groups and objects.
THEOREM DecodesOnReference == Spec => []DecodedOnReference
  <1>1. IInv => DecodedOnReference
    BY DEF IInv
  <1> QED BY <1>1, PipelineInvariance, PTL

\* Whatever tracks, packagings and outputs the client combines, a reader goroutine
\* (subscribeAndRead, subscribeMoqMI) stops only for a reason of its own.
THEOREM ReadersStopOnOwnFailure == Spec => []StopsOnlyOnOwnFailure
  <1>1. IInv => StopsOnlyOnOwnFailure
    BY DEF IInv
  <1> QED BY <1>1, PipelineInvariance, PTL

\* What IInv says of a fragment in an output of CMAF media.
LEMMA OwnFragment ==
  ASSUME IInv, NEW w \in DOMAIN out, NEW i \in Fragments(w), HasInit(out[w][i].name), w # "mux"
  PROVE  /\ w \in Roles /\ OwnOutput(w) /\ 1 \in DOMAIN out[w]
         /\ out[w][i].name = sel[w] /\ sel[w] # None
         /\ out[w][i].enc = StillEncrypted(sel[w])
         /\ Track(sel[w]).packaging # "loc" /\ Track(sel[w]).role = w
         /\ OwnInit(w).kind = "init" /\ OwnInit(w).name = sel[w]
         /\ OwnInit(w).enc = StillEncrypted(sel[w])
         /\ \A j \in DOMAIN out[w] : ~IsFrag(out[w][j]) => j = 1 /\ out[w][j] = OwnInit(w)
  <1>1. ~cfg.moqmi /\ Track(out[w][i].name).packaging # "loc"
    BY DEF HasInit
  <1>2. DOMAIN out = cfg.outs /\ IsSequence(out[w]) /\ cfg \in Configs /\ SetUp /\ Outputs
    BY DEF IInv, TypeOK
  <1>3. w \in Roles
    BY <1>2, PipelineAssumption DEF IsConfig, OutNames
  <1>4. OwnOutput(w)
    BY <1>1, <1>2, <1>3 DEF Outputs
  <1>5. i \in DOMAIN out[w] /\ IsFrag(out[w][i]) /\ out[w][i].kind = "frag"
    BY DEF Fragments, IsFrag
  <1>6. OwnInit(w).kind = "init" /\ OwnInit(w).name = sel[w] /\ OwnInit(w).enc = StillEncrypted(sel[w])
    BY DEF OwnInit, InitPiece
  <1>7. /\ out[w][i].name = sel[w] /\ sel[w] # None /\ out[w][i].enc = StillEncrypted(sel[w])
        /\ \A j \in DOMAIN out[w] : ~IsFrag(out[w][j]) => j = 1 /\ out[w][j] = OwnInit(w)
    BY <1>4, <1>5, <1>6 DEF OwnOutput
  <1>8. 1 \in DOMAIN out[w]
    BY <1>2, <1>5, SequenceDomain
  <1> QED BY <1>1, <1>2, <1>3, <1>4, <1>6, <1>7, <1>8 DEF SetUp

LEMMA MuxFragment ==
  ASSUME IInv, "mux" \in DOMAIN out, NEW i \in Fragments("mux"), HasInit(out["mux"][i].name)
  PROVE  /\ SetUp /\ Combined(inits)
         /\ IF "mux" \in lost THEN out["mux"][1].kind = "frag"
            ELSE out["mux"][1] = InitPiece("mux", MuxRoles, UNION {inits[r] : r \in MuxRoles})
         /\ \A j \in DOMAIN out["mux"] : j > 1 => IsFrag(out["mux"][j])
         /\ \E r \in MuxRoles : out["mux"][i].name = sel[r] /\ out["mux"][i].enc = StillEncrypted(sel[r])
  <1>1. ~cfg.moqmi /\ SetUp /\ DOMAIN out = cfg.outs /\ IsSequence(out["mux"]) /\ Outputs
    BY DEF HasInit, IInv, TypeOK
  <1>2. MuxOutput
    BY <1>1 DEF Outputs
  <1>3. i \in DOMAIN out["mux"] /\ out["mux"][i].kind = "frag"
    BY DEF Fragments, IsFrag
  <1>4. Combined(inits)
    <2>1. out["mux"] # <<>>
      BY <1>1, <1>3, SequenceDomain
    <2> QED BY <1>2, <2>1 DEF MuxOutput
  <1>5. /\ "mux" \notin lost =>
             out["mux"][1] = InitPiece("mux", MuxRoles, UNION {inits[r] : r \in MuxRoles})
        /\ \A j \in DOMAIN out["mux"] : j > 1 \/ "mux" \in lost =>
             /\ IsFrag(out["mux"][j])
             /\ \E r \in MuxRoles : out["mux"][j].name = sel[r]
                                   /\ out["mux"][j].enc = StillEncrypted(sel[r])
    BY <1>2, <1>4 DEF MuxOutput
  <1>6. "mux" \notin lost => out["mux"][1].kind = "init"
    BY <1>5 DEF InitPiece
  <1>7. i > 1 \/ "mux" \in lost
    <2>1. i # 1 \/ "mux" \in lost
      BY <1>3, <1>6
    <2> QED BY <1>1, <1>3, <2>1, SequenceDomain
  <1>8. "mux" \in lost => out["mux"][1].kind = "frag"
    <2>1. 1 \in DOMAIN out["mux"]
      BY <1>1, <1>3, SequenceDomain
    <2> QED BY <1>5, <2>1 DEF IsFrag
  <1> QED BY <1>1, <1>3, <1>4, <1>5, <1>7, <1>8

\* Every output of CMAF media starts with its one init segment, and the combined
\* output with the combined init, unless the write of that very init failed, whatever
\* the catalog and the outputs, and whichever other calls fail (handle, AddInit,
\* muxInit, MuxSample).
THEOREM OutputsStartWithInit == Spec => []InitFirst
  <1>1. ASSUME IInv PROVE InitFirst
    <2> SUFFICES ASSUME NEW w \in DOMAIN out, NEW i \in Fragments(w), HasInit(out[w][i].name),
                        w \notin lost
                 PROVE  /\ out[w][1].kind = "init"
                        /\ out[w][1].name = (IF w = "mux" THEN "mux" ELSE out[w][i].name)
                        /\ \A j \in DOMAIN out[w] : j > 1 => IsFrag(out[w][j])
      BY DEF InitFirst
    <2>1. CASE w = "mux"
      <3>1. /\ out["mux"][1] = InitPiece("mux", MuxRoles, UNION {inits[r] : r \in MuxRoles})
            /\ \A j \in DOMAIN out["mux"] : j > 1 => IsFrag(out["mux"][j])
        BY <1>1, <2>1, MuxFragment
      <3>2. out["mux"][1].kind = "init" /\ out["mux"][1].name = "mux"
        BY <3>1 DEF InitPiece
      <3> QED BY <2>1, <3>1, <3>2
    <2>2. CASE w # "mux"
      <3>1. /\ w \in Roles /\ OwnOutput(w)
            /\ out[w][i].name = sel[w] /\ sel[w] # None
            /\ Track(sel[w]).packaging # "loc"
            /\ OwnInit(w).kind = "init" /\ OwnInit(w).name = sel[w]
            /\ \A j \in DOMAIN out[w] : ~IsFrag(out[w][j]) => j = 1
        BY <1>1, <2>2, OwnFragment
      <3>2. out[w][1] = OwnInit(w)
        BY <2>2, <3>1 DEF OwnOutput
      <3>3. \A j \in DOMAIN out[w] : j > 1 => IsFrag(out[w][j])
        BY <3>1
      <3> QED BY <2>2, <3>1, <3>2, <3>3
    <2> QED BY <2>1, <2>2
  <1>2. IInv => InitFirst
    BY <1>1
  <1> QED BY <1>2, PipelineInvariance, PTL

\* An init segment and the fragments behind it agree on what is still encrypted, on
\* the outputs of the tracks and on the combined one (decryptInit, decryptPayload).
THEOREM ProtectionAgrees == Spec => []ProtectionConsistent
  <1>1. ASSUME IInv PROVE ProtectionConsistent
    <2> SUFFICES ASSUME NEW w \in DOMAIN out, NEW i \in Fragments(w), HasInit(out[w][i].name),
                        out[w][1].kind = "init"
                 PROVE  out[w][i].enc = out[w][1].enc \cap {Track(out[w][i].name).role}
      BY DEF ProtectionConsistent
    <2>1. \A n : StillEncrypted(n) \subseteq {Track(n).role}
      BY DEF StillEncrypted
    <2>2. CASE w = "mux"
      <3>1. /\ SetUp /\ Combined(inits)
            /\ out["mux"][1] = InitPiece("mux", MuxRoles, UNION {inits[r] : r \in MuxRoles})
        <4>1. ~(out["mux"][1].kind = "frag")
          BY <2>2
        <4> QED BY <1>1, <2>2, <4>1, MuxFragment
      <3>2. PICK q \in MuxRoles : out["mux"][i].name = sel[q] /\ out["mux"][i].enc = StillEncrypted(sel[q])
        BY <1>1, <2>2, MuxFragment
      <3>3. ASSUME NEW r \in MuxRoles
            PROVE  inits[r] = StillEncrypted(sel[r]) /\ Track(sel[r]).role = r
        <4>1. r \in DOMAIN inits /\ r \in Roles
          BY <3>1 DEF Combined, MuxRoles, Roles
        <4> QED BY <3>1, <4>1 DEF SetUp
      <3>4. \A r \in MuxRoles : inits[r] \subseteq {r}
        BY <2>1, <3>3
      <3>5. out["mux"][1].enc = UNION {inits[r] : r \in MuxRoles}
        BY <3>1 DEF InitPiece
      <3>6. (UNION {inits[r] : r \in MuxRoles}) \cap {q} = inits[q]
        BY <3>4
      <3> QED BY <2>2, <3>2, <3>3, <3>5, <3>6
    <2>3. CASE w # "mux"
      <3>1. /\ 1 \in DOMAIN out[w] /\ out[w][i].name = sel[w]
            /\ out[w][i].enc = StillEncrypted(sel[w])
            /\ OwnInit(w).enc = StillEncrypted(sel[w])
            /\ \A j \in DOMAIN out[w] : ~IsFrag(out[w][j]) => j = 1 /\ out[w][j] = OwnInit(w)
        BY <1>1, <2>3, OwnFragment
      <3>2. out[w][1] = OwnInit(w)
        BY <3>1 DEF IsFrag
      <3> QED BY <2>1, <3>1, <3>2
    <2> QED BY <2>2, <2>3
  <1>2. IInv => ProtectionConsistent
    BY <1>1
  <1> QED BY <1>2, PipelineInvariance, PTL
=============================================================================
