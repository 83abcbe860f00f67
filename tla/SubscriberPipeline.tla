-------------------------- MODULE SubscriberPipeline --------------------------
(***************************************************************************)
(* From a catalog to files: how mlmsub picks its tracks, prepares the      *)
(* outputs and decryption (handle in internal/sub/sub.go), and how one     *)
(* reader goroutine per track takes objects through LOCMAF decoding,       *)
(* decryption, the CMAF mux and the LOC writers to the outputs             *)
(* (subscribeAndRead, mux.go, cenc.go, loc.go), and the catalog-less       *)
(* moq-mi client (moqmi.go).                                               *)
(*                                                                         *)
(* The objects are those mlmpub sends: every group is a stream of its own, *)
(* in order; a LOCMAF object is a full header in object 0 and a delta on   *)
(* its predecessor otherwise.  Payloads are reduced to what the properties *)
(* tell apart: where an object comes from, whether it is still encrypted,  *)
(* and whether it was decoded on the right reference.  Calls that fail are *)
(* choices, counted in faults.                                             *)
(***************************************************************************)
EXTENDS Naturals, Sequences, FiniteSets

CONSTANTS
  Configs,        \* configurations of the client, see ConfigType
  LastGroup,      \* groups 0..LastGroup of every track
  LastObject,     \* objects 0..LastObject of every group
  SeqMod,         \* 2^64 in the code: seqDelta subtracts modulo SeqMod
  MaxFaults       \* bound: how many calls fail in a behaviour

None == "none"
Roles == {"video", "audio", "subs"}
MuxRoles == {"video", "audio"}
OutNames == Roles \cup {"mux"}
Groups == 0..LastGroup
Objects == 0..LastObject

\* A track of the catalog: what handle looks at.  chain is what dependencyOrder
\* returns for it (module DependencyOrder).
IsTrack(t) ==
  /\ DOMAIN t = {"name", "role", "packaging", "protected", "codec", "version", "chain"}
  /\ t.name # None
  /\ t.role \in Roles /\ t.packaging \in {"cmaf", "locmaf", "loc"} /\ t.protected \in BOOLEAN
  /\ t.role = "subs" => t.packaging = "cmaf"

\* moqmi is IsMoqMINamespace; match[r] are the tracks whose name contains the
\* substring the user gave for role r (all tracks for the empty substring);
\* subsNamed says that SubsName is not empty; deps is SubscribeDependencies; orders
\* says which behaviours of the transport are considered: whether a group's stream
\* may overtake the one before it.  A track depends on listed tracks of its own role
\* and packaging.
IsConfig(c) ==
  /\ DOMAIN c = {"moqmi", "catalog", "outs", "match", "subsNamed", "deps", "orders"}
  /\ c.orders \subseteq BOOLEAN /\ c.outs \subseteq OutNames /\ DOMAIN c.match = Roles
  /\ c.catalog \in Seq({c.catalog[i] : i \in DOMAIN c.catalog})
  /\ \A i \in DOMAIN c.catalog : IsTrack(c.catalog[i])
  /\ \A i, j \in DOMAIN c.catalog : c.catalog[i].name = c.catalog[j].name => i = j
  /\ \A i \in DOMAIN c.catalog :
       c.catalog[i].chain \in
         Seq({c.catalog[j].name : j \in
               {k \in DOMAIN c.catalog : /\ c.catalog[k].role = c.catalog[i].role
                                         /\ c.catalog[k].packaging = c.catalog[i].packaging}})

ASSUME PipelineAssumption ==
  /\ \A c \in Configs : IsConfig(c)
  /\ LastGroup \in Nat /\ LastObject \in Nat /\ MaxFaults \in Nat
  /\ SeqMod \in Nat /\ SeqMod > (LastGroup + 1) * (LastObject + 1)

VARIABLES
  cfg,          \* the client's configuration
  overtaking,   \* the behaviour of the transport, of cfg.orders
  pc,           \* where handle (or handleMoqMI) stands
  idx,          \* the next track of the loop over the catalog
  sel,          \* role -> the selected track or None
  cenc,         \* h.cenc: absent, or the tracks with DecryptInfo
  inits,        \* the mux's inits: role -> whether the init is encrypted
  locWriters,   \* roles with a LOC writer
  lost,         \* history: the outputs whose init segment could not be written
  todo,         \* the subscriptions handle still makes
  readers,      \* the reader goroutines, by track name
  next,         \* next[name][g]: the next object of group g's stream
  out,          \* the outputs: sequences of pieces
  faults,       \* history: how many calls failed
  failed        \* history: the tracks and outputs a failure concerns

setupVars == <<sel, cenc, inits, locWriters, lost>>
vars == <<cfg, overtaking, pc, idx, setupVars, todo, readers, next, out, faults, failed>>

Put(f, x, y) == [z \in DOMAIN f \cup {x} |-> IF z = x THEN y ELSE f[z]]

Track(name) == cfg.catalog[CHOOSE i \in DOMAIN cfg.catalog : cfg.catalog[i].name = name]

\* Pieces of an output.  enc is the set of roles that are encrypted in the piece.
InitPiece(name, roles, enc) ==
  [kind |-> "init", name |-> name, roles |-> roles, enc |-> enc]
Write(o, w, piece) == [o EXCEPT ![w] = Append(@, piece)]

\* A call fails; who names what it concerns.
Fault(who) == faults < MaxFaults /\ faults' = faults + 1 /\ failed' = failed \cup {who}
NoFault == UNCHANGED <<faults, failed>>

Init ==
  /\ cfg \in Configs
  /\ overtaking \in cfg.orders
  /\ pc = "session" /\ idx = 1
  /\ sel = [r \in Roles |-> None]
  /\ cenc = [on |-> FALSE, info |-> {}]
  /\ inits = <<>> /\ locWriters = {} /\ lost = {}
  /\ todo = <<>> /\ readers = <<>> /\ next = <<>>
  /\ out = [w \in cfg.outs |-> <<>>]
  /\ faults = 0 /\ failed = {}

-------------------------------------------------------------------------------
(***************************************************************************)
(* handle: the loop over the catalog.                                      *)
(***************************************************************************)

\* startSession, and the catalog (module CatalogExchange).
StartSession ==
  /\ pc = "session"
  /\ \/ pc' = (IF cfg.moqmi THEN "moqmi" ELSE "tracks") /\ NoFault
     \/ pc' = "closed" /\ Fault("session")
  /\ UNCHANGED <<cfg, overtaking, idx, setupVars, todo, readers, next, out>>

\* The role's track: the first one that matches.  Without a name, subtitles are
\* only selected when there is an output for them.
Matches(t) ==
  /\ t.name \in cfg.match[t.role]
  /\ t.role = "subs" /\ ~cfg.subsNamed => "subs" \in cfg.outs
SelectAnyMatch(t) == IF Matches(t) THEN [sel EXCEPT ![t.role] = t.name] ELSE sel
Select(t) ==
  IF sel[t.role] = None /\ Matches(t) THEN [sel EXCEPT ![t.role] = t.name] ELSE sel

\* decryptInit: DecryptInfo is recorded only after the key has been fetched; the
\* handler's cenc stays in place when it fails.
CencRecordedFirst(t, decrypted) ==
  IF t.protected THEN [on |-> TRUE, info |-> cenc.info \cup {t.name}] ELSE cenc
CencAfter(t, decrypted) ==
  IF t.protected THEN [on |-> TRUE, info |-> cenc.info \cup (IF decrypted THEN {t.name} ELSE {})]
  ELSE cenc

\* The mux's combined init exists once both inits are there (muxInit).
Combined(i) == MuxRoles \subseteq DOMAIN i

\* AddInit keeps the init, and muxInit writes the combined init once it is complete.
\* The mux has its init from then on, even when the write fails.
InMux(t) == "mux" \in cfg.outs /\ t.role \in MuxRoles
AddInit(t, enc) == IF InMux(t) THEN Put(inits, t.role, enc) ELSE inits
MuxInit(o, i, bad) ==
  IF i # inits /\ Combined(i) /\ "mux" \notin bad
  THEN Write(o, "mux", InitPiece("mux", MuxRoles, UNION {i[r] : r \in MuxRoles})) ELSE o

\* The calls that may fail while handle prepares a CMAF or LOCMAF track: the write of
\* the init to the track's own output (named by the output), AddInit before it keeps
\* the init ("add"), and the write of the combined init ("mux").
MayFail(t, enc, bad) ==
  /\ bad \subseteq (IF t.packaging = "loc" THEN {}
                  ELSE (cfg.outs \cap {t.role}) \cup (IF InMux(t) THEN {"add", "mux"} ELSE {}))
  /\ "mux" \in bad => "add" \notin bad /\ Combined(AddInit(t, enc))

\* What handle prepares for the selected track: a LOC writer, or the init
\* segment on the track's own output and in the mux.  Subtitles are not added to
\* the mux.  An AAC writer refuses other object types than AAC-LC.  Errors are
\* only logged, and what does not fail goes on.
Prepare(t, enc, bad) ==
  IF t.packaging = "loc"
  THEN /\ locWriters' = IF t.role \in cfg.outs /\ t.codec # "heaac"
                        THEN locWriters \cup {t.role} ELSE locWriters
       /\ UNCHANGED <<inits, out, lost>>
  ELSE /\ inits' = IF "add" \in bad THEN inits ELSE AddInit(t, enc)
       /\ out' = MuxInit(IF t.role \in cfg.outs \ bad
                         THEN Write(out, t.role, InitPiece(t.name, {t.role}, enc)) ELSE out,
                         inits', bad)
       /\ lost' = lost \cup (bad \cap cfg.outs)
       /\ UNCHANGED locWriters

Supported(t) == t.packaging = "locmaf" => t.version # "other"

\* One turn of the loop.  An unsupported LOCMAF version, or an init that cannot be
\* parsed for a protected LOCMAF track, ends handle; a failed decryptInit leaves
\* the encrypted init in use.  What fails in one turn is one fault.
ConsiderTrack ==
  /\ pc = "tracks" /\ idx <= Len(cfg.catalog)
  /\ LET t == cfg.catalog[idx]
     IN  \/ /\ pc' = "closed" /\ UNCHANGED <<idx, setupVars, out>>
            /\ \/ ~Supported(t) /\ NoFault
               \/ t.packaging = "locmaf" /\ t.protected /\ Fault(t.name)
         \/ /\ Supported(t)
            /\ idx' = idx + 1 /\ UNCHANGED pc
            /\ sel' = Select(t)
            /\ \E decrypted \in BOOLEAN :
                 LET enc == IF t.protected /\ ~decrypted THEN {t.role} ELSE {}
                 IN  /\ t.protected \/ decrypted
                     /\ cenc' = CencAfter(t, decrypted)
                     /\ IF sel'[t.role] = t.name
                        THEN \E bad \in SUBSET (OutNames \cup {"add"}) :
                               /\ MayFail(t, enc, bad) /\ Prepare(t, enc, bad)
                               /\ IF decrypted /\ bad = {} THEN NoFault ELSE Fault("set-up")
                        ELSE /\ UNCHANGED <<inits, locWriters, out, lost>>
                             /\ IF decrypted THEN NoFault ELSE Fault("set-up")
  /\ UNCHANGED <<cfg, overtaking, todo, readers, next>>

\* After the loop: the video track behind the tracks it depends on, audio,
\* subtitles; a client that matched nothing closes the connection.
Chosen(r) == IF sel[r] = None THEN <<>> ELSE <<[name |-> sel[r], media |-> r]>>
VideoChain ==
  LET chain == IF cfg.deps THEN Track(sel["video"]).chain ELSE <<sel["video"]>>
  IN  [i \in DOMAIN chain |->
         [name |-> chain[i],
          media |-> IF chain[i] = sel["video"] THEN "video" ELSE "video_dependency"]]
EndOfTracks ==
  /\ pc = "tracks" /\ idx > Len(cfg.catalog)
  /\ \/ /\ NoFault
        /\ pc' = IF \A r \in Roles : sel[r] = None THEN "closed" ELSE "subscribe"
        /\ todo' = (IF sel["video"] = None THEN <<>> ELSE VideoChain)
                     \o Chosen("audio") \o Chosen("subs")
     \/ sel["video"] # None /\ pc' = "closed" /\ Fault("playback") /\ UNCHANGED todo
  /\ UNCHANGED <<cfg, overtaking, idx, setupVars, readers, next, out>>

\* subscribeAndRead and subscribeMoqMI start a reader goroutine.
NewReader(media) == [media |-> media, pc |-> "read", state |-> <<>>, last |-> <<>>, piece |-> <<>>]
StartReader(s) ==
  /\ readers' = Put(readers, s.name, NewReader(s.media))
  /\ next' = Put(next, s.name, [g \in Groups |-> 0])

Subscribe ==
  /\ pc = "subscribe"
  /\ \/ todo = <<>> /\ pc' = "playing" /\ NoFault /\ UNCHANGED <<todo, readers, next>>
     \/ todo # <<>> /\ todo' = Tail(todo) /\ StartReader(Head(todo)) /\ NoFault /\ UNCHANGED pc
     \/ todo # <<>> /\ pc' = "closed" /\ Fault(Head(todo).name) /\ UNCHANGED <<todo, readers, next>>
  /\ UNCHANGED <<cfg, overtaking, idx, setupVars, out>>

\* handleMoqMI: fixed names; a failed subscription is only logged.
MoqMITracks ==
  SelectSeq(<<[name |-> "video0", media |-> "video"], [name |-> "audio0", media |-> "audio"]>>,
            LAMBDA s : s.media \in cfg.outs \/ "mux" \notin cfg.outs)
SubscribeMoqMI ==
  /\ pc = "moqmi"
  /\ \/ /\ idx <= Len(MoqMITracks)
        /\ idx' = idx + 1 /\ UNCHANGED pc
        /\ \/ StartReader(MoqMITracks[idx]) /\ NoFault
           \/ Fault(MoqMITracks[idx].name) /\ UNCHANGED <<readers, next>>
     \/ /\ idx > Len(MoqMITracks)
        /\ pc' = IF readers = <<>> THEN "closed" ELSE "playing"
        /\ NoFault /\ UNCHANGED <<idx, readers, next>>
  /\ UNCHANGED <<cfg, overtaking, setupVars, todo, out>>

-------------------------------------------------------------------------------
(***************************************************************************)
(* The reader goroutines.                                                  *)
(***************************************************************************)

Alive(n) == n \in DOMAIN readers /\ pc # "panic"
At(n, where) == Alive(n) /\ readers[n].pc = where
Go(n, where) == readers' = [readers EXCEPT ![n].pc = where]
handleVars == <<cfg, overtaking, pc, idx, setupVars, todo>>

\* The error returns of a reader; those of ReadObject also follow from a
\* connection that handle closed.
EndReader(n) ==
  /\ Alive(n) /\ readers[n].pc # "ended"
  /\ Go(n, "ended")
  /\ Fault(n) \/ (pc = "closed" /\ readers[n].pc = "read" /\ NoFault)
  /\ UNCHANGED <<handleVars, next, out>>

\* The object at the head of group g's stream (external).
Readable(n, g) ==
  /\ next[n][g] \in Objects
  /\ overtaking \/ \A h \in Groups : h < g => next[n][h] \notin Objects

\* The LOCMAF state a delta is applied to: a new one for object 0.
StateShared(r, o) == IF o = 0 THEN <<>> ELSE readers[CHOOSE n \in DOMAIN readers : TRUE].state
StateFor(r, o) == IF o = 0 THEN <<>> ELSE r.state

\* Decode (external): a full header needs no reference; a delta on the wrong
\* reference gives a wrong fragment, or an error, which ends the reader.
DecodeResult(state, g, o) ==
  CASE o = 0 \/ state = <<g, o - 1>> -> "good"
    [] o # 0 /\ state = <<>>         -> "error"
    [] OTHER                         -> "bad"

\* Where the payload goes: the LOC writer of the media type, or the mux and the
\* output of the media type.
RouteInsideMux(media) ==
  CASE media \in locWriters                              -> "loc"
    [] media \notin locWriters /\ "mux" \in cfg.outs     -> "mux"
    [] OTHER                                             -> "read"
Route(media) ==
  CASE media \in locWriters                              -> "loc"
    [] media \notin locWriters /\ "mux" \in cfg.outs     -> "mux"
    [] OTHER                                             -> "out"

\* decryptPayload leaves a track without DecryptInfo as it is.
StillEncrypted(n) ==
  IF Track(n).protected /\ n \notin cenc.info THEN {Track(n).role} ELSE {}

\* ReadObject up to the writers: decompressLocmafObject and decryptPayload.
ReadObject(n) ==
  /\ At(n, "read") /\ ~cfg.moqmi
  /\ \E g \in Groups :
       /\ Readable(n, g)
       /\ next' = [next EXCEPT ![n][g] = @ + 1]
       /\ LET o == next[n][g]
              t == Track(n)
              r == readers[n]
              result == IF t.packaging = "locmaf" THEN DecodeResult(StateFor(r, o), g, o) ELSE "good"
              piece == [kind |-> "frag", name |-> n, group |-> g, object |-> o,
                        good |-> result = "good", gap |-> 0, enc |-> StillEncrypted(n)]
          IN  \/ /\ result # "error"
                 /\ readers' = [readers EXCEPT
                      ![n].state = IF result = "good" THEN <<g, o>> ELSE <<LastGroup + 1, 0>>,
                      ![n].piece = <<piece>>, ![n].pc = Route(r.media)]
              \/ result # "good" /\ Go(n, "ended")
  /\ UNCHANGED <<handleVars, out>> /\ NoFault

WriteLOC(n) ==
  /\ At(n, "loc") /\ Go(n, "read")
  /\ out' = Write(out, readers[n].media, readers[n].piece[1])
  /\ UNCHANGED <<handleVars, next>> /\ NoFault

\* MuxSample up to the second lock: nothing without a combined init, an error for
\* a payload that is no fragment, and a division by the role's time scale, which
\* the mux only has for the roles it was given an init for.
DecodeThenCheck(n) ==
  IF Track(n).packaging = "loc" THEN "ended"
  ELSE IF ~Combined(inits) THEN "out" ELSE "encode"
MuxSampleStep(n) ==
  CASE ~Combined(inits)                                         -> "out"
    [] Combined(inits) /\ Track(n).packaging = "loc"            -> "ended"
    [] Combined(inits) /\ Track(n).packaging # "loc"
         /\ readers[n].media \notin DOMAIN inits                -> "panic"
    [] OTHER                                                    -> "encode"
MuxSample(n) ==
  /\ At(n, "mux")
  /\ Go(n, MuxSampleStep(n))
  /\ pc' = IF MuxSampleStep(n) = "panic" THEN "panic" ELSE pc
  /\ UNCHANGED <<cfg, overtaking, idx, setupVars, todo, next, out>> /\ NoFault

\* The second critical section of MuxSample.
EncodeFragment(n) ==
  /\ At(n, "encode") /\ Go(n, "out")
  /\ out' = Write(out, "mux", readers[n].piece[1])
  /\ UNCHANGED <<handleVars, next>> /\ NoFault

\* The output of the media type; dependencies of the video track have none.
WriteOut(n) ==
  /\ At(n, "out") /\ Go(n, "read")
  /\ out' = IF readers[n].media \in cfg.outs
            THEN Write(out, readers[n].media, readers[n].piece[1]) ELSE out
  /\ UNCHANGED <<handleVars, next>> /\ NoFault

\* seqDelta, modulo 2^64.
SeqDelta(seq, last) == IF last = <<>> THEN 0 ELSE (seq + SeqMod - last[1]) % SeqMod

\* The moq-mi reader: an object whose metadata cannot be read is not counted
\* (logMoqMIObject) but written like the others.
ReadMoqMI(n) ==
  /\ At(n, "read") /\ cfg.moqmi
  /\ \E g \in Groups :
       /\ Readable(n, g)
       /\ next' = [next EXCEPT ![n][g] = @ + 1]
       /\ LET o == next[n][g]
              seq == g * (LastObject + 1) + o
              piece(gap) == [kind |-> "frag", name |-> n, group |-> g, object |-> o,
                             good |-> TRUE, gap |-> gap, enc |-> {}]
          IN  \/ /\ readers' = [readers EXCEPT ![n].pc = "out", ![n].last = <<seq>>,
                                   ![n].piece = <<piece(SeqDelta(seq, readers[n].last))>>]
                 /\ NoFault
              \/ /\ readers' = [readers EXCEPT ![n].pc = "out", ![n].piece = <<piece(0)>>]
                 /\ Fault(n)
  /\ UNCHANGED <<handleVars, out>>

Handle == StartSession \/ ConsiderTrack \/ EndOfTracks \/ Subscribe \/ SubscribeMoqMI
Work(n) == ReadObject(n) \/ WriteLOC(n) \/ MuxSample(n) \/ EncodeFragment(n) \/ WriteOut(n) \/ ReadMoqMI(n)

Next == Handle \/ \E n \in DOMAIN readers : Work(n) \/ EndReader(n)

Spec == Init /\ [][Next]_vars

Names == UNION {{c.catalog[i].name : i \in DOMAIN c.catalog} : c \in Configs} \cup {"video0", "audio0"}

\* handle and the readers run when they can take a step that does not fail, and
\* streams deliver.
FairSpec ==
  /\ Spec
  /\ WF_vars(Handle /\ NoFault)
  /\ \A n \in Names : WF_vars(n \in DOMAIN readers /\ Work(n) /\ NoFault)

-------------------------------------------------------------------------------
IsFrag(p) == p.kind = "frag"
Fragments(w) == {i \in DOMAIN out[w] : IsFrag(out[w][i])}
HasInit(n) == ~cfg.moqmi /\ Track(n).packaging # "loc"

\* An output of CMAF media starts with its one init segment, which is that of the
\* track whose fragments follow, and the combined output with the combined init,
\* unless the write of that very init failed: the failure of another output, or of
\* AddInit for one of the two roles, never leaves a file of fragments without an init,
\* and a mux that does not get its second init stays silent.
InitFirst ==
  \A w \in DOMAIN out : \A i \in Fragments(w) :
    HasInit(out[w][i].name) /\ w \notin lost =>
      /\ out[w][1].kind = "init"
      /\ out[w][1].name = (IF w = "mux" THEN "mux" ELSE out[w][i].name)
      /\ \A j \in DOMAIN out[w] : j > 1 => IsFrag(out[w][j])

\* Fragments are decrypted exactly when the init segment in front of them says
\* so, even when the license request for one of several tracks fails: decryptInit
\* and decryptPayload agree about every track.
ProtectionConsistent ==
  \A w \in DOMAIN out : \A i \in Fragments(w) :
    LET f == out[w][i] IN
      HasInit(f.name) /\ out[w][1].kind = "init" =>
        f.enc = out[w][1].enc \cap {Track(f.name).role}

\* As long as streams do not overtake each other, every LOCMAF delta is applied
\* to the object it was made from, across the reset at each group, and the moq-mi
\* client reports 0 for the first object and 1, no gap, for each of the others.
DecodedOnReference ==
  ~overtaking =>
    /\ \A w \in DOMAIN out : \A i \in Fragments(w) : out[w][i].good
    /\ cfg.moqmi =>
         \A n \in DOMAIN readers \ failed :
           readers[n].piece # <<>> =>
             LET p == readers[n].piece[1]
             IN  p.gap = IF p.group = 0 /\ p.object = 0 THEN 0 ELSE 1

\* A reader stops only when a call fails for its own track, the connection is
\* closed or the client dies: what other tracks, outputs and packagings do never
\* stops it.
StopsOnlyOnOwnFailure ==
  \A n \in DOMAIN readers :
    readers[n].pc = "ended" =>
      \/ n \in failed \/ pc \in {"closed", "panic"}
      \/ overtaking /\ Track(n).packaging = "locmaf"

\* The documented purpose of the mux is video and audio; a client that asks for a
\* combined output and for subtitles keeps running.
NoPanic == pc # "panic"

\* Every object of a track that did not fail gets to the outputs of its media
\* type, once and in the order of its stream.
Destinations(n) ==
  LET m == readers[n].media
  IN  (cfg.outs \cap {m})
        \cup (IF Combined(inits) /\ HasInit(n) /\ "mux" \in cfg.outs THEN {"mux"} ELSE {})
AllWritten(w, n) ==
  LET mine == SelectSeq(out[w], LAMBDA p : IsFrag(p) /\ p.name = n)
  IN  /\ Len(mine) = Cardinality(Groups) * Cardinality(Objects)
      /\ \A i, j \in DOMAIN mine :
           i < j => \/ mine[i].group = mine[j].group /\ mine[i].object < mine[j].object
                    \/ mine[i].group # mine[j].group /\ (mine[i].group < mine[j].group \/ overtaking)
EverythingWritten ==
  <>[](pc \in {"closed", "panic"}
       \/ \A n \in DOMAIN readers :
            \/ n \in failed \/ readers[n].pc = "ended"
            \/ \A w \in Destinations(n) : AllWritten(w, n))

-------------------------------------------------------------------------------
(***************************************************************************)
(* The inductive invariant behind InitFirst, ProtectionConsistent,         *)
(* DecodedOnReference and StopsOnlyOnOwnFailure.                           *)
(***************************************************************************)

Listed(n) == \E i \in DOMAIN cfg.catalog : cfg.catalog[i].name = n
Considered(n) == \E i \in DOMAIN cfg.catalog : i < idx /\ cfg.catalog[i].name = n
IsSequence(s) == s \in Seq({s[i] : i \in DOMAIN s})

\* A reader and its medium: the selected track of a role, or a track that the
\* selected video track depends on.
MayRead(n, media) ==
  /\ Listed(n)
  /\ \/ media \in Roles /\ sel[media] = n
     \/ /\ media = "video_dependency" /\ sel["video"] # None
        /\ Track(n).packaging = Track(sel["video"]).packaging

TypeOK ==
  /\ cfg \in Configs
  /\ pc \in {"session", "tracks", "subscribe", "moqmi", "playing", "closed", "panic"}
  /\ idx \in Nat \ {0}
  /\ DOMAIN sel = Roles /\ DOMAIN cenc = {"on", "info"}
  /\ locWriters \subseteq Roles \cap cfg.outs
  /\ IsSequence(todo)
  /\ DOMAIN next = DOMAIN readers
  /\ \A n \in DOMAIN readers :
       /\ DOMAIN readers[n] = {"media", "pc", "state", "last", "piece"}
       /\ readers[n].pc \in {"read", "loc", "mux", "encode", "out", "ended", "panic"}
       /\ next[n] \in [Groups -> 0..(LastObject + 1)]
  /\ DOMAIN out = cfg.outs /\ \A w \in cfg.outs : IsSequence(out[w])
  /\ faults \in Nat

\* What the loop over the catalog has done so far: selected and decrypted tracks
\* lie behind it, and the mux holds inits of selected tracks, as encrypted as the
\* fragments of these tracks will be.
SetUp ==
  /\ \A r \in Roles : sel[r] # None => Considered(sel[r]) /\ Track(sel[r]).role = r
  /\ \A n \in cenc.info : Considered(n)
  /\ DOMAIN inits \subseteq MuxRoles
  /\ \A r \in DOMAIN inits :
       /\ "mux" \in cfg.outs /\ sel[r] # None /\ Track(sel[r]).packaging # "loc"
       /\ inits[r] = StillEncrypted(sel[r])

\* The output of a role holds the init of the selected track and its fragments.
OwnInit(w) == InitPiece(sel[w], {w}, StillEncrypted(sel[w]))
OwnOutput(w) ==
  /\ \A i \in DOMAIN out[w] :
       /\ sel[w] # None
       /\ \/ i = 1 /\ out[w][i] = OwnInit(w)
          \/ /\ IsFrag(out[w][i]) /\ out[w][i].name = sel[w]
             /\ out[w][i].enc = StillEncrypted(sel[w])
  /\ sel[w] # None /\ Track(sel[w]).packaging # "loc" /\ w \notin lost =>
       out[w] # <<>> /\ out[w][1] = OwnInit(w)

\* The combined output holds nothing, or the combined init, if it could be written,
\* and fragments.
MuxOutput ==
  /\ ~Combined(inits) => out["mux"] = <<>> /\ "mux" \notin lost
  /\ Combined(inits) /\ "mux" \notin lost =>
       /\ out["mux"] # <<>>
       /\ out["mux"][1] = InitPiece("mux", MuxRoles, UNION {inits[r] : r \in MuxRoles})
  /\ \A i \in DOMAIN out["mux"] : i > 1 \/ "mux" \in lost =>
       /\ IsFrag(out["mux"][i])
       /\ \E r \in MuxRoles : out["mux"][i].name = sel[r]
                             /\ out["mux"][i].enc = StillEncrypted(sel[r])

Outputs ==
  ~cfg.moqmi =>
    /\ \A w \in cfg.outs \cap Roles : OwnOutput(w)
    /\ "mux" \in cfg.outs => MuxOutput

\* What a reader holds between its steps, and where it may stand.
InHand(n) == readers[n].pc \in {"loc", "mux", "encode", "out"}
Holding(n) ==
  /\ InHand(n) => /\ readers[n].piece # <<>> /\ IsFrag(readers[n].piece[1])
                  /\ readers[n].piece[1].name = n
  /\ cfg.moqmi => readers[n].pc \in {"read", "out", "ended"}
  /\ ~cfg.moqmi =>
       /\ MayRead(n, readers[n].media)
       /\ InHand(n) => readers[n].piece[1].enc = StillEncrypted(n)
       /\ readers[n].pc = "loc" => readers[n].media \in locWriters
       /\ readers[n].pc \in {"mux", "encode"} => "mux" \in cfg.outs
       /\ readers[n].pc = "encode" => Combined(inits) /\ readers[n].media \in MuxRoles

Subscribed ==
  /\ pc = "moqmi" => cfg.moqmi
  /\ pc \in {"session", "tracks"} => DOMAIN readers = {} /\ todo = <<>>
  /\ \A i \in DOMAIN todo : MayRead(todo[i].name, todo[i].media)
  /\ \A n \in DOMAIN readers : Holding(n)

\* Streams that do not overtake each other are read group after group, and what
\* a reader remembers is the object it read last.
ReadInOrder(n) ==
  \A g, h \in Groups : h < g /\ next[n][g] > 0 => next[n][h] = LastObject + 1
SeqOf(g, o) == g * (LastObject + 1) + o
Remembered(n) ==
  /\ ~cfg.moqmi =>
       \A g \in Groups : next[n][g] \in 1..LastObject => readers[n].state = <<g, next[n][g] - 1>>
  /\ cfg.moqmi /\ n \notin failed =>
       /\ (\A g \in Groups : next[n][g] = 0) => readers[n].last = <<>>
       /\ \A g \in Groups :
            next[n][g] > 0 /\ (\A h \in Groups : h > g => next[n][h] = 0) =>
              readers[n].last = <<SeqOf(g, next[n][g] - 1)>>
Decoding ==
  ~overtaking =>
    \A n \in DOMAIN readers :
      /\ ReadInOrder(n) /\ Remembered(n)
      /\ InHand(n) => readers[n].piece[1].good

IInv ==
  /\ TypeOK /\ SetUp /\ Outputs /\ Subscribed /\ Decoding
  /\ DecodedOnReference /\ StopsOnlyOnOwnFailure
================================================================================
