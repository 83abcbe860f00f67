------------------------------ MODULE MCPipeline ------------------------------
(* Clients of the catalogs that mlmpub generates, with the outputs and names a *)
(* user may ask for.                                                           *)
EXTENDS SubscriberPipeline

T(name, role, packaging, protected) ==
  [name |-> name, role |-> role, packaging |-> packaging, protected |-> protected,
   codec |-> "any", version |-> "own", chain |-> <<name>>]

Clear == <<T("v", "video", "cmaf", FALSE), T("v_locmaf", "video", "locmaf", FALSE),
           T("a", "audio", "cmaf", FALSE), T("a_locmaf", "audio", "locmaf", FALSE),
           T("s", "subs", "cmaf", FALSE)>>
Protected == <<T("v_drm", "video", "cmaf", TRUE), T("v_drm_locmaf", "video", "locmaf", TRUE),
               T("a_drm", "audio", "cmaf", TRUE), T("s", "subs", "cmaf", FALSE)>>
Layers == <<T("v/s0", "video", "loc", FALSE),
            [T("v/s1", "video", "loc", FALSE) EXCEPT !.chain = <<"v/s0", "v/s1">>],
            T("opus", "audio", "loc", FALSE)>>
HeAac == <<[T("he", "audio", "loc", FALSE) EXCEPT !.codec = "heaac"]>>
Newer == <<T("v", "video", "cmaf", FALSE), [T("w", "video", "locmaf", FALSE) EXCEPT !.version = "other"]>>

Match(v, a, s) == [r \in Roles |-> CASE r = "video" -> v [] r = "audio" -> a [] r = "subs" -> s]
All == {"v", "v_locmaf", "a", "a_locmaf", "s", "v_drm", "v_drm_locmaf", "a_drm", "v/s0", "v/s1",
        "opus", "he", "w"}
InOrder == {FALSE}
C(catalog, outs, match, orders) ==
  [moqmi |-> FALSE, catalog |-> catalog, outs |-> outs, match |-> match, subsNamed |-> FALSE,
   deps |-> FALSE, orders |-> orders]
M(outs) == [C(<<>>, outs, Match(All, All, All), BOOLEAN) EXCEPT !.moqmi = TRUE]

\* In this order: video and audio in one file, of CMAF, LOCMAF and protected
\* tracks; the same with a file of its own for audio; a mux without audio; separate files with subtitles; subtitles without an
\* output; a protected LOCMAF track with clear subtitles; LOC with dependencies
\* and an unused mux; LOC files; an AAC codec without a writer; a catalog with a
\* LOCMAF version of its own; moq-mi.
MCConfigs ==
  { C(Clear, {"mux"}, Match(All, All, All), InOrder),
    C(Clear, {"mux"}, Match({"v_locmaf"}, {"a_locmaf"}, All), InOrder),
    C(Protected, {"mux"}, Match(All, All, All), InOrder),
    C(Clear, {"mux", "audio"}, Match(All, All, {}), InOrder),
    C(Clear, {"mux", "video"}, Match({"v_locmaf"}, {}, All), BOOLEAN),
    C(Clear, {"video", "subs"}, Match(All, {}, All), BOOLEAN),
    C(Clear, {"video"}, Match({}, {}, All), BOOLEAN),
    C(Protected, {"video", "subs"}, Match({"v_drm_locmaf"}, {}, All), InOrder),
    [C(Layers, {"video", "mux"}, Match({"v/s1"}, {}, All), BOOLEAN) EXCEPT !.deps = TRUE],
    C(Layers, {"video", "audio"}, Match({"v/s0"}, All, All), InOrder),
    C(HeAac, {"audio"}, Match(All, All, All), BOOLEAN),
    C(Newer, {"video"}, Match(All, All, All), InOrder),
    M({"video", "audio"}), M({"mux"}) }

\* The combined output together with a subtitle output or a subtitle name.
MCSubtitleConfigs ==
  { C(Clear, {"mux", "subs"}, Match(All, All, All), InOrder),
    [C(Clear, {"mux"}, Match(All, All, All), InOrder) EXCEPT !.subsNamed = TRUE] }
================================================================================
