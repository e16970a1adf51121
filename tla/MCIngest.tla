------------------------------ MODULE MCIngest ------------------------------
(***************************************************************************)
(* Small instances of Ingest: two event files and one reference file, the  *)
(* first event file with up to two lines and the second with one, of a      *)
(* stock in which every line meets another in id, source, stream or time.  *)
(***************************************************************************)
EXTENDS Ingest

\* Sources x and y; y's class is declared in some manifests.  y's first
\* event names the stream "x", as x's own events do by default.
Ev(i, s, c, m, t) ==
    [form |-> "event", id |-> i, source |-> s, class |-> c, stream |-> m, time |-> t]
Bad(f) == [form |-> f, id |-> 1, source |-> "x", class |-> "self", stream |-> NoStream, time |-> 1]

MCLines ==
    {Ev(1, "x", "self", NoStream, 2), Ev(1, "x", "self", NoStream, 1),
     Ev(2, "x", "self", NoStream, 1), Ev(2, "y", "self", "x", 1),
     Ev(3, "y", "system", "m", 3), Ev(3, "x", "self", "m", 1)}
      \cup {Bad(f) : f \in Forms \ {"event"}}

Events == {l \in MCLines : l.form = "event"}
Short == {<<>>} \cup {<<l>> : l \in MCLines}
Pairs2 == {<<l, m>> : l \in Events, m \in Events \cup {Bad("blank"), Bad("schema_invalid")}}
MCContents == Short \cup Pairs2
MCDisks == {<<a, b, <<>>>> : a \in MCContents, b \in {<<l>> : l \in Events}}
MCDamage == {Missing, TooLarge, <<>>}

Entry(f) == [form |-> "file", file |-> f]
MCSources ==
    {<<>>, <<[id |-> "x", class |-> NoClass]>>,
     <<[id |-> "x", class |-> "self"], [id |-> "y", class |-> "self"],
       [id |-> "y", class |-> "system"], [id |-> "x", class |-> NoClass]>>}
\* Files listed out of path order, an event file listed twice, an entry
\* that is malformed or unsafe after good ones, and the unreadable manifests.
MCEntries ==
    {<<Entry(2), Entry(3), Entry(1)>>, <<Entry(1), Entry(1)>>}
MCManifests ==
    {[form |-> "ok", entries |-> e, sources |-> s] : e \in MCEntries, s \in MCSources}
      \cup {[form |-> "ok", entries |-> <<Entry(1), [form |-> f, file |-> 2]>>, sources |-> <<>>]
              : f \in {"malformed", "unsafe"}}
      \cup {[form |-> f, entries |-> <<>>, sources |-> <<>>] : f \in {"missing", "invalid", "no_files", "ok"}}

\* The bundle that is rewritten while it is read, and what with.
MCUnsettled == {<<<<Ev(1, "x", "self", NoStream, 1), Ev(2, "x", "self", NoStream, 1)>>,
                  <<Ev(3, "y", "system", "m", 3)>>, <<>>>>}
MCRewrites == {Missing, <<>>, <<Ev(2, "x", "self", NoStream, 1)>>}
=============================================================================
