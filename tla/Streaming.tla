------------------------------ MODULE Streaming ------------------------------
(***************************************************************************)
(* The check modules of media: mediamtx, and stream, which plays a stream. *)
(***************************************************************************)
EXTENDS Probing

-----------------------------------------------------------------------------
\* Package checks/mediamtx: the paths of a streaming server, by its control API.

MediaMTXConfig == [expectPaths : {<<>>, <<"p1", "p2">>}, maxLatencyMS : 0 .. 1, warnNoReaders : BOOLEAN,
           caReadable : BOOLEAN]

MediaMTXServer == {<<>>}

\* The first page of the list holds p1, the second p2.
MediaMTXScale == [page1 |-> Bool, page2 |-> Bool, latency |-> <<1, 2>>, exists |-> Bool, ready |-> Bool,
          received |-> <<1, 0>>, readers |-> <<1, 0>>]

Path(name, ready, received, readers) ==
  [name |-> name, ready |-> ready, bytesReceived |-> received, readers |-> readers]

Page(o, n) ==
  IF n = 1 THEN <<Path("p1", TRUE, 1, 1)>>
  ELSE IfSo(o.exists, <<Path("p2", o.ready, o.received, o.readers)>>)

\* Every page is needed: a server is not judged on a part of its paths.
Fetched(o) == o.page1 /\ (o.exists => o.page2)
paths(o) == Page(o, 1) \o Page(o, 2)

pathFinding(c, o, name) ==
  LET found == Only(paths(o), LAMBDA p : p.name = name)
      p == found[1]
  IN  Say(name, Absent, IF found = <<>> \/ ~p.ready \/ p.bytesReceived = 0 THEN "BAD"
                    ELSE Warn(c.warnNoReaders /\ p.readers = 0))

Names(c, o) ==
  IF c.expectPaths # <<>> THEN c.expectPaths ELSE [i \in DOMAIN paths(o) |-> paths(o)[i].name]

MediaMTXProbe(c, o) ==
  IF ~c.caReadable \/ ~Fetched(o) THEN Say("given", Absent, "ERROR")
  ELSE Say("given", Absent, Warn(c.maxLatencyMS > 0 /\ o.latency > c.maxLatencyMS))
         \o Each(Names(c, o), LAMBDA name : pathFinding(c, o, name))

MediaMTXRun(c, o) == MediaMTXProbe(c, o)

-----------------------------------------------------------------------------
\* Package checks/stream: an HLS or DASH stream from its manifests. A line of an HLS
\* manifest is [tag, value]; times are seconds, and now is the time of the probe.

StreamConfig == {[live |-> l, minVariants |-> v, maxAgeWarnSeconds |-> 2 * n, maxAgeCritSeconds |-> 4 * n]
             : l \in BOOLEAN, v \in {0, 2}, n \in 0 .. 1}

StreamServer == [format : {"master", "media", "dash"}, dated : BOOLEAN]

\* Each segment lasts a second; the last one ended age seconds ago.
StreamScale == [reachable |-> Bool, valid |-> Bool, variants |-> <<2, 1, 0>>, variantReachable |-> Bool,
          onAir |-> Bool, age |-> <<0, 2, 4>>]

now == 10

Line(tag, value) == <<[tag |-> tag, value |-> value]>>

Media(o) ==
  Line("#EXTM3U", 0) \o IfSo(o.dated, Line("#EXT-X-PROGRAM-DATE-TIME", now - o.age - 2))
    \o Line("#EXTINF", 1) \o Line("uri", "a") \o Line("#EXTINF", 1) \o Line("uri", "b")
    \o IfSo(~o.onAir, Line("#EXT-X-ENDLIST", 0))

Master(o) ==
  Line("#EXTM3U", 0) \o Line("#EXT-X-STREAM-INF", 3) \o IfSo(o.variants > 0, Line("uri", "low"))
    \o IfSo(o.variants > 1, Line("#EXT-X-STREAM-INF", 5) \o Line("uri", "high"))

StreamFetch(o, url) ==
  CASE url = "top" -> IF ~o.valid THEN Line("html", 0)
                      ELSE IF o.format = "master" THEN Master(o) ELSE Media(o)
    [] OTHER -> Media(o)

Empty == [master |-> FALSE, endList |-> FALSE, variants |-> <<>>, segments |-> <<>>,
          bw |-> 0, dur |-> 0, pdt |-> 0, hasPDT |-> FALSE, expects |-> {}]

\* A URI belongs to the tag that announced it, a variant's before a segment's.  A
\* date is attached to one segment only.
Read(pl, line) ==
  CASE line.tag = "#EXT-X-STREAM-INF" ->
         [pl EXCEPT !.master = TRUE, !.bw = line.value, !.expects = @ \cup {"variant"}]
    [] line.tag = "#EXTINF" -> [pl EXCEPT !.dur = line.value, !.expects = @ \cup {"segment"}]
    [] line.tag = "#EXT-X-PROGRAM-DATE-TIME" -> [pl EXCEPT !.pdt = line.value, !.hasPDT = TRUE]
    [] line.tag = "#EXT-X-ENDLIST" -> [pl EXCEPT !.endList = TRUE]
    [] line.tag = "uri" /\ "variant" \in pl.expects ->
         [pl EXCEPT !.variants = Append(@, [uri |-> line.value, bandwidth |-> pl.bw]),
                    !.expects = @ \ {"variant"}]
    [] line.tag = "uri" /\ pl.expects = {"segment"} ->
         [pl EXCEPT !.segments = Append(@, [duration |-> pl.dur, pdt |-> pl.pdt, hasPDT |-> pl.hasPDT]),
                    !.expects = {}, !.hasPDT = FALSE]
    [] OTHER -> pl

parseM3U8(lines) == FoldLeft(Read, Empty, Tail(lines))
Parses(lines) == LET pl == parseM3U8(lines)
                 IN  lines[1].tag = "#EXTM3U" /\ (pl.master \/ pl.segments # <<>>)

\* The last date carried, advanced by every segment from it on.
liveEdge(segments) ==
  FoldLeft(LAMBDA edge, s : IF s.hasPDT THEN [at |-> s.pdt + s.duration, known |-> TRUE]
                            ELSE [edge EXCEPT !.at = IF edge.known THEN @ + s.duration ELSE @],
           [at |-> 0, known |-> FALSE], segments)

topVariant(vs) ==
  FoldLeft(LAMBDA top, v : IF v.bandwidth > top.bandwidth THEN v ELSE top, vs[1], Tail(vs))

ladderFinding(c, n) ==
  IfSo(c.minVariants > 0, Say("given", "ladder", IF n = 0 THEN "BAD" ELSE Warn(n < c.minVariants)))

Fresh(c, age) == Level(age, c.maxAgeWarnSeconds, c.maxAgeCritSeconds)

liveEdgeFinding(c, pl) ==
  LET edge == liveEdge(pl.segments)
  IN  Say("given", "live-edge", IF pl.endList \/ ~edge.known THEN "WARN" ELSE Fresh(c, now - edge.at))

\* The live edge of a master is that of its top variant; one that cannot be had is
\* not spoken of.
masterFindings(c, o, pl) ==
  Say("given", Absent, "OK") \o ladderFinding(c, Len(pl.variants))
    \o IfSo(c.live /\ pl.variants # <<>> /\ o.variantReachable,
            LET lines == StreamFetch(o, topVariant(pl.variants).uri)
            IN  IfSo(Parses(lines), liveEdgeFinding(c, parseM3U8(lines))))

probeHLS(c, o) ==
  LET lines == StreamFetch(o, "top")
      pl == parseM3U8(lines)
  IN  IF ~Parses(lines) THEN Say("given", Absent, "BAD")
      ELSE IF pl.master THEN masterFindings(c, o, pl)
      ELSE Say("given", Absent, "OK") \o IfSo(c.live, liveEdgeFinding(c, pl))

\* A dynamic MPD is dated by its publishTime.
probeDASH(c, o) ==
  IF ~o.valid THEN Say("given", Absent, "BAD")
  ELSE Say("given", Absent, "OK") \o ladderFinding(c, o.variants)
         \o IfSo(c.live, Say("given", "live-edge", IF ~o.onAir \/ ~o.dated THEN "WARN"
                                                   ELSE Fresh(c, o.age)))

StreamProbe(c, o) ==
  IF ~o.reachable THEN Say("given", Absent, "ERROR")
  ELSE IF o.format = "dash" THEN probeDASH(c, o) ELSE probeHLS(c, o)

StreamRun(c, o) == StreamProbe(c, o)
=============================================================================
