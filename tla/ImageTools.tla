----------------------------- MODULE ImageTools -----------------------------
(***************************************************************************)
(* What ImageService makes of a picture, apart from the bytes: its size    *)
(* and place on a canvas or a page, the pages it is cut into, the quality  *)
(* that keeps a limit, and where each operation refuses.  ImageWorkers     *)
(* models the threads it runs on.                                          *)
(*                                                                         *)
(* A picture is [w, h, turned, kind, large]: turned if its EXIF data say   *)
(* that it lies on its side, large if it has too many bytes; kind is       *)
(* "image", "psd", "pdf" or "broken".  Lengths are pixels or points.       *)
(***************************************************************************)
EXTENDS ToolCall, Lists

CONSTANTS
  Resizings, Targets, Conversions, Scans, Cutouts,   \* what clients send
  MaxPixels, MaxWidth, MaxCanvas, MaxPages,   \* the limits of the settings
  MaxOutput, MaxRaster,                       \* of bytes that leave
  MinTarget, MaxTarget,                       \* of target_size_kb
  Kilobyte,                                   \* 1024
  LowQuality, HighQuality, MaxProbes          \* 10, 95, 10

NoBox == <<0, 0>>

Lesser(m, n) == IF m <= n THEN m ELSE n
Greater(m, n) == IF m >= n THEN m ELSE n

\* int(n * (p / q)), of which floating-point numbers may miss a whole number
\* from below; no side becomes 0.
Truncated(n, p, q) ==
  {Greater(1, m) : m \in {(n * p) \div q} \cup (IF (n * p) % q = 0 THEN {(n * p) \div q - 1} ELSE {})}

\* round(): to the even number in the middle.
Rounded(n, d) ==
  LET down == n \div d
      twice == 2 * (n % d)
  IN IF twice < d \/ (twice = d /\ down % 2 = 0) THEN down ELSE down + 1

\* ImageOps.exif_transpose.
Upright(p) == IF p.turned THEN [p EXCEPT !.w = p.h, !.h = p.w, !.turned = FALSE] ELSE p

\* _load_source and _load_image.
LoadRefusals(p) == << <<p.kind \in {"broken", "pdf"}, "format">>, <<p.w * p.h > MaxPixels, "limit">> >>

\* _resize_width: nothing bounds the height that follows.
Widened(p, width) ==
  IF width = 0 THEN {p} ELSE {[p EXCEPT !.w = width, !.h = m] : m \in Truncated(p.h, width, p.w)}

-----------------------------------------------------------------------------
\* By how much a picture is scaled: to fit, by the smaller of two ratios.
Ratio(p, inner, mode) ==
  IF (inner[1] * p.h <= inner[2] * p.w) = (mode = "fit") THEN <<inner[1], p.w>> ELSE <<inner[2], p.h>>

\* _maybe_rotate_canvas.
Box(p, box, rotate) ==
  IF rotate /\ (p.w > p.h) # (box[1] > box[2]) THEN <<box[2], box[1]>> ELSE box

\* _resize_to_canvas: from is the corner that is cut off, at the place on the
\* canvas, shown what of the canvas the picture covers.
Fitted(box, inner, margin, size) ==
  [box |-> box, inner |-> inner, size |-> size, from |-> NoBox, shown |-> size,
   at |-> [i \in 1..2 |-> margin + ((inner[i] - size[i]) \div 2)]]

Filled(box, inner, margin, size) ==
  LET from == [i \in 1..2 |-> Greater(0, (size[i] - inner[i]) \div 2)]
  IN [box |-> box, inner |-> inner, size |-> size, from |-> from, at |-> <<margin, margin>>,
      shown |-> [i \in 1..2 |-> Lesser(inner[i], size[i] - from[i])]]

Canvases(q, box, margin, mode) ==
  LET inner == <<box[1] - 2 * margin, box[2] - 2 * margin>>
      ratio == Ratio(q, inner, mode)
  IN {IF mode = "fit" THEN Fitted(box, inner, margin, size) ELSE Filled(box, inner, margin, size) :
        size \in Truncated(q.w, ratio[1], ratio[2]) \X Truncated(q.h, ratio[1], ratio[2])}

OnCanvas(p, r) ==
  LET q == Upright(p)
      box == Box(q, r.box, r.rotate)
  IN Canvases(q, box, Lesser(r.margin, (Lesser(box[1], box[2]) - 1) \div 2), r.mode)

ResizeReplies(r) ==
  LET refused == Reason(<< <<r.picture.large, "limit">>, <<r.format = "unknown", "format">>,
                           <<r.box = NoBox /\ r.width > MaxWidth, "limit">> >>
                        \o LoadRefusals(r.picture)
                        \o << <<r.width > MaxWidth, "limit">>,
                              <<Greater(r.box[1], r.box[2]) > MaxCanvas, "limit">>,
                              <<r.box # NoBox /\ r.mode = "unknown", "format">> >>)
  IN IF refused # "none" THEN {[refused |-> refused]}
     ELSE {[refused |-> "none", scaled |-> q, canvas |-> << >>] : q \in IF r.box = NoBox THEN Widened(r.picture, r.width) ELSE {}}
          \cup UNION {{[refused |-> "none", scaled |-> q, canvas |-> <<c>>] : c \in OnCanvas(q, r)} :
                        q \in IF r.box = NoBox THEN {} ELSE Widened(r.picture, r.width)}

-----------------------------------------------------------------------------
\* int(target_size_kb * 1024 * 0.98), which floating-point numbers get right for
\* every target that is taken: two percent of it are kept free.
Budget(t) == (t.target * Kilobyte * 98) \div 100

\* _encode_under_target: sizes is what the encoder makes of every quality.
\* Every probe is encoded, and one that is too large to leave ends the search;
\* with none within the budget the lowest quality is taken.
Probe(t, s) ==
  LET quality == (s.low + s.high) \div 2 IN
  IF s.over \/ s.low > s.high THEN s
  ELSE IF t.sizes[quality] > MaxOutput THEN [s EXCEPT !.over = TRUE]
  ELSE IF t.sizes[quality] <= Budget(t) THEN [s EXCEPT !.low = quality + 1, !.best = quality]
  ELSE [s EXCEPT !.high = quality - 1]

Searched(t) ==
  LET search[n \in 0..MaxProbes] ==
        IF n = 0 THEN [low |-> LowQuality, high |-> HighQuality, best |-> LowQuality, over |-> FALSE]
        ELSE Probe(t, search[n - 1])
  IN search[MaxProbes]

TargetReply(t) ==
  LET search == Searched(t)
  IN [refused |-> Reason(<< <<t.target \notin MinTarget..MaxTarget, "processing">>, <<search.over, "limit">>,
                            <<t.sizes[search.best] > MaxOutput, "limit">> >>),
      quality |-> search.best]

-----------------------------------------------------------------------------
\* Image.thumbnail: one side is at its limit, the other rounded either way.
Thumbnails(size, limit) ==
  LET other(n, d) == {Greater(1, n \div d), Greater(1, (n + d - 1) \div d)} IN
  IF size[1] <= limit[1] /\ size[2] <= limit[2] THEN {size}
  ELSE IF limit[1] * size[2] >= size[1] * limit[2]
  THEN {<<w, limit[2]>> : w \in other(limit[2] * size[1], size[2])}
  ELSE {<<limit[1], h>> : h \in other(limit[1] * size[2], size[1])}

\* _crop_to_aspect, which may leave nothing.
Cropped(q, inner) ==
  IF q.w * inner[2] > inner[1] * q.h THEN <<Rounded(q.h * inner[1], inner[2]), q.h>>
  ELSE <<q.w, Rounded(q.w * inner[2], inner[1])>>

\* _downsample_for_render: size is scaled by ratio to points, of which there
\* are 72 in an inch.
Downsampled(size, shown, d, dpi) ==
  Thumbnails(size, <<Greater(1, Rounded(shown[1] * dpi, d * 72)), Greater(1, Rounded(shown[2] * dpi, d * 72))>>)

\* Mutant: a slice begins at the next whole row.
CutUp(n, d) == (n + d - 1) \div d

Cut(n, d) == Rounded(n, d)

\* _render_paginated: a page shows inner[2] / (inner[1] / q.w) rows.  The
\* number of pages may come out one too high, for a page without rows.
Slices(q, inner, pages) ==
  LET top(i) == Lesser(q.h, Cut(i * inner[2] * q.w, inner[1]))
      bottom(i) == Rounded(Lesser(q.h * inner[1], i * inner[2] * q.w), inner[1])
      shown == Ascending({i \in 1..pages : top(i - 1) < bottom(i)})
  IN [k \in DOMAIN shown |-> <<top(shown[k] - 1), bottom(shown[k])>>]

PageCounts(q, inner) ==
  LET rows == inner[2] * q.w
      pages == (q.h * inner[1] + rows - 1) \div rows
  IN {pages} \cup (IF (q.h * inner[1]) % rows = 0 THEN {pages + 1} ELSE {})

\* The part of a picture that a page shows, in full or filling it, and its
\* size there, shown[1] / shown[3] by shown[2] / shown[3].
OnPage(q, inner, fill) ==
  LET ratio == Ratio(q, inner, "fit")
  IN IF fill THEN [crop |-> Cropped(q, inner), shown |-> <<inner[1], inner[2], 1>>]
     ELSE [crop |-> <<q.w, q.h>>, shown |-> <<ratio[1] * q.w, ratio[1] * q.h, ratio[2]>>]

\* _make_pdf, for the presets with a page of their own ...
PageReplies(q, page, inner, r) ==
  LET placed == OnPage(q, inner, r.scale = "fill") IN
  IF inner[1] <= 0 \/ inner[2] <= 0 THEN {[refused |-> "processing"]}
  ELSE IF r.paginate
  THEN {IF n > MaxPages THEN [refused |-> "limit"]
        ELSE [refused |-> "none", slices |-> Slices(q, inner, n)] : n \in PageCounts(q, inner)}
  ELSE IF placed.crop[1] = 0 \/ placed.crop[2] = 0 THEN {[refused |-> "processing"]}
  ELSE {[refused |-> "none", page |-> page, shown |-> placed.shown, crop |-> placed.crop, pixels |-> s] :
          s \in Downsampled(placed.crop, placed.shown, placed.shown[3], r.dpi)}

\* ... and for "original".
PdfReplies(p, r) ==
  LET q == Upright(p)
      page == Box(q, r.page, r.rotate)
  IN IF r.page # NoBox THEN PageReplies(q, page, <<page[1] - 2 * r.margin, page[2] - 2 * r.margin>>, r)
     ELSE {[refused |-> "none", page |-> <<q.w, q.h>>, shown |-> <<q.w, q.h, 1>>, crop |-> <<q.w, q.h>>, pixels |-> s] :
             s \in Thumbnails(<<q.w, q.h>>, <<r.most, r.most>>)}

\* _convert_impl: the size that is reported is the one before the picture is
\* set upright for JPEG.
ConvertReplies(r) ==
  LET p == r.picture
      refused == Reason(<< <<p.large, "limit">>, <<p.kind = "pdf", "format">>, <<r.format = "unknown", "format">> >>
                        \o LoadRefusals(p) \o << <<r.format # "pdf" /\ r.width > MaxWidth, "limit">> >>)
      written(q) == IF r.format = "jpeg" THEN Upright(q) ELSE q
  IN IF refused # "none" THEN {[refused |-> refused]}
     ELSE IF r.format = "pdf" THEN PdfReplies(p, r)
     ELSE {[refused |-> "none", scaled |-> q, reported |-> <<q.w, q.h>>, written |-> <<written(q).w, written(q).h>>] :
             q \in Widened(p, r.width)}

-----------------------------------------------------------------------------
\* _rasterize_impl: a scan is [large, pdf, format, readable, pages], pages the
\* sizes of the encoded pages; the archive is as large as they are together.
Upto(sizes, n) == LET sum[i \in 0..n] == IF i = 0 THEN 0 ELSE sum[i - 1] + sizes[i] IN sum[n]

ScanReply(s) ==
  LET count == Len(s.pages)
      refused == Reason(<< <<s.large, "limit">>, <<s.format = "unknown", "format">>, <<~s.pdf, "format">>, <<~s.readable, "format">>,
                           <<count = 0, "format">>, <<count > MaxPages, "limit">>,
                           <<\E i \in 1..count : s.pages[i] > MaxOutput \/ Upto(s.pages, i) > MaxRaster, "limit">>,
                           <<Upto(s.pages, count) > MaxOutput, "limit">> >>)
  IN [refused |-> refused, entries |-> IF refused = "none" THEN s.pages ELSE << >>]

\* _remove_background_impl: the feature is looked at before the picture.
CutoutReply(c) ==
  [refused |-> Reason(<< <<c.format = "unknown", "format">>, <<~c.enabled, "disabled">>, <<~c.installed, "disabled">>,
                         <<c.picture.large, "limit">> >>
                      \o LoadRefusals(c.picture) \o << <<c.size > MaxOutput, "limit">> >>)]

-----------------------------------------------------------------------------
ImageCalled ==
  \/ Called("resize", Resizings) \/ Called("target", Targets) \/ Called("convert", Conversions)
  \/ Called("scan", Scans) \/ Called("cutout", Cutouts)

ImageAnswers ==
  \/ AnswersAny("resize", ResizeReplies) \/ Answers("target", TargetReply) \/ AnswersAny("convert", ConvertReplies)
  \/ Answers("scan", ScanReply) \/ Answers("cutout", CutoutReply)

ImageSpec == ImageCalled /\ [][ImageAnswers]_callVars

\* How many qualities so many probes tell apart.
Reach[n \in 0..MaxProbes] == IF n = 0 THEN 0 ELSE 2 * Reach[n - 1] + 1

\* What is asked: sides are at least one pixel, a canvas has both sides or
\* none, an encoder knows every quality, and there are probes for all of them.
Sides == Nat \ {0}
Picturing == [w : Sides, h : Sides, turned : BOOLEAN, kind : STRING, large : BOOLEAN]
Boxes == {NoBox} \cup (Sides \X Sides)

ImageIsTyped ==
  /\ LowQuality \in Nat /\ HighQuality \in Nat /\ LowQuality <= HighQuality
  /\ MaxProbes \in Nat /\ HighQuality - LowQuality < Reach[MaxProbes]
  /\ \A n \in {MaxPages, MaxOutput, MinTarget, MaxTarget, Kilobyte} : n \in Nat
  /\ \A r \in Resizings : r.picture \in Picturing /\ r.width \in Nat /\ r.box \in Boxes /\ r.margin \in Nat /\ r.rotate \in BOOLEAN
  /\ \A t \in Targets : t.sizes \in [LowQuality..HighQuality -> Nat] /\ t.target \in Nat
  /\ \A r \in Conversions :
       /\ r.picture \in Picturing /\ r.width \in Nat
       /\ r.format = "pdf" => /\ r.page \in Boxes /\ r.margin \in Nat /\ r.rotate \in BOOLEAN
                              /\ r.dpi \in Sides /\ r.most \in Sides
  /\ \A s \in Scans : s.pages \in Seq(Nat)

-----------------------------------------------------------------------------
Done(tool) == Answered(tool) /\ result[1].refused = "none"

\* On a canvas a picture stays within the margins, in the middle up to a pixel,
\* as large as its shape allows up to a pixel, and keeps its shape; one that
\* fills leaves a single line free at most, and the corners it loses are alike.
CanvasExact ==
  Done("resize") /\ result[1].canvas # << >> =>
    LET c == result[1].canvas[1]
        q == Upright(result[1].scaled)
        fit == call[2].mode = "fit"
    IN /\ {c.box[1], c.box[2]} = {call[2].box[1], call[2].box[2]}
       /\ call[2].rotate => (q.w > q.h) = (c.box[1] > c.box[2]) \/ c.box[1] = c.box[2]
       /\ \A i \in 1..2 :
            LET before == c.at[i]
                after == c.box[i] - c.at[i] - c.shown[i]
            IN /\ before >= 0 /\ c.shown[i] >= 1 /\ after - before \in {0, 1}
               /\ ~fit => c.shown[i] >= c.inner[i] - 1 /\ (c.size[i] - c.from[i] - c.shown[i]) - c.from[i] \in {0, 1}
       /\ \E i \in 1..2 : c.size[i] \in {c.inner[i], c.inner[i] - 1} \/ c.size[i] = 1
       /\ c.size[1] > 1 /\ c.size[2] > 1 =>
            c.size[1] * q.h <= (c.size[2] + 1) * q.w /\ c.size[2] * q.w <= (c.size[1] + 1) * q.h

\* The search ends with a quality that keeps the target unless not even the
\* lowest leaves two percent free; if a higher quality never makes a smaller
\* file, no higher one would leave them.  It is given up only for a file that
\* must not leave.
TargetExact ==
  Answered("target") =>
    LET t == call[2]
        q == result[1].quality
        tried == t.target \in MinTarget..MaxTarget
        grows == \A i \in LowQuality..(HighQuality - 1) : t.sizes[i] <= t.sizes[i + 1]
    IN /\ result[1].refused = "processing" <=> ~tried
       /\ tried /\ result[1].refused = "limit" => \E i \in DOMAIN t.sizes : t.sizes[i] > MaxOutput
       /\ result[1].refused = "none" =>
            /\ t.sizes[q] <= MaxOutput
            /\ t.sizes[q] > t.target * Kilobyte => q = LowQuality
            /\ grows => \A i \in (q + 1)..HighQuality : t.sizes[i] > Budget(t)

\* A picture that is cut into pages is on them row by row, each row once,
\* and no page is empty; one that is on a page stays within its margins, is
\* not distorted by more than half a pixel, and is embedded with no more
\* pixels than it has.
PagesExact ==
  Done("convert") /\ call[2].format = "pdf" =>
    LET q == Upright(call[2].picture)
        pdf == result[1]
    IN IF "slices" \in DOMAIN pdf
       THEN /\ Len(pdf.slices) \in 1..MaxPages
            /\ pdf.slices[1][1] = 0 /\ pdf.slices[Len(pdf.slices)][2] = q.h
            /\ \A i \in 1..(Len(pdf.slices) - 1) : pdf.slices[i][2] = pdf.slices[i + 1][1]
            /\ \A i \in DOMAIN pdf.slices : pdf.slices[i][1] < pdf.slices[i][2]
       ELSE LET s == pdf.shown IN
            /\ \A i \in 1..2 : s[i] <= (pdf.page[i] - 2 * (IF call[2].page = NoBox THEN 0 ELSE call[2].margin)) * s[3]
            /\ pdf.crop[1] \in 1..q.w /\ pdf.crop[2] \in 1..q.h
            /\ 2 * Greater(s[1] * pdf.crop[2] - s[2] * pdf.crop[1], s[2] * pdf.crop[1] - s[1] * pdf.crop[2]) <= Greater(s[1], s[2])
            /\ \A i \in 1..2 : pdf.pixels[i] \in 1..pdf.crop[i]

\* An archive has every page of the document in its order or is not made.
ScanExact ==
  Answered("scan") => result[1].entries = << >> \/ (result[1].entries = call[2].pages /\ Upto(call[2].pages, Len(call[2].pages)) <= MaxOutput)

\* What is reported is what is written, but for a JPEG of a turned picture; a
\* width that was asked for is the one of the picture before it is set upright.
WidthExact ==
  Done("convert") /\ call[2].format # "pdf" =>
    /\ result[1].reported = result[1].written \/ (call[2].format = "jpeg" /\ call[2].picture.turned)
    /\ call[2].width # 0 => call[2].width = result[1].reported[1]

\* Pictures keep their shape and place, and files their target; every row and
\* page of a document is there once.
ImagesExact == CanvasExact /\ WidthExact /\ TargetExact /\ PagesExact /\ ScanExact

=============================================================================
