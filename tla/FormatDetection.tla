----------------------------- MODULE FormatDetection -----------------------------
(***************************************************************************)
(* What kind of image a file is: the choice of a parser (OpenCDImage,      *)
(* ImageFormats/ImageFormats.cpp), and the layout of a raw image, found by *)
(* a volume descriptor or by zeros in its first sectors                    *)
(* (ImageFormats/RawCDFormats.cpp).                                        *)
(***************************************************************************)
EXTENDS Integers, SequencesExt

\* ProbeResult
NoMatch          == 0
ProbableMatch    == 1
NameOnlyMatch    == 2
FormatOnlyMatch  == 4096
SufficientMatch  == NameOnlyMatch + FormatOnlyMatch

\* m_RegisteredParsers, in the order of the map.
Parsers == <<"ccd", "cue", "img", "mds", "nrg">>

\* The parsers of the formats with a description answer by name first, and by
\* content in the second pass, where "recognised" holds the parsers that accept the
\* file's content.
ProbeDescribed(parser, ext, recognised, second) ==
    LET named == IF ext = parser THEN NameOnlyMatch ELSE NoMatch IN
    CASE ~second -> named
      [] second /\ parser \in recognised -> named + FormatOnlyMatch
      [] OTHER -> NoMatch

\* The parser of raw images takes any name, and never claims more for the content.
ProbeRaw(ext, recognised, second) ==
    CASE ~second /\ ext \in {"bin", "img", "iso"} -> NameOnlyMatch
      [] ~second /\ ext \notin {"bin", "img", "iso"} -> ProbableMatch
      [] second /\ "img" \in recognised -> ProbableMatch
      [] OTHER -> NoMatch

Probe(parser, ext, recognised, second) ==
    IF parser = "img" THEN ProbeRaw(ext, recognised, second)
    ELSE ProbeDescribed(parser, ext, recognised, second)

Better(best, parser, score) ==
    IF score > best.score THEN [parser |-> parser, score |-> score] ELSE best

\* A pass over the parsers: the first with the highest score, if that is more than
\* the best so far.
Best(ext, recognised, second, sofar) ==
    LET best[n \in 0 .. Len(Parsers)] ==
            IF n = 0 THEN sofar
            ELSE Better(best[n - 1], Parsers[n], Probe(Parsers[n], ext, recognised, second))
    IN best[Len(Parsers)]

\* Variant: the first pass decides.
ChosenParserAtOnce(ext, recognised) ==
    Best(ext, recognised, FALSE, [parser |-> "none", score |-> NoMatch]).parser

\* OpenCDImage: the parser that is to open the file.
ChosenParser(ext, recognised) ==
    LET first == Best(ext, recognised, FALSE, [parser |-> "none", score |-> NoMatch]) IN
    IF Probe(first.parser, ext, recognised, TRUE) >= SufficientMatch
    THEN first.parser
    ELSE Best(ext, recognised, TRUE, first).parser

--------------------------------------------------------------------------------
(* Raw images *)

SectorSizes == <<2048, 2056, 2336, 2352>>
BaseOffsets == <<0, 8, 16, 24>>
Layouts     == {[sector |-> s, offset |-> o] : s \in ToSet(SectorSizes), o \in ToSet(BaseOffsets)}
NoLayout    == [sector |-> 0, offset |-> 0]

FirstDescriptorSector == 16     \* FIRST_VD_SECTOR
NoOffset              == -1     \* an unsigned -1

\* Where each signature stands in its descriptor.
Signatures      == <<"CD001", "CDROM", "BEA01">>
SignatureOffset == [CD001 |-> 1, CDROM |-> 9, BEA01 |-> 1]

DescriptorAt(layout) == layout.sector * FirstDescriptorSector + layout.offset
FirstIn(found, sig)  == {f.at - SignatureOffset[sig] : f \in {g \in found : g.sig = sig}}
Exact(found, sig)    == {l \in Layouts : DescriptorAt(l) \in FirstIn(found, sig)}

\* The signatures in turn: the first occurrence that fits a layout decides; when
\* none does, the first of all is taken to be in sector 16 of some layout.
ScanVolumeHeaderForSignature(found) ==
    LET fitting == {i \in DOMAIN Signatures : Exact(found, Signatures[i]) # {}}
        any     == {i \in DOMAIN Signatures : FirstIn(found, Signatures[i]) # {}}
        fits    == Exact(found, Signatures[Min(fitting)])
    IN IF fitting # {}
       THEN CHOOSE l \in fits : \A k \in fits : DescriptorAt(l) <= DescriptorAt(k)
       ELSE IF any = {} THEN NoLayout
       ELSE LET at   == Min(FirstIn(found, Signatures[Min(any)]))
                size == 2 * ((at \div FirstDescriptorSector) \div 2)
            IN [sector |-> size, offset |-> at % size]

\* The offset of the first sector, from the first big area of zeros: the least
\* possible one that is not before it.
BaseOffset(firstBigZero) ==
    LET after == {o \in ToSet(BaseOffsets) : firstBigZero # NoOffset /\ firstBigZero <= o}
    IN IF after = {} THEN NoOffset ELSE Min(after)

\* ProbeSectorFormat: a point when the data of the first sectors is zero ("zeros",
\* the layouts of which that is true), and a point when what follows it in each of
\* them is not ("marked"), which a plain sector does not need.
ProbeSectorFormat(zeros, marked, layout) ==
      (IF layout \in zeros THEN 1 ELSE 0)
    + (IF layout.sector <= 2048 \/ layout \in marked THEN 1 ELSE 0)

\* The layouts that are tried: with the base offset that was found, or with all.
Tried(base) ==
    IF base \notin {NoOffset, 0}
    THEN [i \in 1 .. 4 |-> [sector |-> SectorSizes[i], offset |-> base]]
    ELSE [i \in 1 .. 16 |-> [sector |-> SectorSizes[((i - 1) \div 4) + 1],
                             offset |-> BaseOffsets[((i - 1) % 4) + 1]]]

\* What is kept is the first layout with the highest score, but with the base offset
\* that was found, also where all were tried.
Kept(score, base) ==
    LET tried == Tried(base)
        best  == {i \in DOMAIN tried : \A k \in DOMAIN tried : score[tried[i]] >= score[tried[k]]}
    IN [sector |-> tried[Min(best)].sector, offset |-> base]

\* Variant: any layout with both points will do.
DecidedByAny(full) == full # {}

\* The totals are reset before a second pass that is never made, so that only a
\* single layout with both points decides.
Decided(full) == \E i \in full : full = {i}

DetectRawCDFormat(found, firstBigZero, score) ==
    LET base == BaseOffset(firstBigZero)
        full == {i \in DOMAIN Tried(base) : score[Tried(base)[i]] = 2}
    IN IF found # {} THEN ScanVolumeHeaderForSignature(found)
       ELSE IF Decided(full) THEN Kept(score, base)
       ELSE NoLayout
================================================================================
