------------------------------- MODULE MCDiscData -------------------------------
(***************************************************************************)
(* The inputs with which the algorithms on disc data are checked.          *)
(***************************************************************************)
EXTENDS DiscData

--------------------------------------------------------------------------------
(* Discs of data and audio tracks *)

Tracks == {"plain", "raw", "audio"} \X {1, 2}
DataTracks(tracks) == Cardinality({i \in DOMAIN tracks : ~IsAudio(tracks[i])})

DiscInputs ==
    {[kind |-> "disc", format |-> f, tracks |-> t, after |-> a] :
        f \in {"mds", "nrgDAO", "nrgETN"}, a \in {0, 5000},
        t \in {s \in UNION {[1 .. n -> Tracks] : n \in 1 .. 3} : DataTracks(s) <= 2}}

--------------------------------------------------------------------------------
(* Raw images that are described by a CUE sheet *)

Lines == {[kind |-> "FILE", binary |-> b] : b \in BOOLEAN}
         \cup {[kind |-> "TRACK", number |-> n, mode |-> m] : n \in 1 .. 2, m \in TrackModes}

CUEInputs ==
    {[kind |-> "cue", lines |-> l, header |-> h, found |-> f, whole |-> 3] :
        l \in UNION {[1 .. n -> Lines] : n \in 1 .. 3},
        h \in Headers, f \in {{}, {"named", "similar"}}}

CCDLines == {[section |-> x, key |-> k, track |-> n] :
                x \in {"Track", "Entry"}, k \in {"mode", "index"}, n \in {0, 1, 120}}
CCDInputs ==
    {[kind |-> "ccd", lines |-> l, header |-> h, found |-> f, whole |-> 3] :
        l \in UNION {[1 .. n -> CCDLines] : n \in 0 .. 2},
        h \in Headers, f \in BOOLEAN}

--------------------------------------------------------------------------------
(* The choice of a parser, and the layout of a raw image without description *)

NameInputs ==
    {[kind |-> "name", ext |-> e, recognised |-> r] :
        e \in {"iso", "img", "bin", "xyz"} \cup StrictParsers,
        r \in SUBSET (StrictParsers \cup {"img"})}

SomeDescriptors ==
    {[sig |-> s, at |-> FD!SignatureOffset[s] + a] :
        s \in {"CD001", "BEA01"}, a \in {32768, 33000, 32784, 37376 + 8, 37632 + 16, 40001}}

RawInputs ==
    {[kind |-> "raw", found |-> f, zero |-> -1, zeros |-> {}, marked |-> {}] :
        f \in {s \in SUBSET SomeDescriptors : Cardinality(s) \in 1 .. 2}}
    \cup
    {[kind |-> "raw", found |-> {}, zero |-> z, zeros |-> s, marked |-> m] :
        z \in {-1, 0, 5, 16, 20, 300},
        s \in {t \in SUBSET FD!Layouts : Cardinality(t) <= 2},
        m \in {t \in SUBSET FD!Layouts : Cardinality(t) <= 1} \cup {FD!Layouts}}

--------------------------------------------------------------------------------
(* Video discs *)

SomeEntries ==
    { [cells |-> 1, coding |-> 8, chars |-> <<>>],
      [cells |-> 1, coding |-> 8, chars |-> <<98, 68, 77, 86>>],
      [cells |-> 3, coding |-> 16, chars |-> BDMV],
      [cells |-> 2, coding |-> 8, chars |-> <<66, 68>>] }

UDFInputs ==
    {[kind |-> "udf", entries |-> e, metadata |-> m, split |-> s, icb |-> i, damaged |-> d] :
        e \in UNION {[1 .. n -> SomeEntries] : n \in 0 .. 3},
        m \in BOOLEAN, s \in BOOLEAN, i \in {2, 8},
        d \in {0, 256, 21, 22, 300, 302, 303, 304, 305}}

--------------------------------------------------------------------------------
(* Commands to a drive *)

MMCInputs ==
    {[kind |-> "mmc", type |-> t, profile |-> p, request |-> r, high |-> h, low |-> l, size |-> s] :
        t \in 1 .. 4, p \in {0, 8, 16, 64}, r \in 0 .. 2, h \in {0, 1},
        l \in {0, 1, 4, 29, 31, 64}, s \in {0, 8, 21, 300}}

--------------------------------------------------------------------------------

MCInputs == DiscInputs \cup CUEInputs \cup CCDInputs \cup NameInputs \cup RawInputs
            \cup UDFInputs \cup MMCInputs
================================================================================
