----------------------------- MODULE PartsProofs -----------------------------
(***************************************************************************)
(* Theorems about what is recorded, what is heard when the squelch closes, *)
(* what the panel is pressed for, and what the tree of bookmarks shows.    *)
(* These parts share no variable: each has an invariant and theorems of    *)
(* its own.                                                                *)
(***************************************************************************)
EXTENDS Recording, SquelchGate, ModemPanel, BookmarkTree, SequenceTheorems, FiniteSetTheorems,
        WellFoundedInduction, TLAPS

-----------------------------------------------------------------------------
(* Recording: the invariant.                                               *)

FrameOf(n, i) == (n - 1) * BlockFrames + i
Samples(count, format) == count * format.channels
Blocks == [number : Nat \ {0}, format : AudioFormats, squelched : BOOLEAN]
WavFiles == [name : Int \X Int \X Int, format : AudioFormats, frames : Seq(Int), header : Int]
IsHandler(w) ==
    /\ DOMAIN w = {"open", "base", "sequence", "size"}
    /\ w.open \in BOOLEAN /\ w.base \in Int /\ w.sequence \in Int

\* Of the handler w, the files fs, the labels of the block written last and what was given.
FilesSound(w, fs, format, given) ==
    /\ IsHandler(w) /\ w.size \in 0 .. FileRoom
    /\ fs \in Seq(WavFiles)
    /\ w.open => /\ fs # << >> /\ fs[Len(fs)].format = format /\ fs[Len(fs)].header = -1
                 /\ w.size = Samples(Len(fs[Len(fs)].frames), format)
    /\ \A k \in DOMAIN fs : fs[k].header \in -1 .. FileRoom
    /\ \A k \in DOMAIN fs :
          (k = Len(fs) /\ w.open) \/ fs[k].header = Samples(Len(fs[k].frames), fs[k].format)
    /\ \A j, k \in DOMAIN fs : fs[j].name = fs[k].name => j = k
    /\ \A k \in DOMAIN fs : \A i, j \in DOMAIN fs[k].frames :
          i < j => fs[k].frames[i] < fs[k].frames[j]
    /\ \A j, k \in DOMAIN fs : j < k =>
          \A a \in DOMAIN fs[j].frames, b \in DOMAIN fs[k].frames : fs[j].frames[a] < fs[k].frames[b]
    /\ \A k \in DOMAIN fs : \A i \in DOMAIN fs[k].frames : fs[k].frames[i] \in given

\* Nothing after the frame number top has been written.
UpTo(fs, top) == \A k \in DOMAIN fs : \A i \in DOMAIN fs[k].frames : fs[k].frames[i] =< top

\* The blocks on their way are newer than what is written, and come in order.
BlocksComeInOrder ==
    /\ \A i \in DOMAIN sinkQueue : sinkQueue[i].number =< audioBlocks
    /\ \A i, j \in DOMAIN sinkQueue : i < j => sinkQueue[i].number < sinkQueue[j].number
    /\ sink.step = "sink" =>
          /\ sink.inp.number =< audioBlocks
          /\ UpTo(files, FrameOf(sink.inp.number, 0))
          /\ \A i \in DOMAIN sinkQueue : sink.inp.number < sinkQueue[i].number
    /\ \A i \in DOMAIN sinkQueue : UpTo(files, FrameOf(sinkQueue[i].number, 0))
    /\ UpTo(files, FrameOf(audioBlocks + 1, 0))

SinkSteps == {"none", "created", "test", "pop", "sink", "ended"}

RecordingTypes ==
    /\ recording \in {"off", "on", "unbound", "terminated"}
    /\ recordings \in 0 .. MaxRecordings
    /\ boundSink \in 0 .. MaxRecordings /\ takenSink \in 0 .. MaxRecordings
    /\ audioBlocks \in Nat /\ seconds \in Nat
    /\ sinkQueue \in Seq(Blocks) /\ Len(sinkQueue) =< SinkQueueMax
    /\ sink.step \in SinkSteps
    /\ DOMAIN sink = {"step", "stopping", "option", "limit", "inp", "inputRef", "since"}
    /\ sink.step = "sink" => sink.inp \in Blocks /\ sink.inp.format = sink.inputRef
    /\ asked \in Seq(Int)

RecordingInv ==
    /\ RecordingTypes
    /\ FilesSound(wav, files, sink.inputRef, ToSet(asked))
    /\ BlocksComeInOrder
    /\ recording = "off" => ~wav.open /\ sink.step = "none"

-----------------------------------------------------------------------------
(* Recording: files.                                                       *)

LEMMA ClosedKeeps ==
  ASSUME NEW w, NEW fs, NEW format, NEW other, NEW given, FilesSound(w, fs, format, given)
  PROVE  /\ FilesSound(Closed(w), CloseFile(w, fs), other, given) /\ ~Closed(w).open
         /\ \A top \in Int : UpTo(fs, top) => UpTo(CloseFile(w, fs), top)
<1> DEFINE v == Closed(w)
<1>1. IsHandler(v) /\ ~v.open /\ v.size \in 0 .. FileRoom
  <2>1. PICK b : b = FALSE
    OBVIOUS
  <2>2. PICK z \in 0 .. FileRoom : z = IF w.open THEN 0 ELSE w.size
    BY RecordingAssumption DEF FilesSound
  <2>3. b \in BOOLEAN /\ v = [w EXCEPT !.open = b, !.size = z]
    BY <2>1, <2>2 DEF Closed
  <2>4. IsHandler(w)
    BY DEF FilesSound
  <2> HIDE DEF v
  <2>5. DOMAIN v = DOMAIN w
    BY <2>3
  <2>6. v.open = b /\ v.size = z /\ v.base = w.base /\ v.sequence = w.sequence
    BY <2>3, <2>4 DEF IsHandler
  <2>7. QED  BY <2>1, <2>4, <2>5, <2>6 DEF IsHandler
<1>2. CASE ~w.open
  <2>1. CloseFile(w, fs) = fs
    BY <1>2 DEF CloseFile
  <2> HIDE DEF v
  <2>2. FilesSound(v, fs, other, given)
    BY <1>2, <1>1 DEF FilesSound
  <2>3. QED  BY <1>1, <2>1, <2>2 DEF v
<1>3. CASE w.open
  <2> DEFINE n == Len(fs)
             gs == CloseFile(w, fs)
             h == Samples(Len(fs[n].frames), fs[n].format)
  <2>1. /\ n \in Nat \ {0} /\ DOMAIN fs = 1 .. n /\ fs \in [1 .. n -> WavFiles]
        /\ IsHandler(w) /\ w.size \in 0 .. FileRoom /\ h = w.size /\ n = Len(fs)
    BY <1>3 DEF FilesSound
  <2>2. gs = [fs EXCEPT ![n].header = h]
    BY <1>3 DEF CloseFile, Samples
  <2> HIDE DEF n, h
  <2>3. gs \in [1 .. n -> WavFiles]
    <3>1. h \in Int
      BY <2>1 DEF IsHandler
    <3> HIDE DEF gs
    <3>2. QED  BY <2>1, <2>2, <3>1 DEF WavFiles
  <2>4. gs \in Seq(WavFiles) /\ Len(gs) = n /\ DOMAIN gs = 1 .. n
    BY <2>1, <2>3
  <2>5. /\ \A k \in 1 .. n : /\ gs[k].name = fs[k].name /\ gs[k].frames = fs[k].frames
                             /\ gs[k].format = fs[k].format
                             /\ k # n => gs[k].header = fs[k].header
        /\ gs[n].header = h
    BY <2>1, <2>2 DEF WavFiles
  <2> HIDE DEF v
  <2> HIDE DEF n, gs, h
  <2>6. FilesSound(v, gs, other, given)
    <3>1. \A k \in DOMAIN gs : gs[k].header \in -1 .. FileRoom
      BY <2>1, <2>4, <2>5 DEF FilesSound
    <3>2. ASSUME NEW k \in DOMAIN gs
          PROVE  gs[k].header = Samples(Len(gs[k].frames), gs[k].format)
      <4>1. CASE k = n
        BY <2>4, <2>5, <4>1 DEF h
      <4>2. CASE k # n
        BY <2>1, <2>4, <2>5, <4>2 DEF FilesSound
      <4>3. QED  BY <4>1, <4>2
    <3>3. \A j, k \in DOMAIN gs : gs[j].name = gs[k].name => j = k
      BY <2>1, <2>4, <2>5 DEF FilesSound
    <3>4. \A k \in DOMAIN gs : \A i, j \in DOMAIN gs[k].frames :
            i < j => gs[k].frames[i] < gs[k].frames[j]
      BY <2>1, <2>4, <2>5 DEF FilesSound
    <3>5. \A j, k \in DOMAIN gs : j < k =>
            \A a \in DOMAIN gs[j].frames, b \in DOMAIN gs[k].frames : gs[j].frames[a] < gs[k].frames[b]
      BY <2>1, <2>4, <2>5 DEF FilesSound
    <3>6. \A k \in DOMAIN gs : \A i \in DOMAIN gs[k].frames : gs[k].frames[i] \in given
      BY <2>1, <2>4, <2>5 DEF FilesSound
    <3>7. QED  BY <1>1, <2>4, <3>1, <3>2, <3>3, <3>4, <3>5, <3>6 DEF FilesSound
  <2>7. \A top \in Int : UpTo(fs, top) => UpTo(gs, top)
    BY <2>1, <2>4, <2>5 DEF UpTo
  <2>8. QED  BY <1>1, <2>6, <2>7 DEF gs, v
<1>4. QED  BY <1>2, <1>3

\* The directory has at most as many files as the program has opened.
LEMMA NameIsNew ==
  ASSUME NEW w, NEW fs \in Seq(WavFiles)
  PROVE  /\ \A k \in DOMAIN fs : fs[k].name # GetOutputFileName(w, fs)
         /\ \E i \in Nat : GetOutputFileName(w, fs) = <<w.base, w.sequence, i>>
<1> DEFINE n == Len(fs)
           taken(i) == \E k \in DOMAIN fs : fs[k].name = <<w.base, w.sequence, i>>
           free == {i \in 0 .. n : ~taken(i)}
           first(i) == ~taken(i) /\ \A j \in 0 .. i - 1 : taken(j)
<1>1. n \in Nat /\ DOMAIN fs = 1 .. n
  OBVIOUS
<1>2. free # {}
  <2>1. SUFFICES ASSUME \A i \in 0 .. n : taken(i) PROVE FALSE
    OBVIOUS
  <2> DEFINE f == [i \in 0 .. n |-> CHOOSE k \in DOMAIN fs : fs[k].name = <<w.base, w.sequence, i>>]
  <2>2. \A i \in 0 .. n : f[i] \in 1 .. n /\ fs[f[i]].name = <<w.base, w.sequence, i>>
    BY <1>1, <2>1
  <2>3. f \in [0 .. n -> 1 .. n]
    BY <2>2
  <2>4. IsFiniteSet(0 .. n) /\ Cardinality(0 .. n) = n + 1
    BY <1>1, FS_Interval
  <2>5. IsFiniteSet(1 .. n) /\ Cardinality(1 .. n) = n
    BY <1>1, FS_Interval
  <2>6. Cardinality(1 .. n) < Cardinality(0 .. n)
    BY <1>1, <2>4, <2>5
  <2> HIDE DEF f, n, taken
  <2>7. \E x, y \in 0 .. n : x # y /\ f[x] = f[y]
    BY <2>3, <2>4, <2>5, <2>6, FS_PigeonHole
  <2>8. QED  BY <2>2, <2>7
<1>3. \E i \in 0 .. n : first(i)
  <2>1. PICK i \in free : \A j \in free : ~(<<j, i>> \in OpToRel(<, Nat))
    <3>1. free \subseteq Nat
      BY <1>1
    <3> HIDE DEF free
    <3>2. QED  BY <1>2, <3>1, NatLessThanWellFounded, WFMin
  <2>2. i \in 0 .. n /\ ~taken(i)
    BY <2>1
  <2> HIDE DEF taken, n
  <2>3. SUFFICES ASSUME NEW j \in 0 .. i - 1, ~taken(j) PROVE FALSE
    BY <2>2
  <2>4. j \in 0 .. n /\ j \in Nat /\ i \in Nat /\ j < i
    BY <1>1, <2>2, <2>3
  <2>5. <<j, i>> \in OpToRel(<, Nat)
    BY <2>4 DEF OpToRel
  <2>6. QED  BY <2>1, <2>3, <2>4, <2>5
<1> DEFINE index == CHOOSE i \in 0 .. n : first(i)
<1>4. index \in 0 .. n /\ ~taken(index)
  <2> HIDE DEF taken
  <2>1. QED  BY <1>3
<1>5. GetOutputFileName(w, fs) = <<w.base, w.sequence, index>>
  BY DEF GetOutputFileName
<1> HIDE DEF index
<1>6. QED  BY <1>1, <1>4, <1>5

LEMMA OpenKeeps ==
  ASSUME NEW w, NEW fs, NEW format, NEW given, FilesSound(w, fs, format, given), ~w.open,
         NEW block \in Blocks
  PROVE  /\ FilesSound([w EXCEPT !.open = TRUE, !.size = 0], OpenFile(w, fs, block), block.format, given)
         /\ \A top \in Int : UpTo(fs, top) => UpTo(OpenFile(w, fs, block), top)
<1> DEFINE n == Len(fs)
           gs == OpenFile(w, fs, block)
           name == GetOutputFileName(w, fs)
           file == [name |-> name, format |-> block.format, frames |-> << >>, header |-> -1]
           v == [w EXCEPT !.open = TRUE, !.size = 0]
<1>1. /\ n \in Nat /\ DOMAIN fs = 1 .. n /\ fs \in [1 .. n -> WavFiles] /\ fs \in Seq(WavFiles)
      /\ IsHandler(w)
  BY DEF FilesSound
<1>2. gs = Append(fs, file)
  BY DEF OpenFile
<1>3. file \in WavFiles
  <2>1. name \in Int \X Int \X Int
    BY <1>1, NameIsNew DEF IsHandler
  <2> HIDE DEF name
  <2>2. QED  BY <2>1 DEF WavFiles, Blocks
<1>4. /\ gs \in Seq(WavFiles) /\ Len(gs) = n + 1 /\ DOMAIN gs = 1 .. n + 1
      /\ \A k \in 1 .. n : gs[k] = fs[k]
      /\ gs[n + 1] = file
  <2> HIDE DEF file
  <2>1. QED  BY <1>1, <1>2, <1>3, AppendProperties
<1>5. IsHandler(v) /\ v.open /\ v.size = 0
  <2>1. PICK b : b = TRUE
    OBVIOUS
  <2>2. v = [w EXCEPT !.open = b, !.size = 0] /\ b \in BOOLEAN
    BY <2>1
  <2> HIDE DEF v
  <2>3. DOMAIN v = DOMAIN w
    BY <2>2
  <2>4. v.open = b /\ v.size = 0 /\ v.base = w.base /\ v.sequence = w.sequence
    BY <1>1, <2>2 DEF IsHandler
  <2>5. QED  BY <1>1, <2>1, <2>3, <2>4 DEF IsHandler
<1>6. file.frames = << >> /\ file.header = -1 /\ file.format = block.format /\ file.name = name
  OBVIOUS
<1>7. \A k \in 1 .. n : fs[k].name # name
  BY <1>1, NameIsNew
<1>8. block.format.channels \in {1, 2} /\ FileRoom \in Nat
  BY RecordingAssumption DEF Blocks
<1> HIDE DEF n, gs, name, file, v
<1>9. FilesSound(v, gs, block.format, given)
  <2>1. v.size = Samples(Len(gs[Len(gs)].frames), block.format)
    BY <1>1, <1>4, <1>5, <1>6, <1>8 DEF Samples
  <2>2. \A k \in DOMAIN gs : gs[k].header \in -1 .. FileRoom
    BY <1>1, <1>4, <1>6, <1>8 DEF FilesSound
  <2>3. \A k \in DOMAIN gs : k = Len(gs) \/ gs[k].header = Samples(Len(gs[k].frames), gs[k].format)
    BY <1>1, <1>4 DEF FilesSound
  <2>4. \A j, k \in DOMAIN gs : gs[j].name = gs[k].name => j = k
    BY <1>1, <1>4, <1>6, <1>7 DEF FilesSound
  <2>5. \A k \in DOMAIN gs : \A i, j \in DOMAIN gs[k].frames :
          i < j => gs[k].frames[i] < gs[k].frames[j]
    BY <1>1, <1>4, <1>6 DEF FilesSound
  <2>6. \A j, k \in DOMAIN gs : j < k =>
          \A a \in DOMAIN gs[j].frames, b \in DOMAIN gs[k].frames : gs[j].frames[a] < gs[k].frames[b]
    <3>1. \A k \in DOMAIN gs : \A b \in DOMAIN gs[k].frames : k \in 1 .. n /\ gs[k] = fs[k]
      BY <1>1, <1>4, <1>6
    <3>2. QED  BY <1>1, <3>1 DEF FilesSound
  <2>7. \A k \in DOMAIN gs : \A i \in DOMAIN gs[k].frames : gs[k].frames[i] \in given
    BY <1>1, <1>4, <1>6 DEF FilesSound
  <2>8. QED  BY <1>1, <1>4, <1>5, <1>6, <1>8, <2>1, <2>2, <2>3, <2>4, <2>5, <2>6, <2>7 DEF FilesSound
<1>10. \A top \in Int : UpTo(fs, top) => UpTo(gs, top)
  BY <1>1, <1>4, <1>6 DEF UpTo
<1>11. QED  BY <1>9, <1>10 DEF v, gs

LEMMA FileTypes ==
  ASSUME NEW fs \in Seq(WavFiles), NEW k \in 1 .. Len(fs)
  PROVE  /\ fs[k].frames \in Seq(Int) /\ Len(fs[k].frames) \in Nat
         /\ DOMAIN fs[k].frames = 1 .. Len(fs[k].frames)
         /\ \A i \in 1 .. Len(fs[k].frames) : fs[k].frames[i] \in Int
         /\ fs[k].format \in AudioFormats
<1>1. fs[k] \in WavFiles
  OBVIOUS
<1>2. fs[k].frames \in Seq(Int) /\ fs[k].format \in AudioFormats
  BY <1>1 DEF WavFiles
<1>3. QED  BY <1>2

LEMMA SamplesAdd ==
  ASSUME NEW format \in AudioFormats, NEW a \in Nat, NEW b \in Nat
  PROVE  /\ Samples(a, format) \in Nat
         /\ Samples(a, format) + Samples(b, format) = Samples(a + b, format)
<1>1. format.channels \in {1, 2}
  BY RecordingAssumption
<1>2. QED  BY <1>1 DEF Samples

\* Frames that are newer than what is written.
Newer(s, low, top, given) ==
    /\ s \in Seq(Int) /\ low \in Int /\ top \in Int /\ low =< top
    /\ \A i \in 1 .. Len(s) : s[i] > low /\ s[i] =< top /\ s[i] \in given
    /\ \A i, j \in 1 .. Len(s) : i < j => s[i] < s[j]

LEMMA NewerAppends ==
  ASSUME NEW old \in Seq(Int), NEW s, NEW low, NEW top, NEW given, Newer(s, low, top, given),
         \A i \in 1 .. Len(old) : old[i] =< low /\ old[i] \in given,
         \A i, j \in 1 .. Len(old) : i < j => old[i] < old[j]
  PROVE  LET all == old \o s
         IN /\ all \in Seq(Int) /\ Len(all) = Len(old) + Len(s) /\ DOMAIN all = 1 .. Len(all)
            /\ \A a \in 1 .. Len(all) : all[a] \in Int /\ all[a] =< top /\ all[a] \in given
            /\ \A a \in 1 .. Len(all) : all[a] > low \/ \E i \in 1 .. Len(old) : all[a] = old[i]
            /\ \A a, b \in 1 .. Len(all) : a < b => all[a] < all[b]
<1> DEFINE all == old \o s
           m == Len(old)
<1>1. s \in Seq(Int) /\ low \in Int /\ top \in Int /\ low =< top /\ Len(s) \in Nat /\ m \in Nat
  BY DEF Newer
<1>2. all \in Seq(Int) /\ Len(all) = m + Len(s) /\ DOMAIN all = 1 .. m + Len(s)
  <2>1. all \in Seq(Int) /\ Len(all) = m + Len(s)
    BY <1>1, ConcatProperties
  <2>2. QED  BY <2>1, LenProperties
<1>3. \A i \in 1 .. m + Len(s) : all[i] = IF i =< m THEN old[i] ELSE s[i - m]
  BY <1>1, ConcatProperties
<1> HIDE DEF all
<1>4. ASSUME NEW a \in 1 .. m + Len(s), a =< m
      PROVE  all[a] = old[a] /\ a \in 1 .. m /\ all[a] =< low /\ all[a] \in given /\ all[a] \in Int
  BY <1>1, <1>3, <1>4
<1>5. ASSUME NEW a \in 1 .. m + Len(s), a > m
      PROVE  /\ all[a] = s[a - m] /\ a - m \in 1 .. Len(s) /\ all[a] \in Int
             /\ all[a] > low /\ all[a] =< top /\ all[a] \in given
  <2>1. a - m \in 1 .. Len(s) /\ ~(a =< m)
    BY <1>1, <1>5
  <2>2. all[a] = s[a - m]
    BY <1>3, <2>1
  <2>3. QED  BY <1>1, <2>1, <2>2 DEF Newer
<1>6. ASSUME NEW a \in 1 .. m + Len(s), NEW b \in 1 .. m + Len(s), a < b
      PROVE  all[a] < all[b]
  <2>1. CASE b =< m
    <3>1. a =< m /\ a \in 1 .. m /\ b \in 1 .. m
      BY <1>1, <1>6, <2>1
    <3>2. all[a] = old[a] /\ all[b] = old[b]
      BY <1>4, <2>1, <3>1
    <3>3. QED  BY <1>6, <3>1, <3>2
  <2>2. CASE b > m /\ a =< m
    BY <1>1, <1>4, <1>5, <2>2
  <2>3. CASE b > m /\ a > m
    <3>1. a - m \in 1 .. Len(s) /\ b - m \in 1 .. Len(s) /\ a - m < b - m
      BY <1>1, <1>6, <2>3
    <3>2. s[a - m] < s[b - m]
      BY <3>1 DEF Newer
    <3>3. QED  BY <1>5, <2>3, <3>2
  <2>4. QED  BY <1>1, <2>1, <2>2, <2>3
<1>7. \A a \in 1 .. m + Len(s) : all[a] \in Int /\ all[a] =< top /\ all[a] \in given
  BY <1>1, <1>4, <1>5
<1>8. ASSUME NEW a \in 1 .. m + Len(s) PROVE all[a] > low \/ \E i \in 1 .. m : all[a] = old[i]
  <2>1. CASE a =< m
    BY <1>4, <2>1
  <2>2. CASE a > m
    BY <1>5, <2>2
  <2>3. QED  BY <1>1, <2>1, <2>2
<1>9. QED  BY <1>2, <1>6, <1>7, <1>8 DEF all

LEMMA WriteKeeps ==
  ASSUME NEW w, NEW fs, NEW format \in AudioFormats, NEW given, FilesSound(w, fs, format, given), w.open,
         NEW s, NEW low, NEW top, Newer(s, low, top, given), UpTo(fs, low),
         w.size + Samples(Len(s), format) =< FileRoom
  PROVE  /\ FilesSound([w EXCEPT !.size = @ + Samples(Len(s), format)], WritePayload(fs, s), format, given)
         /\ UpTo(WritePayload(fs, s), top)
<1> DEFINE n == Len(fs)
           gs == WritePayload(fs, s)
           all == fs[n].frames \o s
           v == [w EXCEPT !.size = @ + Samples(Len(s), format)]
<1>1. /\ n \in Nat \ {0} /\ DOMAIN fs = 1 .. n /\ fs \in [1 .. n -> WavFiles] /\ fs \in Seq(WavFiles)
      /\ IsHandler(w) /\ w.size \in 0 .. FileRoom /\ n = Len(fs)
      /\ w.size = Samples(Len(fs[n].frames), format) /\ fs[n].format = format /\ fs[n].header = -1
  BY DEF FilesSound
<1> HIDE DEF n
<1>2. /\ fs[n].frames \in Seq(Int) /\ Len(fs[n].frames) \in Nat
      /\ DOMAIN fs[n].frames = 1 .. Len(fs[n].frames)
  BY <1>1, FileTypes
<1>3. /\ \A i \in 1 .. Len(fs[n].frames) : fs[n].frames[i] =< low
      /\ \A i \in 1 .. Len(fs[n].frames) : fs[n].frames[i] \in given
      /\ \A i, j \in 1 .. Len(fs[n].frames) : i < j => fs[n].frames[i] < fs[n].frames[j]
  <2>1. n \in DOMAIN fs
    BY <1>1
  <2>2. \A i \in DOMAIN fs[n].frames : fs[n].frames[i] =< low
    BY <2>1 DEF UpTo
  <2>3. /\ \A i \in DOMAIN fs[n].frames : fs[n].frames[i] \in given
        /\ \A i, j \in DOMAIN fs[n].frames : i < j => fs[n].frames[i] < fs[n].frames[j]
    BY <2>1 DEF FilesSound
  <2>4. QED  BY <1>2, <2>2, <2>3
<1>4. /\ all \in Seq(Int) /\ Len(all) = Len(fs[n].frames) + Len(s) /\ DOMAIN all = 1 .. Len(all)
      /\ \A a \in 1 .. Len(all) : all[a] \in Int /\ all[a] =< top /\ all[a] \in given
      /\ \A a \in 1 .. Len(all) : all[a] > low \/ \E i \in 1 .. Len(fs[n].frames) : all[a] = fs[n].frames[i]
      /\ \A a, b \in 1 .. Len(all) : a < b => all[a] < all[b]
  BY <1>2, <1>3, NewerAppends
<1>5. low \in Int /\ top \in Int /\ low =< top /\ s \in Seq(Int) /\ Len(s) \in Nat
  BY DEF Newer
<1>6. gs = [fs EXCEPT ![n].frames = all]
  BY <1>1 DEF WritePayload
<1> HIDE DEF all
<1>7. gs \in [1 .. n -> WavFiles]
  <2>1. \A f \in Seq(Int), file \in WavFiles : [file EXCEPT !.frames = f] \in WavFiles
    BY DEF WavFiles
  <2>2. fs[n] \in WavFiles /\ [fs[n] EXCEPT !.frames = all] \in WavFiles
    BY <1>1, <1>4, <2>1
  <2> HIDE DEF gs
  <2>3. QED  BY <1>1, <1>6, <2>2
<1>8. /\ \A k \in 1 .. n : /\ gs[k].name = fs[k].name /\ gs[k].header = fs[k].header
                           /\ gs[k].format = fs[k].format
                           /\ k # n => gs[k].frames = fs[k].frames
      /\ gs[n].frames = all
  <2>1. \A file \in WavFiles : LET x == [file EXCEPT !.frames = all]
                               IN  /\ x.name = file.name /\ x.header = file.header
                                   /\ x.format = file.format /\ x.frames = all
    BY DEF WavFiles
  <2>2. gs[n] = [fs[n] EXCEPT !.frames = all] /\ \A k \in 1 .. n : k # n => gs[k] = fs[k]
    BY <1>1, <1>6
  <2>3. fs[n] \in WavFiles
    BY <1>1
  <2> HIDE DEF gs
  <2>4. /\ gs[n].name = fs[n].name /\ gs[n].header = fs[n].header
        /\ gs[n].format = fs[n].format /\ gs[n].frames = all
    BY <2>1, <2>2, <2>3
  <2>5. QED  BY <2>2, <2>4
<1> HIDE DEF gs
<1>9. gs \in Seq(WavFiles) /\ Len(gs) = n /\ DOMAIN gs = 1 .. n
  BY <1>1, <1>7
<1>10. IsHandler(v) /\ v.open /\ v.size \in 0 .. FileRoom /\ v.size = Samples(Len(all), format)
  <2>0. Samples(Len(s), format) \in Nat
    BY <1>5, SamplesAdd
  <2>1. PICK z \in Int : z = w.size + Samples(Len(s), format)
    BY <1>1, <2>0
  <2>2. v = [w EXCEPT !.size = z]
    BY <2>1
  <2>3. IsHandler(v) /\ v.open = w.open /\ v.size = z
    <3> HIDE DEF v
    <3>1. QED  BY <1>1, <2>2 DEF IsHandler
  <2>4. z = Samples(Len(all), format) /\ z \in 0 .. FileRoom
    <3>1. Samples(Len(fs[n].frames), format) + Samples(Len(s), format)
            = Samples(Len(fs[n].frames) + Len(s), format)
      BY <1>2, <1>5, SamplesAdd
    <3>2. QED  BY <1>1, <1>4, <2>0, <2>1, <3>1, RecordingAssumption
  <2> HIDE DEF v
  <2>5. QED  BY <2>3, <2>4
<1> HIDE DEF v
<1>11. FilesSound(v, gs, format, given)
  <2>1. \A k \in DOMAIN gs : gs[k].header \in -1 .. FileRoom
    BY <1>1, <1>8, <1>9 DEF FilesSound
  <2>2. \A k \in DOMAIN gs : k = n \/ gs[k].header = Samples(Len(gs[k].frames), gs[k].format)
    BY <1>1, <1>8, <1>9 DEF FilesSound
  <2>3. \A j, k \in DOMAIN gs : gs[j].name = gs[k].name => j = k
    BY <1>1, <1>8, <1>9 DEF FilesSound
  <2>4. ASSUME NEW k \in DOMAIN gs
        PROVE  \A i, j \in DOMAIN gs[k].frames : i < j => gs[k].frames[i] < gs[k].frames[j]
    <3>1. CASE k = n
      BY <1>4, <1>8, <3>1
    <3>2. CASE k # n
      BY <1>1, <1>8, <1>9, <3>2 DEF FilesSound
    <3>3. QED  BY <3>1, <3>2
  <2>5. \A j, k \in DOMAIN gs : j < k =>
          \A a \in DOMAIN gs[j].frames, b \in DOMAIN gs[k].frames : gs[j].frames[a] < gs[k].frames[b]
    <3>1. SUFFICES ASSUME NEW j \in 1 .. n, NEW k \in 1 .. n, j < k,
                          NEW a \in DOMAIN gs[j].frames, NEW b \in DOMAIN gs[k].frames
                   PROVE  gs[j].frames[a] < gs[k].frames[b]
      BY <1>9
    <3>2. gs[j].frames = fs[j].frames /\ j # n
      <4>1. j # n
        <5>1. n \in Nat
          BY <1>1
        <5>2. QED  BY <3>1, <5>1
      <4>2. QED  BY <1>8, <3>1, <4>1
    <3>3. CASE k # n
      BY <1>1, <1>8, <3>1, <3>2, <3>3 DEF FilesSound
    <3>4. CASE k = n
      <4>1. fs[j].frames[a] =< low /\ fs[j].frames[a] \in Int
        BY <1>1, <3>1, <3>2, FileTypes DEF UpTo
      <4>2. b \in 1 .. Len(all) /\ gs[k].frames[b] = all[b] /\ all[b] \in Int
        BY <1>4, <1>8, <3>1, <3>4
      <4>3. CASE all[b] > low
        BY <1>5, <3>2, <4>1, <4>2, <4>3
      <4>4. ASSUME NEW i \in 1 .. Len(fs[n].frames), all[b] = fs[n].frames[i]
            PROVE  fs[j].frames[a] < all[b]
        BY <1>1, <1>2, <3>1, <3>2, <3>4, <4>4 DEF FilesSound
      <4>5. QED  BY <1>4, <3>2, <4>2, <4>3, <4>4
    <3>5. QED  BY <3>3, <3>4
  <2>6. ASSUME NEW k \in DOMAIN gs
        PROVE  \A i \in DOMAIN gs[k].frames : gs[k].frames[i] \in given
    <3>1. CASE k = n
      BY <1>4, <1>8, <3>1
    <3>2. CASE k # n
      BY <1>1, <1>8, <1>9, <3>2 DEF FilesSound
    <3>3. QED  BY <3>1, <3>2
  <2>7. gs # << >> /\ gs[n].format = format /\ gs[n].header = -1 /\ gs[n].frames = all
    <3>1. n \in 1 .. n
      BY <1>1
    <3>2. QED  BY <1>1, <1>8, <1>9, <3>1
  <2>8. QED  BY <1>9, <1>10, <2>1, <2>2, <2>3, <2>4, <2>5, <2>6, <2>7 DEF FilesSound
<1>12. UpTo(gs, top)
  <2>1. SUFFICES ASSUME NEW k \in 1 .. n, NEW i \in DOMAIN gs[k].frames PROVE gs[k].frames[i] =< top
    BY <1>9 DEF UpTo
  <2>2. CASE k # n
    <3>1. gs[k].frames = fs[k].frames
      BY <1>8, <2>1, <2>2
    <3>2. fs[k].frames[i] =< low /\ fs[k].frames[i] \in Int
      BY <1>1, <2>1, <3>1, FileTypes DEF UpTo
    <3>3. QED  BY <1>5, <3>1, <3>2
  <2>3. CASE k = n
    BY <1>4, <1>8, <2>1, <2>3
  <2>4. QED  BY <2>2, <2>3
<1>13. QED  BY <1>11, <1>12 DEF v, gs

LEMMA FramesAreOrdered ==
  ASSUME NEW n \in Nat, NEW i \in Int, NEW j \in Int
  PROVE  /\ FrameOf(n, i) \in Int /\ FrameOf(n, j) \in Int
         /\ i < j => FrameOf(n, i) < FrameOf(n, j)
         /\ i =< j => FrameOf(n, i) =< FrameOf(n, j)
<1>1. PICK k \in Int : k = (n - 1) * BlockFrames
  BY RecordingAssumption
<1>2. FrameOf(n, i) = k + i /\ FrameOf(n, j) = k + j
  BY <1>1 DEF FrameOf
<1>3. QED  BY <1>2

LEMMA FrameIsANumber ==
  ASSUME NEW n \in Nat, NEW i \in Int
  PROVE  FrameOf(n, i) \in Int
  BY RecordingAssumption DEF FrameOf

LEMMA BlocksAreOrdered ==
  ASSUME NEW n \in Nat, NEW m \in Nat
  PROVE  /\ FrameOf(n, BlockFrames) = FrameOf(n + 1, 0)
         /\ n =< m => FrameOf(n, 0) =< FrameOf(m, 0)
         /\ n < m => FrameOf(n, BlockFrames) =< FrameOf(m, 0)
<1>1. BlockFrames \in Nat
  BY RecordingAssumption
<1>2. FrameOf(n, BlockFrames) = FrameOf(n + 1, 0)
  BY <1>1 DEF FrameOf
<1>3. ASSUME NEW a \in Nat, NEW b \in Nat, a =< b PROVE FrameOf(a, 0) =< FrameOf(b, 0)
  <2>1. (b - 1) * BlockFrames = (a - 1) * BlockFrames + (b - a) * BlockFrames
    BY <1>1
  <2>2. b - a \in Nat
    BY <1>3
  <2>3. (b - a) * BlockFrames \in Nat /\ (a - 1) * BlockFrames \in Int
    BY <1>1, <2>2
  <2>4. QED  BY <2>1, <2>3 DEF FrameOf
<1>4. n < m => FrameOf(n + 1, 0) =< FrameOf(m, 0)
  BY <1>3
<1>5. QED  BY <1>2, <1>3, <1>4

LEMMA FramesAreFrames ==
  ASSUME NEW block \in Blocks
  PROVE  /\ Frames(block) \in Seq(Int) /\ Len(Frames(block)) = BlockFrames
         /\ \A i \in 1 .. BlockFrames : Frames(block)[i] = FrameOf(block.number, i)
         /\ ToSet(Frames(block)) = {FrameOf(block.number, i) : i \in 1 .. BlockFrames}
<1>1. BlockFrames \in Nat /\ block.number \in Nat
  BY RecordingAssumption DEF Blocks
<1>2. Frames(block) = [i \in 1 .. BlockFrames |-> FrameOf(block.number, i)]
  BY DEF Frames, FrameOf
<1>3. \A i \in 1 .. BlockFrames : FrameOf(block.number, i) \in Int
  BY <1>1, FramesAreOrdered
<1>4. Frames(block) \in [1 .. BlockFrames -> Int]
  BY <1>2, <1>3
<1>5. Frames(block) \in Seq(Int) /\ Len(Frames(block)) = BlockFrames
  BY <1>1, <1>4
<1>6. QED  BY <1>1, <1>2, <1>4, <1>5 DEF ToSet

\* A payload that starts after the frames up to done, which are written.
LEMMA PayloadIsNewer ==
  ASSUME NEW block \in Blocks, NEW start \in Nat, NEW end, NEW stop \in 0 .. BlockFrames,
         end \div block.format.channels = stop,
         NEW done \in 0 .. start, NEW top \in done .. BlockFrames, stop =< top,
         NEW given, ToSet(Frames(block)) \subseteq given
  PROVE  /\ Newer(Payload(block, start, end), FrameOf(block.number, done),
                  FrameOf(block.number, top), given)
         /\ Len(Payload(block, start, end)) = IF start < stop THEN stop - start ELSE 0
<1> DEFINE s == Payload(block, start, end)
           n == block.number
<1>1. BlockFrames \in Nat /\ n \in Nat
  BY RecordingAssumption DEF Blocks
<1>2. s = SubSeq(Frames(block), start + 1, stop)
  BY DEF Payload
<1>3. ASSUME NEW i \in start + 1 .. stop
      PROVE  Frames(block)[i] = FrameOf(n, i) /\ Frames(block)[i] \in Int
  <2>1. i \in 1 .. BlockFrames /\ i \in Int
    BY <1>1
  <2>2. QED  BY <1>1, <2>1, FramesAreFrames, FramesAreOrdered
<1>4. /\ s \in Seq(Int) /\ Len(s) = IF start + 1 =< stop THEN stop - (start + 1) + 1 ELSE 0
      /\ \A i \in 1 .. stop - (start + 1) + 1 : s[i] = Frames(block)[(start + 1) + i - 1]
  BY <1>1, <1>2, <1>3, SubSeqProperties
<1> HIDE DEF s
<1>5. Len(s) = IF start < stop THEN stop - start ELSE 0
  BY <1>1, <1>4
<1>6. ASSUME NEW i \in 1 .. Len(s)
      PROVE  s[i] = FrameOf(n, start + i) /\ start + i \in 1 .. stop /\ done < start + i
  <2>1. i \in 1 .. stop - (start + 1) + 1 /\ (start + 1) + i - 1 = start + i
    BY <1>1, <1>5
  <2>2. start + i \in start + 1 .. stop
    BY <1>1, <1>5
  <2>3. s[i] = Frames(block)[start + i]
    BY <1>4, <2>1
  <2>4. QED  BY <1>1, <1>3, <2>2, <2>3
<1> HIDE DEF n
<1>7. FrameOf(n, done) \in Int /\ FrameOf(n, top) \in Int /\ FrameOf(n, done) =< FrameOf(n, top)
  <2>1. done \in Int /\ top \in Int /\ done =< top
    BY <1>1
  <2>2. QED  BY <1>1, <2>1, FramesAreOrdered
<1>8. ASSUME NEW i \in 1 .. Len(s)
      PROVE  s[i] > FrameOf(n, done) /\ s[i] =< FrameOf(n, top) /\ s[i] \in given
  <2>1. start + i \in 1 .. BlockFrames /\ start + i =< top /\ done < start + i /\ start + i \in Int
    BY <1>1, <1>6
  <2>2. FrameOf(n, start + i) \in given
    BY <2>1, FramesAreFrames DEF n
  <2>3. FrameOf(n, done) < FrameOf(n, start + i) /\ FrameOf(n, start + i) =< FrameOf(n, top)
    <3>1. done \in Int /\ top \in Int
      BY <1>1
    <3>2. QED  BY <1>1, <2>1, <3>1, FramesAreOrdered
  <2>4. FrameOf(n, start + i) \in Int
    BY <1>1, <2>1, FramesAreOrdered
  <2>5. QED  BY <1>6, <1>7, <2>2, <2>3, <2>4
<1>9. ASSUME NEW i \in 1 .. Len(s), NEW j \in 1 .. Len(s), i < j PROVE s[i] < s[j]
  <2>1. start + i \in Int /\ start + j \in Int /\ start + i < start + j
    BY <1>1, <1>5, <1>9
  <2>2. FrameOf(n, start + i) < FrameOf(n, start + j)
    BY <1>1, <2>1, FramesAreOrdered
  <2>3. QED  BY <1>6, <2>2
<1>10. QED  BY <1>4, <1>5, <1>7, <1>8, <1>9 DEF Newer, s, n

LEMMA RoomIsEnough ==
  ASSUME NEW format \in AudioFormats, NEW size \in 0 .. FileRoom,
         NEW room, room = (FileRoom - size) \div format.channels
  PROVE  LET samples == BlockFrames * format.channels
         IN /\ room \in Nat /\ samples \in Nat /\ samples \div format.channels = BlockFrames
            /\ Samples(BlockFrames, format) = samples /\ samples =< FileRoom
            /\ room >= samples => size + samples =< FileRoom
            /\ room < samples =>
                  /\ room \div format.channels \in 0 .. BlockFrames
                  /\ room \div format.channels =< room
                  /\ size + Samples(room \div format.channels, format) =< FileRoom
<1>1. BlockFrames \in Nat /\ FileRoom \in Nat /\ size \in Nat /\ size =< FileRoom
  BY RecordingAssumption
<1>2. BlockFrames * format.channels =< FileRoom \div format.channels
  BY RecordingAssumption
<1>3. CASE format.channels = 1
  BY <1>1, <1>2, <1>3 DEF Samples
<1>4. CASE format.channels = 2
  BY <1>1, <1>2, <1>4 DEF Samples
<1>5. QED  BY <1>3, <1>4, RecordingAssumption

\* What is known of a handler is what its fields say.
LEMMA SameHandler ==
  ASSUME NEW w, NEW v, NEW fs, NEW format, NEW given, FilesSound(w, fs, format, given),
         IsHandler(v), v.open = w.open, v.size = w.size
  PROVE  FilesSound(v, fs, format, given)
  BY DEF FilesSound

\* A file to write to: the one that is open, or a new one.
LEMMA FileIsOpen ==
  ASSUME NEW w, NEW fs, NEW given, NEW block \in Blocks, FilesSound(w, fs, block.format, given)
  PROVE  LET v == [w EXCEPT !.open = TRUE, !.size = IF w.open THEN @ ELSE 0]
             opened == IF w.open THEN fs ELSE OpenFile(w, fs, block)
         IN /\ FilesSound(v, opened, block.format, given) /\ v.open
            /\ \A top \in Int : UpTo(fs, top) => UpTo(opened, top)
<1> DEFINE v == [w EXCEPT !.open = TRUE, !.size = IF w.open THEN @ ELSE 0]
<1>1. CASE w.open
  <2>1. PICK b : b = TRUE
    OBVIOUS
  <2>2. v = [w EXCEPT !.open = b, !.size = @] /\ b \in BOOLEAN
    BY <1>1, <2>1
  <2>3. IsHandler(w)
    BY DEF FilesSound
  <2> HIDE DEF v
  <2>4. DOMAIN v = DOMAIN w
    BY <2>2
  <2>5. v.open = b /\ v.size = w.size /\ v.base = w.base /\ v.sequence = w.sequence
    BY <2>2, <2>3 DEF IsHandler
  <2>6. IsHandler(v) /\ v.open = w.open /\ v.open
    BY <1>1, <2>1, <2>3, <2>4, <2>5 DEF IsHandler
  <2>7. FilesSound(v, fs, block.format, given)
    BY <2>5, <2>6, SameHandler
  <2>8. QED  BY <1>1, <2>6, <2>7 DEF v
<1>2. CASE ~w.open
  <2>1. v = [w EXCEPT !.open = TRUE, !.size = 0]
    BY <1>2
  <2>2. FilesSound(v, OpenFile(w, fs, block), block.format, given)
    BY <1>2, <2>1, OpenKeeps
  <2>3. v.open
    <3>1. DOMAIN w = {"open", "base", "sequence", "size"}
      BY DEF FilesSound, IsHandler
    <3>2. QED  BY <2>1, <3>1
  <2>4. QED  BY <1>2, <2>2, <2>3, OpenKeeps
<1>3. QED  BY <1>1, <1>2

\* A full file is closed, and one with the next sequence number is opened.
LEMMA NextFileIsOpen ==
  ASSUME NEW w, NEW fs, NEW given, NEW block \in Blocks, FilesSound(w, fs, block.format, given), w.open
  PROVE  LET next == [w EXCEPT !.sequence = @ + 1, !.size = 0]
             opened == OpenFile(next, CloseFile(w, fs), block)
         IN /\ FilesSound(next, opened, block.format, given) /\ next.open /\ next.size = 0
            /\ \A top \in Int : UpTo(fs, top) => UpTo(opened, top)
<1> DEFINE next == [w EXCEPT !.sequence = @ + 1, !.size = 0]
           u == [Closed(w) EXCEPT !.sequence = @ + 1]
           closed == CloseFile(w, fs)
<1>1. /\ FilesSound(Closed(w), closed, block.format, given) /\ ~Closed(w).open
      /\ \A top \in Int : UpTo(fs, top) => UpTo(closed, top)
  BY ClosedKeeps
<1>2. IsHandler(w) /\ IsHandler(Closed(w))
  BY <1>1 DEF FilesSound
<1>3. Closed(w).base = w.base /\ Closed(w).sequence = w.sequence
  BY <1>2 DEF Closed, IsHandler
<1>4. /\ DOMAIN u = DOMAIN Closed(w)
      /\ u.open = Closed(w).open /\ u.size = Closed(w).size /\ u.base = w.base
      /\ u.sequence = w.sequence + 1
  BY <1>2, <1>3 DEF IsHandler
<1>5. IsHandler(u)
  BY <1>2, <1>4 DEF IsHandler
<1>6. /\ DOMAIN next = DOMAIN w /\ next.open = w.open /\ next.size = 0 /\ next.base = w.base
      /\ next.sequence = w.sequence + 1
  BY <1>2 DEF IsHandler
<1> HIDE DEF u, next, closed
<1>7. IsHandler(next)
  BY <1>2, <1>6 DEF IsHandler
<1>8. FilesSound(u, closed, block.format, given)
  BY <1>1, <1>4, <1>5, SameHandler
<1>9. OpenFile(u, closed, block) = OpenFile(next, closed, block)
  BY <1>4, <1>6 DEF OpenFile, GetOutputFileName
<1> DEFINE v == [u EXCEPT !.open = TRUE, !.size = 0]
<1>10. /\ FilesSound(v, OpenFile(next, closed, block), block.format, given)
       /\ \A top \in Int : UpTo(closed, top) => UpTo(OpenFile(next, closed, block), top)
  BY <1>1, <1>4, <1>8, <1>9, OpenKeeps
<1>11. v.open /\ v.size = 0 /\ v.open \in BOOLEAN
  BY <1>5, <1>10 DEF IsHandler, FilesSound
<1> HIDE DEF v
<1>12. v.open = next.open
  BY <1>2, <1>6, <1>11 DEF IsHandler
<1>13. FilesSound(next, OpenFile(next, closed, block), block.format, given)
  BY <1>6, <1>7, <1>10, <1>11, <1>12, SameHandler
<1>14. QED  BY <1>1, <1>6, <1>10, <1>13 DEF next, closed

LEMMA WriteToFileKeeps ==
  ASSUME NEW w, NEW fs, NEW given, NEW block \in Blocks, FilesSound(w, fs, block.format, given),
         ToSet(Frames(block)) \subseteq given, UpTo(fs, FrameOf(block.number, 0))
  PROVE  LET written == WriteToFile(w, fs, block)
         IN /\ FilesSound(written.wav, written.files, block.format, given)
            /\ UpTo(written.files, FrameOf(block.number, BlockFrames))
<1> DEFINE format == block.format
           n == block.number
           samples == BlockFrames * format.channels
           w1 == [w EXCEPT !.open = TRUE, !.size = IF w.open THEN @ ELSE 0]
           opened == IF w.open THEN fs ELSE OpenFile(w, fs, block)
           room == GetMaxWritableNumberOfSamples(w1, block)
           head == Payload(block, 0, IF room >= samples THEN samples ELSE room)
           w2 == [w1 EXCEPT !.size = @ + Samples(Len(head), format)]
           full == WritePayload(opened, head)
           next == [w2 EXCEPT !.sequence = @ + 1, !.size = 0]
           rest == Payload(block, room, samples)
<1>1. BlockFrames \in Nat /\ n \in Nat /\ format \in AudioFormats
  BY RecordingAssumption DEF Blocks
<1>2. \A i \in Int : FrameOf(n, i) \in Int
  BY <1>1, FramesAreOrdered
<1>3. FilesSound(w1, opened, format, given) /\ w1.open /\ UpTo(opened, FrameOf(n, 0))
  <2>1. /\ FilesSound(w1, opened, format, given) /\ w1.open
        /\ \A top \in Int : UpTo(fs, top) => UpTo(opened, top)
    BY FileIsOpen
  <2>2. FrameOf(n, 0) \in Int
    BY <1>2
  <2> HIDE DEF w1, opened, format
  <2>3. QED  BY <2>1, <2>2
<1>4. w1.size \in 0 .. FileRoom
  BY <1>3 DEF FilesSound
<1>5. room = (FileRoom - w1.size) \div format.channels
  BY DEF GetMaxWritableNumberOfSamples
<1> HIDE DEF w1, opened
<1>6. CASE room >= samples
  <2>1. WriteToFile(w, fs, block) = [wav |-> w2, files |-> full]
    BY <1>6 DEF WriteToFile, w1, opened, Samples
  <2>2. samples \in Nat /\ samples \div format.channels = BlockFrames
    BY <1>1, <1>4, <1>5, RoomIsEnough
  <2>3. head = Payload(block, 0, samples)
    BY <1>6
  <2>4. Newer(head, FrameOf(n, 0), FrameOf(n, BlockFrames), given) /\ Len(head) = BlockFrames
    <3> HIDE DEF head, samples, room
    <3>1. 0 \in Nat /\ BlockFrames \in 0 .. BlockFrames /\ 0 \in 0 .. 0 /\ BlockFrames =< BlockFrames
      BY <1>1
    <3>2. /\ Newer(head, FrameOf(n, 0), FrameOf(n, BlockFrames), given)
          /\ Len(head) = IF 0 < BlockFrames THEN BlockFrames - 0 ELSE 0
      BY <2>2, <2>3, <3>1, PayloadIsNewer
    <3>3. QED  BY <1>1, <3>2
  <2>5. w1.size + Samples(Len(head), format) =< FileRoom
    BY <1>1, <1>4, <1>5, <1>6, <2>4, RoomIsEnough
  <2> HIDE DEF head, samples, room, format, n
  <2>6. FilesSound(w2, full, format, given) /\ UpTo(full, FrameOf(n, BlockFrames))
    BY <1>1, <1>3, <2>4, <2>5, WriteKeeps
  <2> HIDE DEF w2, full
  <2>7. QED  BY <2>1, <2>6 DEF format, n
<1>7. CASE room < samples
  <2> DEFINE h == room \div format.channels
             opened2 == OpenFile(next, CloseFile(w2, full), block)
             w3 == [next EXCEPT !.size = @ + Samples(Len(rest), format)]
             w4 == [next EXCEPT !.size = Samples(Len(rest), format)]
  <2>1. /\ room \in Nat /\ samples \in Nat /\ samples \div format.channels = BlockFrames
        /\ h \in 0 .. BlockFrames /\ h =< room /\ w1.size + Samples(h, format) =< FileRoom
        /\ Samples(BlockFrames, format) =< FileRoom
    BY <1>1, <1>4, <1>5, <1>7, RoomIsEnough
  <2>2. ~(room >= samples)
    BY <1>7, <2>1
  <2>3. WriteToFile(w, fs, block) = [wav |-> w4, files |-> WritePayload(opened2, rest)]
    BY <2>2 DEF WriteToFile, w1, opened, Samples, Dumped
  <2>4. head = Payload(block, 0, room)
    BY <2>2
  <2>5. Newer(head, FrameOf(n, 0), FrameOf(n, h), given) /\ Len(head) = h
    <3>1. h = room \div format.channels
      OBVIOUS
    <3> HIDE DEF head, samples, room, h
    <3>2. 0 \in Nat /\ 0 \in 0 .. 0 /\ h \in 0 .. BlockFrames /\ h =< h /\ h \in Nat
      BY <1>1, <2>1
    <3>3. /\ Newer(head, FrameOf(n, 0), FrameOf(n, h), given)
          /\ Len(head) = IF 0 < h THEN h - 0 ELSE 0
      BY <2>4, <3>1, <3>2, PayloadIsNewer
    <3>4. QED  BY <3>2, <3>3
  <2>6. /\ Newer(rest, FrameOf(n, h), FrameOf(n, BlockFrames), given)
        /\ Len(rest) \in Nat /\ Len(rest) =< BlockFrames
    <3>1. rest = Payload(block, room, samples)
      OBVIOUS
    <3> HIDE DEF rest, samples, room, h
    <3>2. h \in 0 .. room /\ BlockFrames \in h .. BlockFrames /\ BlockFrames \in 0 .. BlockFrames
          /\ BlockFrames =< BlockFrames
      BY <1>1, <2>1
    <3>3. /\ Newer(rest, FrameOf(n, h), FrameOf(n, BlockFrames), given)
          /\ Len(rest) = IF room < BlockFrames THEN BlockFrames - room ELSE 0
      BY <2>1, <3>1, <3>2, PayloadIsNewer
    <3>4. QED  BY <1>1, <2>1, <3>3
  <2>7. h \in Int /\ FrameOf(n, h) \in Int
    BY <1>2, <2>1
  <2> HIDE DEF head, rest, samples, room, h, format, n
  <2>8. FilesSound(w2, full, format, given) /\ UpTo(full, FrameOf(n, h))
    BY <1>1, <1>3, <2>1, <2>5, WriteKeeps
  <2>9. w2.open
    <3>1. IsHandler(w1)
      BY <1>3 DEF FilesSound
    <3>2. w2.open = w1.open
      BY <3>1 DEF IsHandler
    <3>3. QED  BY <1>3, <3>2
  <2> HIDE DEF w2, full
  <2>10. /\ FilesSound(next, opened2, format, given) /\ next.open /\ next.size = 0
         /\ UpTo(opened2, FrameOf(n, h))
    BY <2>7, <2>8, <2>9, NextFileIsOpen DEF format
  <2> HIDE DEF next, opened2
  <2>11. Samples(Len(rest), format) =< FileRoom /\ Samples(Len(rest), format) \in Nat
    <3>1. BlockFrames - Len(rest) \in Nat
      BY <1>1, <2>6
    <3>2. /\ Samples(Len(rest), format) \in Nat /\ Samples(BlockFrames - Len(rest), format) \in Nat
          /\ Samples(Len(rest), format) + Samples(BlockFrames - Len(rest), format)
               = Samples(Len(rest) + (BlockFrames - Len(rest)), format)
      BY <1>1, <2>6, <3>1, SamplesAdd
    <3>3. Len(rest) + (BlockFrames - Len(rest)) = BlockFrames
      BY <1>1, <2>6
    <3>4. QED  BY <2>1, <3>2, <3>3, RecordingAssumption
  <2>12. /\ FilesSound(w3, WritePayload(opened2, rest), format, given)
         /\ UpTo(WritePayload(opened2, rest), FrameOf(n, BlockFrames))
    <3>1. next.size + Samples(Len(rest), format) =< FileRoom
      BY <2>10, <2>11
    <3>2. QED  BY <1>1, <2>6, <2>10, <3>1, WriteKeeps
  <2>13. w4 = w3
    <3>1. next.size + Samples(Len(rest), format) = Samples(Len(rest), format)
      BY <2>10, <2>11
    <3>2. QED  BY <3>1
  <2> HIDE DEF w3, w4
  <2>14. QED  BY <2>3, <2>12, <2>13 DEF format, n
<1>8. QED
  <2>1. room \in Nat /\ samples \in Nat
    BY <1>1, <1>4, <1>5, RoomIsEnough
  <2> HIDE DEF room, samples
  <2>2. QED  BY <1>6, <1>7, <2>1

-----------------------------------------------------------------------------
(* Recording: the steps.                                                   *)

LEMMA UpToMore ==
  ASSUME NEW fs, NEW format, NEW w, NEW given, FilesSound(w, fs, format, given),
         NEW low \in Int, NEW top \in Int, low =< top, UpTo(fs, low)
  PROVE  UpTo(fs, top)
<1>1. fs \in Seq(WavFiles)
  BY DEF FilesSound
<1>2. SUFFICES ASSUME NEW k \in DOMAIN fs, NEW i \in DOMAIN fs[k].frames PROVE fs[k].frames[i] =< top
  BY DEF UpTo
<1>3. fs[k].frames[i] \in Int /\ fs[k].frames[i] =< low
  BY <1>1, <1>2, FileTypes DEF UpTo
<1>4. QED  BY <1>3

LEMMA GivenGrows ==
  ASSUME NEW w, NEW fs, NEW format, NEW given, FilesSound(w, fs, format, given),
         NEW more, given \subseteq more
  PROVE  FilesSound(w, fs, format, more)
  BY DEF FilesSound

LEMMA GivenConcat ==
  ASSUME NEW s \in Seq(Int), NEW t \in Seq(Int)
  PROVE  s \o t \in Seq(Int) /\ ToSet(s) \subseteq ToSet(s \o t) /\ ToSet(t) \subseteq ToSet(s \o t)
<1> DEFINE all == s \o t
<1>1. /\ all \in Seq(Int) /\ Len(all) = Len(s) + Len(t) /\ Len(s) \in Nat /\ Len(t) \in Nat
      /\ \A i \in 1 .. Len(s) + Len(t) : all[i] = IF i =< Len(s) THEN s[i] ELSE t[i - Len(s)]
  BY ConcatProperties
<1>2. DOMAIN all = 1 .. Len(s) + Len(t) /\ DOMAIN s = 1 .. Len(s) /\ DOMAIN t = 1 .. Len(t)
  BY <1>1, LenProperties
<1> HIDE DEF all
<1>3. \A i \in 1 .. Len(s) : i \in DOMAIN all /\ all[i] = s[i]
  BY <1>1, <1>2
<1>4. ASSUME NEW i \in 1 .. Len(t) PROVE Len(s) + i \in DOMAIN all /\ all[Len(s) + i] = t[i]
  <2>1. Len(s) + i \in 1 .. Len(s) + Len(t) /\ ~(Len(s) + i =< Len(s)) /\ (Len(s) + i) - Len(s) = i
    BY <1>1
  <2>2. QED  BY <1>1, <1>2, <2>1
<1>5. ToSet(s) \subseteq ToSet(all)
  <2>1. \A i \in DOMAIN s : i \in DOMAIN all /\ all[i] = s[i]
    BY <1>2, <1>3
  <2>2. QED  BY <2>1 DEF ToSet
<1>6. ToSet(t) \subseteq ToSet(all)
  <2>1. \A i \in DOMAIN t : Len(s) + i \in DOMAIN all /\ all[Len(s) + i] = t[i]
    BY <1>2, <1>4
  <2>2. QED  BY <2>1 DEF ToSet
<1>7. QED  BY <1>1, <1>5, <1>6 DEF all

LEMMA RecordingStarts ==
  ASSUME RecordingInit
  PROVE  RecordingInv
<1> USE DEF RecordingInit
<1>1. sink.step = "none" /\ DOMAIN sink = {"step", "stopping", "option", "limit", "inp", "inputRef", "since"}
  BY DEF NoSink
<1>2. DOMAIN files = {} /\ Len(files) = 0 /\ files \in Seq(WavFiles)
  OBVIOUS
<1>3. IsHandler(wav) /\ ~wav.open /\ wav.size = 0
  BY DEF NoWav, IsHandler
<1>4. FilesSound(wav, files, sink.inputRef, ToSet(asked))
  BY <1>2, <1>3, RecordingAssumption DEF FilesSound
<1>5. RecordingTypes
  BY <1>1, RecordingAssumption DEF RecordingTypes, SinkSteps
<1>6. BlocksComeInOrder
  BY <1>1, <1>2 DEF BlocksComeInOrder, UpTo
<1>7. QED  BY <1>1, <1>3, <1>4, <1>5, <1>6 DEF RecordingInv

LEMMA TakeSinkQueueKeeps ==
  ASSUME RecordingInv, TakeSinkQueue
  PROVE  RecordingInv'
<1> USE DEF TakeSinkQueue, RecordingInv
<1>1. RecordingTypes'
  BY DEF RecordingTypes
<1>2. FilesSound(wav, files, sink.inputRef, ToSet(asked))'
  OBVIOUS
<1>3. BlocksComeInOrder'
  BY DEF BlocksComeInOrder
<1>4. QED  BY <1>1, <1>2, <1>3

LEMMA PushToSinkKeeps ==
  ASSUME RecordingInv, NEW format \in AudioFormats, NEW squelched \in BOOLEAN,
         PushToSink(format, squelched)
  PROVE  RecordingInv'
<1> DEFINE block == [number |-> audioBlocks + 1, format |-> format, squelched |-> squelched]
<1>1. /\ RecordingTypes /\ FilesSound(wav, files, sink.inputRef, ToSet(asked)) /\ BlocksComeInOrder
      /\ recording = "off" => ~wav.open /\ sink.step = "none"
  BY DEF RecordingInv
<1>2. UNCHANGED <<recording, recordings, boundSink, sink, wav, files, seconds, asked>>
  BY DEF PushToSink
<1>3. audioBlocks \in Nat /\ audioBlocks' = audioBlocks + 1 /\ takenSink' = 0
  BY <1>1 DEF PushToSink, RecordingTypes
<1>4. block \in Blocks /\ block.number = audioBlocks + 1
  BY <1>3 DEF Blocks
<1> HIDE DEF block
<1>5. sinkQueue' = sinkQueue \/ (sinkQueue' = Append(sinkQueue, block) /\ Len(sinkQueue) < SinkQueueMax)
  BY DEF PushToSink, block
<1>6. sinkQueue \in Seq(Blocks) /\ Len(sinkQueue) =< SinkQueueMax /\ SinkQueueMax \in Nat /\ Len(sinkQueue) \in Nat
  BY <1>1, RecordingAssumption DEF RecordingTypes
<1>7. /\ sinkQueue' \in Seq(Blocks) /\ Len(sinkQueue') =< SinkQueueMax
      /\ \A i \in DOMAIN sinkQueue' :
            \/ i \in DOMAIN sinkQueue /\ sinkQueue'[i] = sinkQueue[i]
            \/ i = Len(sinkQueue) + 1 /\ sinkQueue'[i] = block
      /\ DOMAIN sinkQueue = 1 .. Len(sinkQueue)
  <2>1. CASE sinkQueue' = sinkQueue
    BY <1>6, <2>1
  <2>2. CASE sinkQueue' = Append(sinkQueue, block) /\ Len(sinkQueue) < SinkQueueMax
    <3>1. /\ sinkQueue' \in Seq(Blocks) /\ Len(sinkQueue') = Len(sinkQueue) + 1
          /\ \A i \in 1 .. Len(sinkQueue) : sinkQueue'[i] = sinkQueue[i]
          /\ sinkQueue'[Len(sinkQueue) + 1] = block
      BY <1>4, <1>6, <2>2, AppendProperties
    <3>2. DOMAIN sinkQueue' = 1 .. Len(sinkQueue) + 1 /\ DOMAIN sinkQueue = 1 .. Len(sinkQueue)
      BY <1>6, <3>1, LenProperties
    <3>3. QED  BY <1>6, <2>2, <3>1, <3>2
  <2>3. QED  BY <1>5, <2>1, <2>2
<1>8. RecordingTypes'
  BY <1>1, <1>2, <1>3, <1>7, RecordingAssumption DEF RecordingTypes
<1>9. FilesSound(wav, files, sink.inputRef, ToSet(asked))'
  BY <1>1, <1>2
<1>10. ASSUME NEW i \in DOMAIN sinkQueue
       PROVE  sinkQueue[i].number \in Nat /\ sinkQueue[i].number =< audioBlocks
  <2>1. sinkQueue[i] \in Blocks
    BY <1>6
  <2>2. QED  BY <1>1, <2>1 DEF BlocksComeInOrder, Blocks
<1>11. UpTo(files, FrameOf(audioBlocks + 2, 0))
  <2>1. FrameOf(audioBlocks + 1, 0) =< FrameOf(audioBlocks + 2, 0)
    <3>1. audioBlocks + 1 \in Nat /\ audioBlocks + 2 \in Nat /\ audioBlocks + 1 =< audioBlocks + 2
      BY <1>3
    <3>2. QED  BY <3>1, BlocksAreOrdered
  <2>2. FrameOf(audioBlocks + 1, 0) \in Int /\ FrameOf(audioBlocks + 2, 0) \in Int
    BY <1>3, FramesAreOrdered
  <2>3. UpTo(files, FrameOf(audioBlocks + 1, 0))
    BY <1>1 DEF BlocksComeInOrder
  <2>4. QED  BY <1>1, <2>1, <2>2, <2>3, UpToMore
<1>12. BlocksComeInOrder'
  <2>1. ASSUME NEW i \in DOMAIN sinkQueue'
        PROVE  sinkQueue'[i].number =< audioBlocks' /\ UpTo(files, FrameOf(sinkQueue'[i].number, 0))
    <3>1. CASE i \in DOMAIN sinkQueue /\ sinkQueue'[i] = sinkQueue[i]
      BY <1>1, <1>3, <1>10, <3>1 DEF BlocksComeInOrder
    <3>2. CASE sinkQueue'[i] = block
      BY <1>1, <1>3, <1>4, <3>2 DEF BlocksComeInOrder
    <3>3. QED  BY <1>7, <3>1, <3>2
  <2>2. ASSUME NEW i \in DOMAIN sinkQueue', NEW j \in DOMAIN sinkQueue', i < j
        PROVE  sinkQueue'[i].number < sinkQueue'[j].number
    <3>1. i \in DOMAIN sinkQueue /\ sinkQueue'[i] = sinkQueue[i]
      BY <1>6, <1>7, <2>2
    <3>2. CASE j \in DOMAIN sinkQueue /\ sinkQueue'[j] = sinkQueue[j]
      BY <1>1, <2>2, <3>1, <3>2 DEF BlocksComeInOrder
    <3>3. CASE sinkQueue'[j] = block
      BY <1>3, <1>4, <1>10, <3>1, <3>3
    <3>4. QED  BY <1>7, <3>2, <3>3
  <2>3. ASSUME sink.step = "sink"
        PROVE  /\ sink.inp.number =< audioBlocks'
               /\ UpTo(files, FrameOf(sink.inp.number, 0))
               /\ \A i \in DOMAIN sinkQueue' : sink.inp.number < sinkQueue'[i].number
    <3>1. sink.inp.number \in Nat /\ sink.inp.number =< audioBlocks
      BY <1>1, <2>3 DEF RecordingTypes, BlocksComeInOrder, Blocks
    <3>2. \A i \in DOMAIN sinkQueue : sink.inp.number < sinkQueue[i].number
      BY <1>1, <2>3 DEF BlocksComeInOrder
    <3>3. sink.inp.number < block.number
      BY <1>3, <1>4, <3>1
    <3>4. QED  BY <1>1, <1>3, <1>7, <2>3, <3>1, <3>2, <3>3 DEF BlocksComeInOrder
  <2>4. audioBlocks' + 1 = audioBlocks + 2
    BY <1>3
  <2>5. QED  BY <1>2, <1>11, <2>1, <2>2, <2>3, <2>4 DEF BlocksComeInOrder
<1>13. QED  BY <1>1, <1>2, <1>8, <1>9, <1>12 DEF RecordingInv

\* An emptied queue leaves nothing to be in order.
LEMMA FlushedInOrder ==
  ASSUME BlocksComeInOrder, sinkQueue' = << >>, UNCHANGED <<audioBlocks, files>>,
         sink'.step # "sink" \/ (sink'.step = sink.step /\ sink'.inp = sink.inp)
  PROVE  BlocksComeInOrder'
<1>1. DOMAIN sinkQueue' = {}
  OBVIOUS
<1>2. QED  BY <1>1 DEF BlocksComeInOrder

LEMMA StartRecordingKeeps ==
  ASSUME RecordingInv, NEW option, NEW limit, StartRecording(option, limit)
  PROVE  RecordingInv'
<1> USE DEF RecordingInv, StartRecording
<1>1. /\ sink'.step = "created"
      /\ DOMAIN sink' = {"step", "stopping", "option", "limit", "inp", "inputRef", "since"}
  BY DEF NoSink
<1>2. RecordingTypes'
  BY <1>1, RecordingAssumption DEF RecordingTypes, SinkSteps
<1>3. IsHandler(wav') /\ ~wav'.open /\ wav'.size = 0
  BY DEF NoWav, IsHandler, SetOutputFileName, RecordingTypes
<1>4. FilesSound(wav', files', sink'.inputRef, ToSet(asked'))
  BY <1>3, RecordingAssumption DEF FilesSound
<1>5. BlocksComeInOrder'
  BY <1>1, FlushedInOrder
<1>6. QED  BY <1>1, <1>2, <1>4, <1>5

LEMMA UnbindSinkKeeps ==
  ASSUME RecordingInv, UnbindSink
  PROVE  RecordingInv'
<1> USE DEF RecordingInv, UnbindSink
<1>1. RecordingTypes'
  BY RecordingAssumption DEF RecordingTypes
<1>2. BlocksComeInOrder'
  BY DEF BlocksComeInOrder
<1>3. QED  BY <1>1, <1>2

LEMMA TerminateSinkKeeps ==
  ASSUME RecordingInv, TerminateSink
  PROVE  RecordingInv'
<1> USE DEF RecordingInv, TerminateSink
<1>1. /\ sink'.step = sink.step /\ sink'.inp = sink.inp /\ sink'.inputRef = sink.inputRef
      /\ DOMAIN sink' = DOMAIN sink
  BY DEF RecordingTypes
<1>2. RecordingTypes'
  BY <1>1, RecordingAssumption DEF RecordingTypes
<1>3. BlocksComeInOrder'
  BY <1>1, FlushedInOrder
<1>4. FilesSound(wav', files', sink'.inputRef, ToSet(asked'))
  BY <1>1
<1>5. QED  BY <1>1, <1>2, <1>3, <1>4

LEMMA ClosingInOrder ==
  ASSUME BlocksComeInOrder, NEW format, FilesSound(wav, files, format, ToSet(asked)), audioBlocks \in Nat,
         sinkQueue \in Seq(Blocks)
  PROVE  /\ UpTo(CloseFile(wav, files), FrameOf(audioBlocks + 1, 0))
         /\ \A i \in DOMAIN sinkQueue : UpTo(CloseFile(wav, files), FrameOf(sinkQueue[i].number, 0))
<1>1. FrameOf(audioBlocks + 1, 0) \in Int
  BY FramesAreOrdered
<1>2. \A i \in DOMAIN sinkQueue : FrameOf(sinkQueue[i].number, 0) \in Int
  <2>1. SUFFICES ASSUME NEW i \in DOMAIN sinkQueue PROVE FrameOf(sinkQueue[i].number, 0) \in Int
    OBVIOUS
  <2>2. sinkQueue[i] \in Blocks
    OBVIOUS
  <2>3. sinkQueue[i].number \in Nat
    BY <2>2 DEF Blocks
  <2>4. \A j \in Int : FrameOf(sinkQueue[i].number, j) \in Int
    BY <2>3, FrameIsANumber
  <2>5. QED  BY <2>4
<1>3. QED  BY <1>1, <1>2, ClosedKeeps DEF BlocksComeInOrder

LEMMA DeleteSinkKeeps ==
  ASSUME RecordingInv, DeleteSink
  PROVE  RecordingInv'
<1> USE DEF RecordingInv, DeleteSink
<1>1. /\ sink'.step = "none" /\ sink'.inputRef = NoFormat
      /\ DOMAIN sink' = {"step", "stopping", "option", "limit", "inp", "inputRef", "since"}
  BY DEF NoSink
<1>2. RecordingTypes'
  BY <1>1, RecordingAssumption DEF RecordingTypes, SinkSteps
<1>3. IsHandler(wav') /\ ~wav'.open /\ wav'.size = 0
  BY DEF NoWav, IsHandler
<1>4. FilesSound(Closed(wav), files', NoFormat, ToSet(asked)) /\ ~Closed(wav).open
  BY ClosedKeeps
<1>5. FilesSound(wav', files', sink'.inputRef, ToSet(asked'))
  BY <1>1, <1>3, <1>4, RecordingAssumption DEF FilesSound
<1>6. BlocksComeInOrder'
  <2>1. UpTo(files', FrameOf(audioBlocks' + 1, 0))
    BY ClosingInOrder DEF RecordingTypes
  <2>2. DOMAIN sinkQueue' = {}
    OBVIOUS
  <2>3. QED  BY <1>1, <2>1, <2>2 DEF BlocksComeInOrder
<1>7. QED  BY <1>1, <1>2, <1>3, <1>5, <1>6

LEMMA TickKeeps ==
  ASSUME RecordingInv, Tick
  PROVE  RecordingInv'
<1> USE DEF RecordingInv, Tick
<1>1. RecordingTypes'
  BY RecordingAssumption DEF RecordingTypes
<1>2. BlocksComeInOrder'
  BY DEF BlocksComeInOrder
<1>3. QED  BY <1>1, <1>2

\* The sink thread goes on to a step that is not the one that writes.
LEMMA SinkGoesOn ==
  ASSUME RecordingInv, sink.step # "none", sink'.step \in SinkSteps \ {"sink"}, sink'.inputRef = sink.inputRef,
         DOMAIN sink' = DOMAIN sink, UNCHANGED <<outsideSink, sinkQueue, wav, files, seconds, asked>>
  PROVE  RecordingInv'
<1> USE DEF RecordingInv, outsideSink
<1>1. RecordingTypes'
  BY DEF RecordingTypes
<1>2. FilesSound(wav', files', sink'.inputRef, ToSet(asked'))
  OBVIOUS
<1>3. BlocksComeInOrder'
  BY DEF BlocksComeInOrder
<1>4. QED  BY <1>1, <1>2, <1>3

LEMMA OtherSinkStepsKeep ==
  ASSUME RecordingInv, StartSink \/ TestStopping \/ PopNothing \/ SkipSilence
  PROVE  RecordingInv'
<1>1. DOMAIN sink = {"step", "stopping", "option", "limit", "inp", "inputRef", "since"}
  BY DEF RecordingInv, RecordingTypes
<1>2. /\ sink'.step \in SinkSteps \ {"sink"} /\ sink'.inputRef = sink.inputRef
      /\ DOMAIN sink' = DOMAIN sink
  <2>1. CASE StartSink
    BY <1>1, <2>1 DEF StartSink, SinkSteps
  <2>2. CASE TestStopping
    BY <1>1, <2>2 DEF TestStopping, SinkSteps
  <2>3. CASE PopNothing
    BY <1>1, <2>3 DEF PopNothing, SinkSteps
  <2>4. CASE SkipSilence
    BY <1>1, <2>4 DEF SkipSilence, SinkSteps
  <2>5. QED  BY <2>1, <2>2, <2>3, <2>4
<1>3. UNCHANGED <<outsideSink, sinkQueue, wav, files, seconds, asked>> /\ sink.step # "none"
  BY DEF StartSink, TestStopping, PopNothing, SkipSilence
<1>4. QED  BY <1>2, <1>3, SinkGoesOn

LEMMA PopBlockKeeps ==
  ASSUME RecordingInv, PopBlock
  PROVE  RecordingInv'
<1> DEFINE block == Head(sinkQueue)
           changed == block.format # sink.inputRef
<1>1. /\ RecordingTypes /\ FilesSound(wav, files, sink.inputRef, ToSet(asked)) /\ BlocksComeInOrder
      /\ recording = "off" => ~wav.open /\ sink.step = "none"
  BY DEF RecordingInv
<1>2. /\ sinkQueue \in Seq(Blocks) /\ sinkQueue # << >> /\ Len(sinkQueue) \in Nat \ {0}
      /\ Len(sinkQueue) =< SinkQueueMax /\ audioBlocks \in Nat
      /\ DOMAIN sink = {"step", "stopping", "option", "limit", "inp", "inputRef", "since"}
  BY <1>1 DEF PopBlock, RecordingTypes
<1>3. /\ sinkQueue' = Tail(sinkQueue) /\ UNCHANGED <<outsideSink, seconds, asked>>
      /\ UNCHANGED <<recording, recordings, boundSink, takenSink, audioBlocks>>
  BY DEF PopBlock, outsideSink
<1>4. block = sinkQueue[1] /\ block \in Blocks /\ 1 \in DOMAIN sinkQueue
  BY <1>2
<1>5. /\ sinkQueue' \in Seq(Blocks) /\ Len(sinkQueue') = Len(sinkQueue) - 1
      /\ \A i \in DOMAIN sinkQueue' : i + 1 \in DOMAIN sinkQueue /\ i \in Nat /\ sinkQueue'[i] = sinkQueue[i + 1]
  <2>1. /\ Tail(sinkQueue) \in Seq(Blocks) /\ Len(Tail(sinkQueue)) = Len(sinkQueue) - 1
        /\ \A i \in 1 .. Len(Tail(sinkQueue)) : Tail(sinkQueue)[i] = sinkQueue[i + 1]
    BY <1>2, HeadTailProperties
  <2>2. DOMAIN sinkQueue' = 1 .. Len(sinkQueue) - 1 /\ DOMAIN sinkQueue = 1 .. Len(sinkQueue)
    BY <1>2, <1>3, <2>1
  <2>3. QED  BY <1>2, <1>3, <2>1, <2>2
<1>6. /\ sink'.step = "sink" /\ sink'.inp = block /\ sink'.inputRef = block.format
      /\ DOMAIN sink' = DOMAIN sink
  BY <1>2 DEF PopBlock
<1>7. /\ files' = IF changed THEN CloseFile(wav, files) ELSE files
      /\ wav' = IF changed THEN Closed(wav) ELSE wav
  BY DEF PopBlock
<1> HIDE DEF block, changed
<1>8. recording # "off"
  BY <1>1 DEF PopBlock
<1>9. FilesSound(wav', files', sink'.inputRef, ToSet(asked'))
  <2>1. CASE changed
    BY <1>1, <1>3, <1>7, <2>1, ClosedKeeps
  <2>2. CASE ~changed
    BY <1>1, <1>3, <1>6, <1>7, <2>2 DEF changed
  <2>3. QED  BY <2>1, <2>2
<1>10. RecordingTypes'
  <2>1. sink'.step \in SinkSteps
    BY <1>6 DEF SinkSteps
  <2>2. Len(sinkQueue') =< SinkQueueMax
    BY <1>2, <1>5, RecordingAssumption
  <2>3. QED  BY <1>1, <1>2, <1>3, <1>4, <1>5, <1>6, <2>1, <2>2 DEF RecordingTypes
<1>11. /\ UpTo(files', FrameOf(audioBlocks + 1, 0))
       /\ \A i \in DOMAIN sinkQueue : UpTo(files', FrameOf(sinkQueue[i].number, 0))
  <2>1. CASE changed
    BY <1>1, <1>2, <1>7, <2>1, ClosingInOrder
  <2>2. CASE ~changed
    BY <1>1, <1>7, <2>2 DEF BlocksComeInOrder
  <2>3. QED  BY <2>1, <2>2
<1>12. BlocksComeInOrder'
  <2>1. /\ \A i \in DOMAIN sinkQueue : sinkQueue[i].number =< audioBlocks
        /\ \A i, j \in DOMAIN sinkQueue : i < j => sinkQueue[i].number < sinkQueue[j].number
    BY <1>1 DEF BlocksComeInOrder
  <2>2. \A i \in DOMAIN sinkQueue' : sinkQueue'[i].number =< audioBlocks
    BY <1>5, <2>1
  <2>3. ASSUME NEW i \in DOMAIN sinkQueue', NEW j \in DOMAIN sinkQueue', i < j
        PROVE  sinkQueue'[i].number < sinkQueue'[j].number
    <3>1. i + 1 \in DOMAIN sinkQueue /\ j + 1 \in DOMAIN sinkQueue /\ i + 1 < j + 1
      BY <1>5, <2>3
    <3>2. QED  BY <1>5, <2>1, <3>1
  <2>4. ASSUME NEW i \in DOMAIN sinkQueue' PROVE block.number < sinkQueue'[i].number
    <3>1. i + 1 \in DOMAIN sinkQueue /\ 1 < i + 1
      BY <1>2, <1>5
    <3>2. QED  BY <1>4, <1>5, <2>1, <3>1
  <2>5. block.number =< audioBlocks /\ UpTo(files', FrameOf(block.number, 0))
    BY <1>4, <1>11, <2>1
  <2>6. \A i \in DOMAIN sinkQueue' : UpTo(files', FrameOf(sinkQueue'[i].number, 0))
    BY <1>5, <1>11
  <2>7. QED  BY <1>3, <1>6, <1>11, <2>2, <2>3, <2>4, <2>5, <2>6 DEF BlocksComeInOrder
<1>13. QED  BY <1>3, <1>8, <1>9, <1>10, <1>12 DEF RecordingInv

LEMMA SinkKeeps ==
  ASSUME RecordingInv, NEW exceeded \in BOOLEAN, Sink(exceeded)
  PROVE  RecordingInv'
<1> DEFINE block == sink.inp
           w == IF exceeded THEN SetOutputFileName(Closed(wav), seconds) ELSE wav
           fs == IF exceeded THEN CloseFile(wav, files) ELSE files
           given == ToSet(asked')
<1>1. /\ RecordingTypes /\ FilesSound(wav, files, sink.inputRef, ToSet(asked)) /\ BlocksComeInOrder
      /\ recording = "off" => ~wav.open /\ sink.step = "none"
  BY DEF RecordingInv
<1>2. sink.step = "sink"
  BY DEF Sink
<1>3. /\ block \in Blocks /\ block.format = sink.inputRef /\ block.number \in Nat /\ audioBlocks \in Nat
      /\ seconds \in Nat /\ asked \in Seq(Int)
      /\ DOMAIN sink = {"step", "stopping", "option", "limit", "inp", "inputRef", "since"}
  BY <1>1, <1>2 DEF RecordingTypes, Blocks
<1>4. /\ UNCHANGED <<recording, recordings, boundSink, takenSink, audioBlocks, sinkQueue, seconds>>
      /\ asked' = asked \o Frames(block)
      /\ wav' = WriteToFile(w, fs, block).wav /\ files' = WriteToFile(w, fs, block).files
  BY DEF Sink, outsideSink
<1>5. sink'.step = "test" /\ sink'.inputRef = sink.inputRef /\ DOMAIN sink' = DOMAIN sink
  BY <1>3 DEF Sink
<1>6. asked' \in Seq(Int) /\ ToSet(asked) \subseteq given /\ ToSet(Frames(block)) \subseteq given
  <2>1. Frames(block) \in Seq(Int)
    BY <1>3, FramesAreFrames
  <2>2. QED  BY <1>3, <1>4, <2>1, GivenConcat
<1>7. FrameOf(block.number, 0) \in Int /\ UpTo(files, FrameOf(block.number, 0))
  <2>1. \A j \in Int : FrameOf(block.number, j) \in Int
    BY <1>3, FrameIsANumber
  <2>2. QED  BY <1>1, <1>2, <2>1 DEF BlocksComeInOrder
<1> HIDE DEF block, w, fs, given
<1>8. FilesSound(wav, files, block.format, given)
  BY <1>1, <1>3, <1>6, GivenGrows
<1>9. FilesSound(w, fs, block.format, given) /\ UpTo(fs, FrameOf(block.number, 0))
  <2>1. CASE exceeded
    <3>1. /\ FilesSound(Closed(wav), CloseFile(wav, files), block.format, given)
          /\ UpTo(CloseFile(wav, files), FrameOf(block.number, 0))
      BY <1>7, <1>8, ClosedKeeps
    <3>2. w = SetOutputFileName(Closed(wav), seconds) /\ fs = CloseFile(wav, files)
      BY <2>1 DEF w, fs
    <3> DEFINE c == Closed(wav)
    <3> HIDE DEF c
    <3>3. IsHandler(c)
      BY <3>1 DEF FilesSound, c
    <3>4. PICK z \in Int : z = IF seconds # c.base THEN 0 ELSE c.sequence
      BY <3>3 DEF IsHandler
    <3>5. w = [c EXCEPT !.base = seconds, !.sequence = z]
      BY <3>2, <3>4 DEF SetOutputFileName, c
    <3>6. DOMAIN w = DOMAIN c
      BY <3>5
    <3>7. w.open = c.open /\ w.size = c.size /\ w.base = seconds /\ w.sequence = z
      BY <3>3, <3>5 DEF IsHandler
    <3>8. IsHandler(w)
      BY <1>3, <3>3, <3>4, <3>6, <3>7 DEF IsHandler
    <3>9. QED  BY <3>1, <3>2, <3>7, <3>8, SameHandler DEF c
  <2>2. CASE ~exceeded
    BY <1>7, <1>8, <2>2 DEF w, fs
  <2>3. QED  BY <2>1, <2>2
<1>10. /\ FilesSound(wav', files', block.format, given)
       /\ UpTo(files', FrameOf(block.number, BlockFrames))
  BY <1>3, <1>4, <1>6, <1>9, WriteToFileKeeps
<1>11. FilesSound(wav', files', sink'.inputRef, ToSet(asked'))
  BY <1>3, <1>5, <1>10 DEF given
<1>12. RecordingTypes'
  BY <1>1, <1>4, <1>5, <1>6 DEF RecordingTypes, SinkSteps
<1>13. ASSUME NEW m \in Nat, block.number < m PROVE UpTo(files', FrameOf(m, 0))
  <2>1. FrameOf(block.number, BlockFrames) =< FrameOf(m, 0)
    BY <1>3, <1>13, BlocksAreOrdered
  <2>2. FrameOf(block.number, BlockFrames) \in Int /\ FrameOf(m, 0) \in Int
    <3>1. BlockFrames \in Int /\ 0 \in Int
      BY RecordingAssumption
    <3>2. QED  BY <1>3, <3>1, FrameIsANumber
  <2>3. QED  BY <1>10, <2>1, <2>2, UpToMore
<1>14. BlocksComeInOrder'
  <2>1. block.number < audioBlocks + 1 /\ audioBlocks + 1 \in Nat
    BY <1>1, <1>2, <1>3 DEF BlocksComeInOrder, block
  <2>2. ASSUME NEW i \in DOMAIN sinkQueue PROVE UpTo(files', FrameOf(sinkQueue[i].number, 0))
    <3>1. sinkQueue[i] \in Blocks
      BY <1>1 DEF RecordingTypes
    <3>2. sinkQueue[i].number \in Nat /\ block.number < sinkQueue[i].number
      BY <1>1, <1>2, <3>1 DEF BlocksComeInOrder, Blocks, block
    <3>3. QED  BY <1>13, <3>2
  <2>3. UpTo(files', FrameOf(audioBlocks + 1, 0))
    BY <1>13, <2>1
  <2>4. QED  BY <1>1, <1>4, <1>5, <2>2, <2>3 DEF BlocksComeInOrder
<1>15. recording' # "off"
  BY <1>1, <1>2, <1>4
<1>16. QED  BY <1>11, <1>12, <1>14, <1>15 DEF RecordingInv

-----------------------------------------------------------------------------
(* Recording: theorems.                                                    *)

\* Every block on its way is newer than what is written, and every file but the open one is
\* finished: through every start, stop, full queue, change of format, time limit and split.
THEOREM RecordingInvariant == RecordingSpec => []RecordingInv
<1>1. RecordingInit => RecordingInv
  BY RecordingStarts
<1>2. RecordingInv /\ [RecordingNext]_recordingVars => RecordingInv'
  <2>1. SUFFICES ASSUME RecordingInv, RecordingNext \/ UNCHANGED recordingVars
                 PROVE  RecordingInv'
    OBVIOUS
  <2>2. CASE RecordingNext
    BY <2>1, <2>2, TakeSinkQueueKeeps, PushToSinkKeeps, StartRecordingKeeps, UnbindSinkKeeps,
       TerminateSinkKeeps, DeleteSinkKeeps, TickKeeps, OtherSinkStepsKeep, PopBlockKeeps, SinkKeeps
       DEF RecordingNext
  <2>3. CASE UNCHANGED recordingVars
    <3> USE DEF RecordingInv, recordingVars
    <3>1. RecordingTypes'
      BY <2>1, <2>3 DEF RecordingTypes
    <3>2. BlocksComeInOrder'
      BY <2>1, <2>3 DEF BlocksComeInOrder
    <3>3. QED  BY <2>1, <2>3, <3>1, <3>2
  <2>4. QED  BY <2>1, <2>2, <2>3
<1>3. QED  BY <1>1, <1>2, PTL DEF RecordingSpec

\* No queue of a sink and no file grows beyond its limit.
THEOREM RecordingTypeCorrect == RecordingSpec => []RecordingTypeOK
<1>1. RecordingInv => RecordingTypeOK
  BY DEF RecordingInv, RecordingTypes, FilesSound, RecordingTypeOK, SinkSteps
<1>2. QED  BY <1>1, RecordingInvariant, PTL

\* Whatever the sizes of blocks, files and queues: the frames that are recorded are in the
\* order of the audio, none twice; a file that is closed says how long it is, no name is
\* used twice, and stopping leaves no file open.
THEOREM RecordingSound == RecordingSpec => []RecordingIsSound
<1>1. RecordingInv => RecordingIsSound
  <2>1. SUFFICES ASSUME RecordingInv PROVE RecordingIsSound
    OBVIOUS
  <2>2. FilesSound(wav, files, sink.inputRef, ToSet(asked)) /\ (recording = "off" => ~wav.open)
    BY <2>1 DEF RecordingInv
  <2>3. RecordedInOrder
    <3>1. ASSUME NEW j \in DOMAIN files, NEW k \in DOMAIN files, j < k,
                 NEW a \in ToSet(files[j].frames), NEW b \in ToSet(files[k].frames)
          PROVE  a < b
      <4>1. PICK x \in DOMAIN files[j].frames : a = files[j].frames[x]
        BY DEF ToSet
      <4>2. PICK y \in DOMAIN files[k].frames : b = files[k].frames[y]
        BY DEF ToSet
      <4>3. QED  BY <2>2, <3>1, <4>1, <4>2 DEF FilesSound
    <3>2. ASSUME NEW k \in DOMAIN files, NEW a \in ToSet(files[k].frames) PROVE a \in ToSet(asked)
      <4>1. PICK x \in DOMAIN files[k].frames : a = files[k].frames[x]
        BY DEF ToSet
      <4>2. QED  BY <2>2, <4>1 DEF FilesSound
    <3>3. QED  BY <2>2, <3>1, <3>2 DEF FilesSound, RecordedInOrder
  <2>4. FilesAreFinished
    BY <2>2 DEF FilesSound, FilesAreFinished, Samples
  <2>5. QED  BY <2>3, <2>4 DEF RecordingIsSound
<1>2. QED  BY <1>1, RecordingInvariant, PTL

-----------------------------------------------------------------------------
(* SquelchGate: the invariant.                                             *)

Roll == PreRollFrames

\* The frame before the block in hand.
FrameBefore == gateFrames - Len(gateBlock.audio)

Stretch(s, before) == s \in Seq(Int) /\ \A i \in 1 .. Len(s) : s[i] = before + i

\* The history of a gate, whose newest frame is this one.
RingHolds(g, newest) ==
    /\ DOMAIN g = {"history", "historyWrite", "historyCount", "wasOpen"}
    /\ g.historyWrite \in 0 .. Roll - 1 /\ g.historyCount \in 0 .. Roll
    /\ g.history = << >> \/ (g.history \in Seq(Int) /\ Len(g.history) = Roll)
    /\ g.history = << >> => g.historyCount = 0
    /\ g.historyCount < Roll => g.historyWrite = g.historyCount
    /\ \A i \in 1 .. Roll :
          /\ i =< g.historyWrite => g.history[i] = newest - g.historyWrite + i
          /\ i > g.historyWrite /\ g.historyCount = Roll =>
                g.history[i] = newest - Roll - g.historyWrite + i
    /\ g.wasOpen => g.historyCount = 0

\* What the gate has answered joins what was played, or the history does.
AnswerJoins(result, output, before, last, told) ==
    /\ output \in Seq(Int) /\ Contiguous(output)
    /\ result # "Suppress" /\ output # << >> =>
          /\ ~told => output[1] = before + 1
          /\ result # "Closed" => output[Len(output)] = last

IsGateBlock(b) ==
    /\ DOMAIN b = {"audio", "discontinuity", "retuned", "enabled", "squelched", "playback", "result"}
    /\ b.discontinuity \in BOOLEAN /\ b.retuned \in BOOLEAN /\ b.enabled \in BOOLEAN

GoodAnswer(p, before, last, told) ==
    /\ RingHolds(p.gate, last)
    /\ p.gate.historyCount > 0 => p.result = "Suppress"
    /\ AnswerJoins(p.result, p.output, before, last, told)

GateInv ==
    /\ SquelchGateTypeOK
    /\ {squelchEnabled, squelchBreak, pendingAudioDiscontinuity} \subseteq BOOLEAN
    /\ gateFrames \in Nat
    /\ IsGateBlock(gateBlock)
    /\ Stretch(gateBlock.audio, FrameBefore)
    /\ gateStep = "pop" => gateBlock.audio = << >>
    /\ RingHolds(gate, IF gateStep = "push" THEN gateFrames ELSE FrameBefore)
    /\ gate.historyCount > 0 =>
          IF gateStep = "push" THEN gateBlock.result = "Suppress" ELSE pendingAudioDiscontinuity
    /\ gateStep = "push" =>
          AnswerJoins(gateBlock.result, gateBlock.playback, FrameBefore, gateFrames,
                      pendingAudioDiscontinuity)
    /\ played.frames \in Seq(Int) /\ Contiguous(played.frames)
    /\ ~pendingAudioDiscontinuity /\ ~played.faded /\ played.frames # << >> =>
          played.frames[Len(played.frames)] = FrameBefore

-----------------------------------------------------------------------------
(* SquelchGate: the ring.                                                  *)

LEMMA ModOnce ==
  ASSUME NEW x \in Int
  PROVE  /\ x \in 0 .. Roll - 1 => x % Roll = x
         /\ x \in Roll .. 2 * Roll - 1 => x % Roll = x - Roll
         /\ x \in -Roll .. -1 => x % Roll = x + Roll
<1> DEFINE r == x % Roll
           q == x \div Roll
<1>1. Roll \in Nat \ {0}
  BY SquelchGateAssumption DEF Roll
<1>2. x = Roll * q + r /\ r \in 0 .. Roll - 1 /\ q \in Int
  BY <1>1
<1> HIDE DEF r, q
<1>3. ASSUME NEW a \in Int, NEW b \in Int, a < b PROVE Roll * b >= Roll * a + Roll
  <2>1. Roll * b = Roll * a + Roll * (b - a)
    BY <1>1
  <2>2. Roll * (b - a) >= Roll
    BY <1>1, <1>3
  <2>3. Roll * a \in Int /\ Roll * b \in Int /\ Roll * (b - a) \in Int
    BY <1>1
  <2>4. QED  BY <1>1, <2>1, <2>2, <2>3
<1>4. Roll * 0 = 0 /\ Roll * 1 = Roll /\ Roll * (-1) = -Roll /\ Roll * 2 = 2 * Roll /\ Roll * q \in Int
  BY <1>1, <1>2
<1>5. q >= 1 \/ q = 0 \/ q = -1 \/ q < -1
  BY <1>2
<1>6. q > 1 => Roll * q >= Roll + Roll
  BY <1>1, <1>2, <1>3, <1>4
<1>7. q > 0 => Roll * q >= Roll
  BY <1>1, <1>2, <1>3, <1>4
<1>8. q < 0 => Roll * q =< -Roll
  BY <1>1, <1>2, <1>3, <1>4
<1>9. q < -1 => Roll * q =< -Roll - Roll
  BY <1>1, <1>2, <1>3, <1>4
<1>10. x \in 0 .. Roll - 1 => r = x
  <2>1. ASSUME x \in 0 .. Roll - 1 PROVE q = 0
    BY <1>1, <1>2, <1>4, <1>7, <1>8, <2>1
  <2>2. QED  BY <1>2, <1>4, <2>1
<1>11. x \in Roll .. 2 * Roll - 1 => r = x - Roll
  <2>1. ASSUME x \in Roll .. 2 * Roll - 1 PROVE q = 1
    BY <1>1, <1>2, <1>4, <1>6, <1>8, <2>1
  <2>2. QED  BY <1>1, <1>2, <1>4, <2>1
<1>12. x \in -Roll .. -1 => r = x + Roll
  <2>1. ASSUME x \in -Roll .. -1 PROVE q = -1
    BY <1>1, <1>2, <1>4, <1>7, <1>9, <2>1
  <2>2. QED  BY <1>1, <1>2, <1>4, <2>1
<1>13. QED  BY <1>10, <1>11, <1>12 DEF r

LEMMA CopyHistoryJoins ==
  ASSUME NEW g, NEW newest \in Int, RingHolds(g, newest)
  PROVE  Stretch(CopyHistory(g), newest - g.historyCount) /\ Len(CopyHistory(g)) = g.historyCount
<1> DEFINE c == g.historyCount
           w == g.historyWrite
           s == CopyHistory(g)
           start == IF c = Roll THEN w ELSE 0
<1>1. Roll \in Nat \ {0} /\ c \in 0 .. Roll /\ w \in 0 .. Roll - 1 /\ (c < Roll => w = c)
  BY SquelchGateAssumption DEF Roll, RingHolds
<1>2. /\ \A i \in 1 .. Roll : i =< w => g.history[i] = newest - w + i
      /\ \A i \in 1 .. Roll : i > w /\ c = Roll => g.history[i] = newest - Roll - w + i
  BY DEF RingHolds
<1>3. s = [i \in 1 .. c |-> g.history[1 + ((start + i - 1) % Roll)]]
  BY DEF CopyHistory, Roll
<1> HIDE DEF c, w, s
<1>4. ASSUME NEW i \in 1 .. c
      PROVE  s[i] = newest - c + i
  <2>1. s[i] = g.history[1 + ((start + i - 1) % Roll)]
    BY <1>3
  <2>2. CASE c < Roll
    <3>1. start + i - 1 \in 0 .. Roll - 1 /\ start = 0
      BY <1>1, <2>2
    <3>2. 1 + ((start + i - 1) % Roll) = i
      BY <1>1, <3>1, ModOnce
    <3>3. i \in 1 .. Roll /\ i =< w
      BY <1>1, <2>2
    <3>4. QED  BY <1>1, <1>2, <2>1, <2>2, <3>2, <3>3
  <2>3. CASE c = Roll /\ w + i - 1 < Roll
    <3>1. start + i - 1 \in 0 .. Roll - 1 /\ start = w
      BY <1>1, <2>3
    <3>2. 1 + ((start + i - 1) % Roll) = w + i
      BY <1>1, <3>1, ModOnce
    <3>3. w + i \in 1 .. Roll /\ w + i > w
      BY <1>1, <2>3
    <3>4. g.history[w + i] = newest - Roll - w + (w + i)
      BY <1>2, <2>3, <3>3
    <3>5. QED  BY <1>1, <2>1, <2>3, <3>2, <3>4
  <2>4. CASE c = Roll /\ w + i - 1 >= Roll
    <3>1. start + i - 1 \in Roll .. 2 * Roll - 1 /\ start = w
      BY <1>1, <2>4
    <3>2. 1 + ((start + i - 1) % Roll) = w + i - Roll
      BY <1>1, <3>1, ModOnce
    <3>3. w + i - Roll \in 1 .. Roll /\ w + i - Roll =< w
      BY <1>1, <2>4
    <3>4. g.history[w + i - Roll] = newest - w + (w + i - Roll)
      BY <1>2, <3>3
    <3>5. QED  BY <1>1, <2>1, <2>4, <3>2, <3>4
  <2>5. QED  BY <1>1, <2>2, <2>3, <2>4
<1>5. \A i \in 1 .. c : s[i] \in Int
  BY <1>1, <1>4
<1>6. s \in [1 .. c -> Int]
  BY <1>3, <1>5
<1>7. s \in Seq(Int) /\ Len(s) = c
  BY <1>1, <1>6
<1>8. QED  BY <1>4, <1>7 DEF Stretch, s, c

LEMMA AppendHistoryHolds ==
  ASSUME NEW g, NEW newest \in Int, RingHolds(g, newest), g.history # << >>, ~g.wasOpen,
         NEW input, Stretch(input, newest)
  PROVE  RingHolds(AppendHistory(g, input), newest + Len(input))
<1> DEFINE c == g.historyCount
           w == g.historyWrite
           n == Len(input)
           h == AppendHistory(g, input)
<1>1. /\ Roll \in Nat \ {0} /\ c \in 0 .. Roll /\ w \in 0 .. Roll - 1 /\ (c < Roll => w = c) /\ n \in Nat
      /\ DOMAIN g = {"history", "historyWrite", "historyCount", "wasOpen"}
      /\ g.history \in Seq(Int) /\ Len(g.history) = Roll
  BY SquelchGateAssumption DEF Roll, RingHolds, Stretch
<1>2. /\ \A i \in 1 .. Roll : i =< w => g.history[i] = newest - w + i
      /\ \A i \in 1 .. Roll : i > w /\ c = Roll => g.history[i] = newest - Roll - w + i
  BY DEF RingHolds
<1>3. input \in Seq(Int) /\ \A i \in 1 .. n : input[i] = newest + i
  BY DEF Stretch
<1>a. c = g.historyCount /\ w = g.historyWrite /\ n = Len(input) /\ h = AppendHistory(g, input)
  OBVIOUS
<1> HIDE DEF c, w, n, h
<1>4. CASE n >= Roll
  <2> DEFINE s == Newest(input, Roll)
  <2>1. h = [g EXCEPT !.history = s, !.historyWrite = 0, !.historyCount = Roll]
    BY <1>4, <1>a DEF AppendHistory, Roll
  <2>2. /\ DOMAIN h = DOMAIN g /\ h.history = s /\ h.historyWrite = 0 /\ h.historyCount = Roll
        /\ h.wasOpen = g.wasOpen
    BY <1>1, <2>1
  <2>3. s = SubSeq(input, n - Roll + 1, n)
    BY <1>a DEF Newest
  <2>4. \A i \in n - Roll + 1 .. n : input[i] \in Int
    <3> TAKE i \in n - Roll + 1 .. n
    <3>1. i \in 1 .. n
      BY <1>1, <1>4
    <3>2. input[i] = newest + i /\ newest + i \in Int
      BY <1>3, <3>1
    <3>3. QED  BY <3>2
  <2>5. /\ s \in Seq(Int) /\ Len(s) = IF n - Roll + 1 =< n THEN n - (n - Roll + 1) + 1 ELSE 0
        /\ \A i \in 1 .. n - (n - Roll + 1) + 1 : s[i] = input[(n - Roll + 1) + i - 1]
    BY <1>1, <2>3, <2>4, SubSeqProperties
  <2> HIDE DEF s
  <2>6. s \in Seq(Int) /\ Len(s) = Roll /\ s # << >>
    BY <1>1, <1>4, <2>5
  <2>7. ASSUME NEW i \in 1 .. Roll PROVE s[i] = (newest + n) - Roll + i
    <3>1. i \in 1 .. n - (n - Roll + 1) + 1 /\ (n - Roll + 1) + i - 1 = n - Roll + i /\ n - Roll + i \in 1 .. n
      BY <1>1, <1>4
    <3>2. QED  BY <1>1, <1>3, <2>5, <3>1
  <2>8. RingHolds(h, newest + n)
    BY <1>1, <2>2, <2>6, <2>7 DEF RingHolds
  <2>9. QED  BY <1>a, <2>8
<1>5. CASE n < Roll
  <2> DEFINE s == [i \in 1 .. Roll |-> LET offset == (i - 1 - w) % Roll
                                    IN IF offset < n THEN input[offset + 1] ELSE g.history[i]]
             v == (w + n) % Roll
             d == IF c + n > Roll THEN Roll ELSE c + n
  <2>1. h = [g EXCEPT !.history = s, !.historyWrite = v, !.historyCount = d]
    BY <1>1, <1>5, <1>a DEF AppendHistory, Roll
  <2>2. /\ DOMAIN h = DOMAIN g /\ h.history = s /\ h.historyWrite = v /\ h.historyCount = d
        /\ h.wasOpen = g.wasOpen
    <3> HIDE DEF s, v, d, h
    <3>1. QED  BY <1>1, <2>1
  <2>3. \/ w + n < Roll /\ v = w + n
        \/ w + n >= Roll /\ v = w + n - Roll /\ v < w
    <3>1. w + n < Roll => v = w + n
      <4>1. w + n < Roll => w + n \in 0 .. Roll - 1
        BY <1>1
      <4>2. w + n < Roll => (w + n) % Roll = w + n
        BY <4>1, ModOnce
      <4>3. QED  BY <4>2
    <3>2. w + n >= Roll => v = w + n - Roll
      <4>1. PICK x \in Int : x = w + n
        BY <1>1
      <4>2. w + n >= Roll => x \in Roll .. 2 * Roll - 1
        BY <1>1, <1>5, <4>1
      <4>3. w + n >= Roll => x % Roll = x - Roll
        BY <4>2, ModOnce
      <4>4. QED  BY <1>1, <4>1, <4>3
    <3> HIDE DEF v
    <3>3. QED  BY <1>1, <1>5, <3>1, <3>2
  <2>4. ASSUME NEW i \in 1 .. Roll
        PROVE  LET offset == (i - 1 - w) % Roll
               IN /\ i > w => offset = i - 1 - w
                  /\ i =< w => offset = i - 1 - w + Roll
    <3>1. i > w => i - 1 - w \in 0 .. Roll - 1
      BY <1>1
    <3>2. i =< w => i - 1 - w \in -Roll .. -1
      BY <1>1
    <3>3. i - 1 - w \in Int
      BY <1>1
    <3>4. QED  BY <3>1, <3>2, <3>3, <1>1, ModOnce
  <2>5. ASSUME NEW i \in 1 .. Roll
        PROVE  /\ i > w /\ i =< w + n => s[i] = newest + (i - w)
               /\ i =< w /\ i + Roll =< w + n => s[i] = newest + (i - w + Roll)
               /\ i > w + n => s[i] = g.history[i]
               /\ i =< w /\ i + Roll > w + n => s[i] = g.history[i]
    <3> DEFINE offset == (i - 1 - w) % Roll
    <3>1. s[i] = IF offset < n THEN input[offset + 1] ELSE g.history[i]
      OBVIOUS
    <3>2. (i > w => offset = i - 1 - w) /\ (i =< w => offset = i - 1 - w + Roll)
      BY <2>4
    <3> HIDE DEF offset, s
    <3>3. CASE i > w /\ i =< w + n
      <4>1. offset < n /\ offset + 1 = i - w /\ i - w \in 1 .. n
        BY <1>1, <3>2, <3>3
      <4>2. QED  BY <1>1, <1>3, <3>1, <3>3, <4>1
    <3>4. CASE i =< w /\ i + Roll =< w + n
      <4>1. offset < n /\ offset + 1 = i - w + Roll /\ i - w + Roll \in 1 .. n
        BY <1>1, <1>5, <3>2, <3>4
      <4>2. input[i - w + Roll] = newest + (i - w + Roll)
        BY <1>3, <4>1
      <4>3. s[i] = newest + (i - w + Roll)
        BY <3>1, <4>1, <4>2
      <4>4. QED  BY <1>1, <1>5, <3>4, <4>3
    <3>5. CASE i > w + n
      BY <1>1, <3>1, <3>2, <3>5
    <3>6. CASE i =< w /\ i + Roll > w + n
      BY <1>1, <3>1, <3>2, <3>6
    <3>7. QED  BY <1>1, <3>3, <3>4, <3>5, <3>6
  <2>6. s \in Seq(Int) /\ Len(s) = Roll /\ s # << >>
    <3>1. ASSUME NEW i \in 1 .. Roll PROVE s[i] \in Int
      <4>1. g.history[i] \in Int
        BY <1>1
      <4>2. /\ i > w /\ i =< w + n => s[i] = newest + (i - w)
            /\ i =< w /\ i + Roll =< w + n => s[i] = newest + (i - w + Roll)
            /\ i > w + n => s[i] = g.history[i]
            /\ i =< w /\ i + Roll > w + n => s[i] = g.history[i]
        BY <2>5
      <4> HIDE DEF s
      <4>3. newest + (i - w) \in Int /\ newest + (i - w + Roll) \in Int
        BY <1>1
      <4>4. \/ i > w /\ i =< w + n
            \/ i =< w /\ i + Roll =< w + n
            \/ i > w + n
            \/ i =< w /\ i + Roll > w + n
        BY <1>1
      <4> HIDE DEF v, d
      <4>5. QED  BY <4>1, <4>2, <4>3, <4>4
    <3>2. s \in [1 .. Roll -> Int]
      BY <3>1
    <3> HIDE DEF s
    <3>3. QED  BY <1>1, <3>2
  <2>d. d = IF c + n > Roll THEN Roll ELSE c + n
    OBVIOUS
  <2> HIDE DEF s, v, d
  <2>7. d \in 0 .. Roll /\ v \in 0 .. Roll - 1 /\ (d < Roll => v = d) /\ (d < Roll => w + n < Roll)
    BY <1>1, <1>5, <2>3, <2>d
  <2>8. ASSUME NEW i \in 1 .. Roll, i =< v
        PROVE  s[i] = (newest + n) - v + i
    <3>1. CASE w + n < Roll /\ v = w + n /\ i > w
      BY <1>1, <2>5, <2>8, <3>1
    <3>2. CASE w + n < Roll /\ v = w + n /\ i =< w
      <4>1. s[i] = g.history[i] /\ g.history[i] = newest - w + i
        BY <1>1, <1>2, <2>5, <3>2
      <4>2. QED  BY <1>1, <3>2, <4>1
    <3>3. CASE w + n >= Roll /\ v = w + n - Roll /\ v < w
      <4>1. i =< w /\ i + Roll =< w + n
        BY <1>1, <1>5, <2>8, <3>3
      <4>2. s[i] = newest + (i - w + Roll)
        BY <2>5, <4>1
      <4>3. (newest + n) - v + i = newest + (i - w + Roll)
        BY <1>1, <3>3
      <4>4. QED  BY <4>2, <4>3
    <3>4. QED  BY <1>1, <2>3, <3>1, <3>2, <3>3
  <2>9. ASSUME NEW i \in 1 .. Roll, i > v, d = Roll
        PROVE  s[i] = (newest + n) - Roll - v + i
    <3>1. CASE w + n < Roll /\ v = w + n
      <4>1. c = Roll
        BY <1>1, <1>5, <2>9, <2>d, <3>1
      <4>2. s[i] = g.history[i] /\ g.history[i] = newest - Roll - w + i
        BY <1>1, <1>2, <2>5, <2>9, <3>1, <4>1
      <4>3. QED  BY <1>1, <3>1, <4>2
    <3>2. CASE w + n >= Roll /\ v = w + n - Roll /\ i > w
      <4>1. i > w /\ i =< w + n
        BY <1>1, <1>5, <2>9, <3>2
      <4>2. s[i] = newest + (i - w)
        BY <2>5, <4>1
      <4>3. QED  BY <1>1, <3>2, <4>2
    <3>3. CASE w + n >= Roll /\ v = w + n - Roll /\ i =< w
      <4>1. s[i] = g.history[i] /\ g.history[i] = newest - w + i
        BY <1>1, <1>2, <2>5, <2>9, <3>3
      <4>2. QED  BY <1>1, <3>3, <4>1
    <3>4. QED  BY <1>1, <2>3, <3>1, <3>2, <3>3
  <2>10. RingHolds(h, newest + n)
    BY <1>1, <2>2, <2>6, <2>7, <2>8, <2>9 DEF RingHolds
  <2>11. QED  BY <1>a, <2>10
<1>6. QED  BY <1>1, <1>4, <1>5

-----------------------------------------------------------------------------
(* SquelchGate: one block.                                                 *)

LEMMA StretchIsContiguous ==
  ASSUME NEW s, NEW before \in Int, Stretch(s, before)
  PROVE  s \in Seq(Int) /\ Contiguous(s) /\ (s # << >> => s[1] = before + 1
                                               /\ s[Len(s)] = before + Len(s))
<1>1. s \in Seq(Int) /\ Len(s) \in Nat /\ \A i \in 1 .. Len(s) : s[i] = before + i
  BY DEF Stretch
<1>2. ASSUME NEW i \in 1 .. Len(s) - 1 PROVE s[i + 1] = s[i] + 1
  <2>1. i \in 1 .. Len(s) /\ i + 1 \in 1 .. Len(s)
    BY <1>1
  <2>2. s[i] = before + i /\ s[i + 1] = before + (i + 1)
    BY <1>1, <2>1
  <2>3. QED  BY <2>2
<1>3. s # << >> => 1 \in 1 .. Len(s) /\ Len(s) \in 1 .. Len(s)
  BY <1>1
<1>4. QED  BY <1>1, <1>2, <1>3 DEF Contiguous

LEMMA EmptyRingHolds ==
  ASSUME NEW g, NEW newest \in Int, g.historyCount = 0, g.historyWrite = 0,
         DOMAIN g = {"history", "historyWrite", "historyCount", "wasOpen"},
         g.history = << >> \/ (g.history \in Seq(Int) /\ Len(g.history) = Roll)
  PROVE  RingHolds(g, newest)
<1>1. Roll \in Nat \ {0}
  BY SquelchGateAssumption DEF Roll
<1>2. QED  BY <1>1 DEF RingHolds

LEMMA ReadyHolds ==
  ASSUME NEW g, NEW newest \in Int, RingHolds(g, newest)
  PROVE  /\ RingHolds(Configured(g), newest)
         /\ Configured(g).history # << >>
         /\ Configured(g).historyCount = g.historyCount
<1> DEFINE zeros == [i \in 1 .. Roll |-> 0]
<1>1. Roll \in Nat \ {0}
  BY SquelchGateAssumption DEF Roll
<1>2. zeros \in Seq(Int) /\ Len(zeros) = Roll /\ zeros # << >>
  BY <1>1
<1> HIDE DEF zeros
<1>3. CASE g.history = << >>
  <2> DEFINE h == [ResetGate EXCEPT !.history = zeros]
  <2>1. Configured(g) = h
    BY <1>3 DEF Configured, zeros, Roll
  <2>2. /\ DOMAIN h = {"history", "historyWrite", "historyCount", "wasOpen"}
        /\ h.history = zeros /\ h.historyWrite = 0 /\ h.historyCount = 0
    BY DEF ResetGate
  <2> HIDE DEF h
  <2>3. RingHolds(h, newest)
    BY <1>2, <2>2, EmptyRingHolds
  <2>4. g.historyCount = 0
    BY <1>3 DEF RingHolds
  <2>5. QED  BY <1>2, <2>1, <2>2, <2>3, <2>4
<1>4. CASE g.history # << >>
  BY <1>4 DEF Configured
<1>5. QED  BY <1>3, <1>4

LEMMA GateAnswers ==
  ASSUME NEW g, NEW before \in Int, RingHolds(g, before),
         NEW input, Stretch(input, before),
         NEW enabled \in BOOLEAN, NEW open \in BOOLEAN, NEW discontinuity \in BOOLEAN,
         NEW told \in BOOLEAN, g.historyCount > 0 => told,
         NEW p, p = ProcessGate(g, input, enabled, open, discontinuity)
  PROVE  GoodAnswer(p, before, before + Len(input), told)
<1> DEFINE n == Len(input)
           ready == Configured(IF discontinuity THEN ResetGate ELSE g)
           emptied == [ready EXCEPT !.wasOpen = open, !.historyWrite = 0, !.historyCount = 0]
<1>1. Roll \in Nat \ {0}
  BY SquelchGateAssumption DEF Roll
<1>2. /\ input \in Seq(Int) /\ Contiguous(input) /\ n \in Nat
      /\ input # << >> => input[1] = before + 1 /\ input[n] = before + n /\ n > 0
  BY StretchIsContiguous DEF Stretch
<1>3. \A x \in Int : RingHolds(ResetGate, x) /\ ResetGate.historyCount = 0
  BY EmptyRingHolds DEF ResetGate
<1>4. /\ RingHolds(ready, before) /\ ready.history # << >>
      /\ ready.historyCount > 0 => told
  <2>1. CASE discontinuity
    <3>1. RingHolds(ResetGate, before) /\ ready = Configured(ResetGate)
      BY <1>3, <2>1
    <3>2. QED  BY <1>3, <3>1, ReadyHolds
  <2>2. CASE ~discontinuity
    <3>1. ready = Configured(g)
      BY <2>2
    <3>2. QED  BY <3>1, ReadyHolds
  <2>3. QED  BY <2>1, <2>2
<1> HIDE DEF ready
<1>5. /\ DOMAIN ready = {"history", "historyWrite", "historyCount", "wasOpen"}
      /\ ready.history \in Seq(Int) /\ Len(ready.history) = Roll
      /\ ready.historyCount \in 0 .. Roll
  BY <1>4 DEF RingHolds
<1>6. /\ DOMAIN emptied = DOMAIN ready /\ emptied.history = ready.history
      /\ emptied.historyWrite = 0 /\ emptied.historyCount = 0
  BY <1>5
<1> HIDE DEF emptied
<1>7. RingHolds(emptied, before + n)
  <2>1. before + n \in Int
    BY <1>2
  <2>2. QED  BY <1>5, <1>6, <2>1, EmptyRingHolds
<1>8. AnswerJoins("PassThrough", input, before, before + n, told)
  BY <1>2 DEF AnswerJoins
<1>9. CASE ~enabled \/ input = << >>
  <2>1. p.gate = ResetGate /\ p.result = "PassThrough" /\ p.output = input
    BY <1>9 DEF ProcessGate
  <2>2. before + n \in Int
    BY <1>2
  <2>3. QED  BY <1>3, <1>8, <2>1, <2>2 DEF GoodAnswer
<1>10. CASE ~(~enabled \/ input = << >>) /\ open /\ ready.wasOpen
  <2>1. p.gate = ready /\ p.result = "PassThrough" /\ p.output = input
    BY <1>10 DEF ProcessGate, ready
  <2>2. ready.historyCount = 0 /\ ready.historyWrite = 0
    BY <1>1, <1>4, <1>10 DEF RingHolds
  <2>3. before + n \in Int
    BY <1>2
  <2>4. RingHolds(ready, before + n)
    BY <1>5, <2>2, <2>3, EmptyRingHolds
  <2>5. QED  BY <1>8, <2>1, <2>2, <2>4 DEF GoodAnswer
<1>11. CASE ~(~enabled \/ input = << >>) /\ open /\ ~ready.wasOpen
  <2> DEFINE roll == CopyHistory(ready)
             c == ready.historyCount
             s == roll \o input
  <2>1. p.gate = emptied /\ p.result = "Opened" /\ p.output = s
    BY <1>11 DEF ProcessGate, ready, emptied
  <2>2. Stretch(roll, before - c) /\ Len(roll) = c /\ c \in Nat /\ (c > 0 => told)
    BY <1>1, <1>4, <1>5, CopyHistoryJoins
  <2>3. \A i \in 1 .. n : input[i] = before + i
    BY DEF Stretch
  <2> HIDE DEF n, c, roll
  <2>4. roll \in Seq(Int) /\ \A i \in 1 .. c : roll[i] = before - c + i
    BY <2>2 DEF Stretch
  <2>5. s \in Seq(Int) /\ Len(s) = c + n
    <3>1. s \in Seq(Int) /\ Len(s) = Len(roll) + Len(input)
      BY <1>2, <2>4, ConcatProperties
    <3>2. QED  BY <2>2, <3>1 DEF n
  <2>15. \A i \in 1 .. Len(roll) + Len(input) :
            s[i] = IF i =< Len(roll) THEN roll[i] ELSE input[i - Len(roll)]
    BY <1>2, <2>4, ConcatProperties
  <2> HIDE DEF s
  <2>6. ASSUME NEW i \in 1 .. c + n PROVE s[i] = before - c + i
    <3>1. CASE i =< c
      <4>1. i \in 1 .. c /\ s[i] = roll[i]
        BY <2>2, <2>15, <3>1 DEF n
      <4>2. QED  BY <2>4, <4>1
    <3>2. CASE i > c
      <4>1. i - c \in 1 .. n
        BY <1>2, <2>2, <3>2
      <4>2. s[i] = input[i - c]
        BY <2>2, <2>15, <3>2 DEF n
      <4>3. input[i - c] = before + (i - c)
        BY <2>3, <4>1
      <4>4. QED  BY <2>2, <4>2, <4>3
    <3>3. i =< c \/ i > c
      BY <2>2
    <3>4. QED  BY <3>1, <3>2, <3>3
  <2>7. Stretch(s, before - c)
    BY <2>5, <2>6 DEF Stretch
  <2>8. input # << >> /\ n > 0
    BY <1>2, <1>11
  <2>9. s # << >>
    BY <1>2, <2>2, <2>5, <2>8
  <2>10. before - c \in Int
    BY <2>2
  <2>11. Contiguous(s) /\ s[1] = before - c + 1 /\ s[Len(s)] = before - c + (c + n)
    BY <2>5, <2>7, <2>9, <2>10, StretchIsContiguous
  <2>12. s[Len(s)] = before + n /\ (~told => s[1] = before + 1)
    BY <1>2, <2>2, <2>11
  <2>13. AnswerJoins("Opened", s, before, before + n, told)
    BY <2>5, <2>11, <2>12 DEF AnswerJoins
  <2>14. QED  BY <1>6, <1>7, <2>1, <2>13 DEF n, GoodAnswer
<1>12. CASE ~(~enabled \/ input = << >>) /\ ~open /\ ready.wasOpen
  <2> DEFINE m == IF FadeFrames < n THEN FadeFrames ELSE n
             s == SubSeq(input, 1, m)
  <2>1. p.gate = emptied /\ p.result = "Closed" /\ p.output = s
    BY <1>12 DEF ProcessGate, ready, emptied
  <2>2. FadeFrames \in Nat \ {0}
    BY SquelchGateAssumption
  <2>3. m \in 1 .. n
    BY <1>2, <1>12, <2>2
  <2>4. \A i \in 1 .. n : input[i] = before + i
    BY DEF Stretch
  <2>5. \A i \in 1 .. m : input[i] \in Int
    <3> TAKE i \in 1 .. m
    <3>1. i \in 1 .. n
      BY <1>2, <2>3
    <3>2. QED  BY <2>4, <3>1
  <2> HIDE DEF m
  <2>6. s \in Seq(Int) /\ Len(s) = m /\ \A i \in 1 .. m : s[i] = input[i]
    <3>1. /\ s \in Seq(Int) /\ Len(s) = (IF 1 =< m THEN m - 1 + 1 ELSE 0)
          /\ \A i \in 1 .. m - 1 + 1 : s[i] = input[1 + i - 1]
      BY <1>2, <2>3, <2>5, SubSeqProperties
    <3> HIDE DEF s, n
    <3>2. m \in Nat /\ m - 1 + 1 = m /\ 1 =< m
      BY <1>2, <2>3
    <3>3. \A i \in 1 .. m : 1 + i - 1 = i
      OBVIOUS
    <3>4. QED  BY <3>1, <3>2, <3>3
  <2> HIDE DEF s
  <2>7. \A i \in 1 .. m : s[i] = before + i
    <3> TAKE i \in 1 .. m
    <3>1. i \in 1 .. n
      BY <1>2, <2>3
    <3>2. QED  BY <2>4, <2>6, <3>1
  <2>8. Stretch(s, before)
    BY <2>6, <2>7 DEF Stretch
  <2>9. s # << >>
    BY <1>2, <2>3, <2>6
  <2>10. Contiguous(s) /\ s[1] = before + 1
    BY <2>8, <2>9, StretchIsContiguous
  <2>11. AnswerJoins("Closed", s, before, before + n, told)
    BY <2>6, <2>10 DEF AnswerJoins
  <2>12. QED  BY <1>6, <1>7, <2>1, <2>11 DEF GoodAnswer
<1>13. CASE ~(~enabled \/ input = << >>) /\ ~open /\ ~ready.wasOpen
  <2>1. p.gate = AppendHistory(ready, input) /\ p.result = "Suppress" /\ p.output = << >>
    BY <1>13 DEF ProcessGate, ready
  <2>2. RingHolds(AppendHistory(ready, input), before + n)
    BY <1>4, <1>13, AppendHistoryHolds
  <2>3. AnswerJoins("Suppress", << >>, before, before + n, told)
    BY DEF AnswerJoins, Contiguous
  <2>4. QED  BY <2>1, <2>2, <2>3 DEF GoodAnswer
<1>14. QED  BY <1>9, <1>10, <1>11, <1>12, <1>13

-----------------------------------------------------------------------------
(* SquelchGate: the actions.                                               *)

\* What GapsAreToldOrFaded says of a step.
ToldOrFaded ==
    \/ played' = played
    \/ played'.frames = << >> \/ played.frames = << >>
    \/ played'.discontinuity \/ played.faded
    \/ Contiguous(played.frames \o played'.frames)

\* The squelch is set to what it may be, and the gate's thread goes no further than the gate.
SquelchStep ==
    /\ UNCHANGED <<gateBlock, gateFrames, gate, pendingAudioDiscontinuity, played>>
    /\ gateStep' = gateStep \/ (gateStep = "squelch" /\ gateStep' = "gate")
    /\ squelchLock' \in {"nobody", "this", "other"}
    /\ {squelchEnabled', squelchBreak'} \subseteq BOOLEAN

LEMMA SquelchStepHolds ==
  ASSUME GateInv, SquelchStep
  PROVE  GateInv' /\ ToldOrFaded
<1>1. gateStep' = "push" <=> gateStep = "push"
  BY DEF SquelchStep
<1>2. gateStep' = "pop" => gateStep = "pop"
  BY DEF SquelchStep
<1>3. FrameBefore' = FrameBefore
  BY DEF SquelchStep, FrameBefore
<1>4. SquelchGateTypeOK'
  BY DEF GateInv, SquelchStep, SquelchGateTypeOK
<1>5. /\ gateBlock' = gateBlock /\ gateFrames' = gateFrames /\ gate' = gate /\ played' = played
      /\ pendingAudioDiscontinuity' = pendingAudioDiscontinuity
      /\ {squelchEnabled', squelchBreak'} \subseteq BOOLEAN
  BY DEF SquelchStep
<1>6. GateInv'
  BY <1>1, <1>2, <1>3, <1>4, <1>5 DEF GateInv
<1>7. QED  BY <1>5, <1>6 DEF ToldOrFaded

LEMMA OthersSetTheSquelch ==
  ASSUME GateInv,
         \/ EnableSquelch \/ DisableSquelch \/ DisableReleases \/ DisableUnbreaks
         \/ ToggleMuted \/ ToggleSoloMode \/ OtherOpens \/ OtherCloses
  PROVE  SquelchStep
<1>1. squelchLock \in {"nobody", "this", "other"} /\ {squelchEnabled, squelchBreak} \subseteq BOOLEAN
  BY DEF GateInv, SquelchGateTypeOK
<1>2. CASE EnableSquelch
  BY <1>1, <1>2 DEF EnableSquelch, gateThread, SquelchStep
<1>3. CASE DisableSquelch
  BY <1>1, <1>3 DEF DisableSquelch, gateThread, SquelchStep
<1>4. CASE DisableReleases
  BY <1>1, <1>4 DEF DisableReleases, ReleaseSquelchLock, gateThread, SquelchStep
<1>5. CASE DisableUnbreaks
  BY <1>1, <1>5 DEF DisableUnbreaks, gateThread, SquelchStep
<1>6. CASE ToggleMuted
  BY <1>1, <1>6 DEF ToggleMuted, gateThread, SquelchStep
<1>7. CASE ToggleSoloMode
  BY <1>1, <1>7 DEF ToggleSoloMode, gateThread, SquelchStep
<1>8. CASE OtherOpens
  BY <1>1, <1>8 DEF OtherOpens, gateThread, SquelchStep
<1>9. CASE OtherCloses
  BY <1>1, <1>9 DEF OtherCloses, gateThread, SquelchStep
<1>10. QED  BY <1>2, <1>3, <1>4, <1>5, <1>6, <1>7, <1>8, <1>9

LEMMA ThreadSetsTheSquelch ==
  ASSUME GateInv, NEW level, NEW quality, NEW b,
         \/ OpenSquelch(level, quality, b) \/ CloseSquelch(level, quality, b)
         \/ LeaveSquelch(level, quality, b)
  PROVE  SquelchStep
<1>1. squelchLock \in {"nobody", "this", "other"} /\ {squelchEnabled, squelchBreak} \subseteq BOOLEAN
  BY DEF GateInv, SquelchGateTypeOK
<1>2. CASE OpenSquelch(level, quality, b)
  <2>1. /\ UNCHANGED <<gateBlock, gateFrames, gate, pendingAudioDiscontinuity, played>>
        /\ gateStep = "squelch" /\ gateStep' = "gate" /\ squelchEnabled' = squelchEnabled
    BY <1>2 DEF OpenSquelch
  <2>2. squelchLock' \in {"nobody", "this", "other"} /\ squelchBreak' \in BOOLEAN
    BY <1>1, <1>2 DEF OpenSquelch
  <2>3. QED  BY <1>1, <2>1, <2>2 DEF SquelchStep
<1>3. CASE CloseSquelch(level, quality, b)
  BY <1>1, <1>3 DEF CloseSquelch, ReleaseSquelchLock, SquelchStep
<1>4. CASE LeaveSquelch(level, quality, b)
  BY <1>1, <1>4 DEF LeaveSquelch, SquelchStep
<1>5. QED  BY <1>2, <1>3, <1>4

LEMMA PopAudioHolds ==
  ASSUME GateInv, NEW size \in AudioSizes, NEW discontinuity \in BOOLEAN, NEW retuned \in BOOLEAN,
         PopAudio(size, discontinuity, retuned)
  PROVE  GateInv' /\ ToldOrFaded
<1> DEFINE s == [i \in 1 .. size |-> gateFrames + i]
           b == [NoGateBlock EXCEPT !.audio = s, !.discontinuity = discontinuity,
                                    !.retuned = retuned, !.enabled = squelchEnabled]
<1>1. size \in Nat /\ gateFrames \in Nat /\ squelchEnabled \in BOOLEAN
  BY SquelchGateAssumption DEF GateInv
<1>2. s \in Seq(Int) /\ Len(s) = size /\ \A i \in 1 .. size : s[i] = gateFrames + i
  BY <1>1
<1>3. /\ gateStep = "pop" /\ gateStep' = "squelch" /\ gateFrames' = gateFrames + size
      /\ gateBlock' = b
      /\ UNCHANGED <<squelchEnabled, squelchBreak, squelchLock, gate, pendingAudioDiscontinuity,
                     played>>
  BY DEF PopAudio
<1> HIDE DEF s
<1>4. IsGateBlock(b) /\ b.audio = s
  BY <1>1 DEF NoGateBlock, IsGateBlock
<1> HIDE DEF b
<1>5. FrameBefore = gateFrames /\ FrameBefore' = gateFrames
  <2>1. gateBlock.audio = << >>
    BY <1>3 DEF GateInv
  <2>2. QED  BY <1>1, <1>2, <1>3, <1>4, <2>1 DEF FrameBefore
<1>6. Stretch(b.audio, gateFrames)
  BY <1>2, <1>4 DEF Stretch
<1>7. SquelchGateTypeOK'
  BY <1>3 DEF GateInv, SquelchGateTypeOK
<1>8. gateFrames + size \in Nat
  BY <1>1
<1>9. GateInv'
  BY <1>3, <1>4, <1>5, <1>6, <1>7, <1>8 DEF GateInv
<1>10. QED  BY <1>3, <1>9 DEF ToldOrFaded

LEMMA RunGateHolds ==
  ASSUME GateInv, RunGate
  PROVE  GateInv' /\ ToldOrFaded
<1> DEFINE squelched == gateBlock.enabled /\ ~squelchBreak
           told == gateBlock.discontinuity \/ gateBlock.retuned
           n == Len(gateBlock.audio)
<1>1. PICK p : p = ProcessGate(gate, gateBlock.audio, gateBlock.enabled, ~squelched, told)
  OBVIOUS
<1>2. /\ gateStep = "gate" /\ gateStep' = "push" /\ gate' = p.gate
      /\ gateBlock' = [gateBlock EXCEPT !.squelched = squelched, !.result = p.result,
                                        !.playback = p.output]
      /\ UNCHANGED <<squelchEnabled, squelchBreak, squelchLock, gateFrames,
                     pendingAudioDiscontinuity, played>>
  BY <1>1 DEF RunGate
<1>3. /\ gateBlock.enabled \in BOOLEAN /\ told \in BOOLEAN /\ (~squelched) \in BOOLEAN
      /\ pendingAudioDiscontinuity \in BOOLEAN /\ gateFrames \in Nat
      /\ RingHolds(gate, FrameBefore) /\ Stretch(gateBlock.audio, FrameBefore)
      /\ gate.historyCount > 0 => pendingAudioDiscontinuity
      /\ IsGateBlock(gateBlock)
  BY <1>2 DEF GateInv, IsGateBlock
<1>4. n \in Nat /\ FrameBefore \in Int /\ FrameBefore + n = gateFrames
  <2>1. n \in Nat
    BY <1>3 DEF Stretch
  <2>2. QED  BY <1>3, <2>1 DEF FrameBefore
<1> HIDE DEF squelched, told
<1>5. /\ RingHolds(p.gate, FrameBefore + n)
      /\ p.gate.historyCount > 0 => p.result = "Suppress"
      /\ AnswerJoins(p.result, p.output, FrameBefore, FrameBefore + n, pendingAudioDiscontinuity)
  <2>1. PICK open \in BOOLEAN : open = ~squelched
    BY <1>3
  <2>2. PICK before \in Int : before = FrameBefore
    BY <1>4
  <2>7. PICK enabled \in BOOLEAN, broken \in BOOLEAN, pending \in BOOLEAN :
            enabled = gateBlock.enabled /\ broken = told /\ pending = pendingAudioDiscontinuity
    BY <1>3
  <2>3. p = ProcessGate(gate, gateBlock.audio, enabled, open, broken)
    BY <1>1, <2>1, <2>7
  <2>4. /\ RingHolds(gate, before) /\ Stretch(gateBlock.audio, before)
        /\ gate.historyCount > 0 => pending
    BY <1>3, <2>2, <2>7
  <2>5. GoodAnswer(p, before, before + Len(gateBlock.audio), pending)
    BY <2>3, <2>4, GateAnswers
  <2>6. QED  BY <2>2, <2>5, <2>7 DEF GoodAnswer
<1>6. PICK b : b = gateBlock'
  OBVIOUS
<1>7. /\ IsGateBlock(b) /\ b.audio = gateBlock.audio /\ b.result = p.result
      /\ b.playback = p.output
  BY <1>2, <1>3, <1>6 DEF IsGateBlock
<1>8. FrameBefore' = FrameBefore
  BY <1>2, <1>6, <1>7 DEF FrameBefore
<1>9. SquelchGateTypeOK'
  BY <1>2, <1>5 DEF GateInv, SquelchGateTypeOK, RingHolds, Roll
<1>10. GateInv'
  BY <1>2, <1>3, <1>4, <1>5, <1>6, <1>7, <1>8, <1>9 DEF GateInv
<1>11. QED  BY <1>2, <1>10 DEF ToldOrFaded

LEMMA DropAudioHolds ==
  ASSUME GateInv, NEW full, DropAudio(full)
  PROVE  GateInv' /\ ToldOrFaded
<1>1. /\ gateStep = "push" /\ gateStep' = "pop" /\ gateBlock' = NoGateBlock
      /\ pendingAudioDiscontinuity' = TRUE
      /\ UNCHANGED <<squelchEnabled, squelchBreak, squelchLock, gateFrames, gate, played>>
  BY DEF DropAudio
<1>2. /\ IsGateBlock(NoGateBlock) /\ NoGateBlock.audio = << >> /\ Len(<< >>) = 0
      /\ << >> \in Seq(Int)
  BY DEF NoGateBlock, NoAudio, IsGateBlock
<1>3. gateFrames \in Nat
  BY DEF GateInv
<1>4. FrameBefore' = gateFrames
  BY <1>1, <1>2, <1>3 DEF FrameBefore
<1>5. Stretch(gateBlock'.audio, gateFrames) /\ IsGateBlock(gateBlock')
  BY <1>1, <1>2 DEF Stretch
<1>6. SquelchGateTypeOK'
  BY <1>1 DEF GateInv, SquelchGateTypeOK
<1>7. GateInv'
  BY <1>1, <1>2, <1>4, <1>5, <1>6 DEF GateInv
<1>8. QED  BY <1>1, <1>7 DEF ToldOrFaded

LEMMA JoinedIsContiguous ==
  ASSUME NEW r \in Seq(Int), NEW s \in Seq(Int), Contiguous(r), Contiguous(s),
         r # << >>, s # << >>, s[1] = r[Len(r)] + 1
  PROVE  Contiguous(r \o s)
<1> DEFINE m == Len(r)
           n == Len(s)
           t == r \o s
<1>1. m \in Nat \ {0} /\ n \in Nat \ {0} /\ s[1] = r[m] + 1
  OBVIOUS
<1>2. Len(t) = m + n /\ \A i \in 1 .. m + n : t[i] = IF i =< m THEN r[i] ELSE s[i - m]
  BY ConcatProperties
<1>3. /\ \A i \in 1 .. m - 1 : r[i + 1] = r[i] + 1
      /\ \A i \in 1 .. n - 1 : s[i + 1] = s[i] + 1
  BY DEF Contiguous
<1> HIDE DEF m, n, t
<1>4. ASSUME NEW i \in 1 .. m + n - 1 PROVE t[i + 1] = t[i] + 1
  <2>1. i \in 1 .. m + n /\ i + 1 \in 1 .. m + n
    BY <1>1
  <2>2. CASE i < m
    <3>1. t[i] = r[i] /\ t[i + 1] = r[i + 1] /\ i \in 1 .. m - 1
      BY <1>1, <1>2, <2>1, <2>2
    <3>2. QED  BY <1>3, <3>1
  <2>3. CASE i = m
    <3>1. t[i] = r[i] /\ t[i + 1] = s[1]
      BY <1>1, <1>2, <2>1, <2>3
    <3>2. QED  BY <1>1, <2>3, <3>1
  <2>4. CASE i > m
    <3>1. PICK j \in 1 .. n - 1 : j = i - m
      BY <1>1, <2>4
    <3>2. t[i] = s[j] /\ t[i + 1] = s[j + 1]
      <4>1. i - m = j /\ (i + 1) - m = j + 1 /\ ~(i =< m) /\ ~(i + 1 =< m)
        BY <1>1, <2>4, <3>1
      <4>2. QED  BY <1>2, <2>1, <4>1
    <3>3. QED  BY <1>3, <3>1, <3>2
  <2>5. QED  BY <1>1, <2>2, <2>3, <2>4
<1>5. QED  BY <1>2, <1>4 DEF Contiguous, t

LEMMA PushAudioHolds ==
  ASSUME GateInv, PushAudio
  PROVE  GateInv' /\ ToldOrFaded
<1>1. /\ gateStep = "push" /\ gateStep' = "pop" /\ gateBlock' = NoGateBlock
      /\ gateBlock.result # "Suppress"
      /\ pendingAudioDiscontinuity' = FALSE
      /\ played'.frames = gateBlock.playback
      /\ played'.discontinuity = (gateBlock.discontinuity \/ pendingAudioDiscontinuity)
      /\ played'.faded = (gateBlock.result = "Closed")
      /\ UNCHANGED <<squelchEnabled, squelchBreak, squelchLock, gateFrames, gate>>
  BY DEF PushAudio
<1>2. /\ IsGateBlock(NoGateBlock) /\ NoGateBlock.audio = << >> /\ Len(<< >>) = 0
      /\ << >> \in Seq(Int)
  BY DEF NoGateBlock, NoAudio, IsGateBlock
<1>3. gateFrames \in Nat
  BY DEF GateInv
<1>4. FrameBefore' = gateFrames
  BY <1>1, <1>2, <1>3 DEF FrameBefore
<1>5. Stretch(gateBlock'.audio, gateFrames) /\ IsGateBlock(gateBlock')
  BY <1>1, <1>2 DEF Stretch
<1>6. SquelchGateTypeOK'
  BY <1>1 DEF GateInv, SquelchGateTypeOK
<1>7. RingHolds(gate, gateFrames) /\ ~(gate.historyCount > 0)
  BY <1>1 DEF GateInv
<1>8. /\ gateBlock.playback \in Seq(Int) /\ Contiguous(gateBlock.playback)
      /\ gateBlock.playback # << >> =>
            /\ ~pendingAudioDiscontinuity => gateBlock.playback[1] = FrameBefore + 1
            /\ gateBlock.result # "Closed" =>
                  gateBlock.playback[Len(gateBlock.playback)] = gateFrames
  BY <1>1 DEF GateInv, AnswerJoins
<1>9. GateInv'
  BY <1>1, <1>2, <1>4, <1>5, <1>6, <1>7, <1>8 DEF GateInv
<1>10. ToldOrFaded
  <2>1. SUFFICES ASSUME played'.frames # << >>, played.frames # << >>,
                        ~played'.discontinuity, ~played.faded
                 PROVE  Contiguous(played.frames \o played'.frames)
    BY DEF ToldOrFaded
  <2>2. ~pendingAudioDiscontinuity
    BY <1>1, <2>1
  <2>3. /\ played.frames \in Seq(Int) /\ Contiguous(played.frames)
        /\ played.frames[Len(played.frames)] = FrameBefore
    BY <2>1, <2>2 DEF GateInv
  <2>4. gateBlock.playback[1] = played.frames[Len(played.frames)] + 1 /\ gateBlock.playback # << >>
    BY <1>1, <1>8, <2>1, <2>2, <2>3
  <2>5. QED  BY <1>1, <1>8, <2>1, <2>3, <2>4, JoinedIsContiguous
<1>11. QED  BY <1>9, <1>10

-----------------------------------------------------------------------------
(* SquelchGate: the theorems.                                              *)

LEMMA GateStep ==
  ASSUME GateInv, [SquelchGateNext]_gateVars
  PROVE  GateInv' /\ ToldOrFaded
<1>1. CASE UNCHANGED gateVars
  <2>1. SquelchStep
    BY <1>1 DEF gateVars, SquelchStep, GateInv, SquelchGateTypeOK
  <2>2. QED  BY <2>1, SquelchStepHolds
<1>2. CASE \/ EnableSquelch \/ DisableSquelch \/ DisableReleases \/ DisableUnbreaks
           \/ ToggleMuted \/ ToggleSoloMode \/ OtherOpens \/ OtherCloses
  BY <1>2, OthersSetTheSquelch, SquelchStepHolds
<1>3. CASE \E size \in AudioSizes, discontinuity, retuned \in BOOLEAN :
               PopAudio(size, discontinuity, retuned)
  BY <1>3, PopAudioHolds
<1>4. CASE \E level \in {"below", "near", "above"}, quality \in {"noise", "fair", "clean"},
              b \in BOOLEAN :
               \/ OpenSquelch(level, quality, b) \/ CloseSquelch(level, quality, b)
               \/ LeaveSquelch(level, quality, b)
  BY <1>4, ThreadSetsTheSquelch, SquelchStepHolds
<1>5. CASE RunGate
  BY <1>5, RunGateHolds
<1>6. CASE \E full \in BOOLEAN : DropAudio(full)
  BY <1>6, DropAudioHolds
<1>7. CASE PushAudio
  BY <1>7, PushAudioHolds
<1>8. QED  BY <1>1, <1>2, <1>3, <1>4, <1>5, <1>6, <1>7 DEF SquelchGateNext

LEMMA GateStarts == ASSUME SquelchGateInit PROVE GateInv
<1>1. Roll \in Nat \ {0}
  BY SquelchGateAssumption DEF Roll
<1>2. /\ IsGateBlock(NoGateBlock) /\ NoGateBlock.audio = << >> /\ Len(<< >>) = 0
      /\ << >> \in Seq(Int)
  BY DEF NoGateBlock, NoAudio, IsGateBlock
<1>3. FrameBefore = 0
  <2>1. gateFrames = 0 /\ gateBlock.audio = << >>
    BY <1>2 DEF SquelchGateInit
  <2>2. Len(gateBlock.audio) = 0
    BY <2>1
  <2>3. FrameBefore = 0 - 0
    BY <2>1, <2>2 DEF FrameBefore
  <2>4. QED  BY <2>3
<1>4. RingHolds(ResetGate, 0) /\ ResetGate.historyCount = 0
  BY EmptyRingHolds DEF ResetGate
<1>5. Stretch(<< >>, 0) /\ Contiguous(<< >>)
  BY <1>2 DEF Stretch, Contiguous
<1>6. NothingPlayed.frames = << >>
  BY DEF NothingPlayed, NoAudio
<1>7. SquelchGateTypeOK
  BY <1>1, <1>2 DEF SquelchGateInit, ResetGate, SquelchGateTypeOK, Roll
<1>8. /\ {squelchEnabled, squelchBreak, pendingAudioDiscontinuity} \subseteq BOOLEAN
      /\ gateFrames \in Nat /\ gateBlock = NoGateBlock /\ gate = ResetGate
      /\ gateStep = "pop" /\ played = NothingPlayed
  BY DEF SquelchGateInit
<1>9. ~(0 > 0)
  OBVIOUS
<1>10. QED  BY <1>2, <1>3, <1>4, <1>5, <1>6, <1>7, <1>8, <1>9 DEF GateInv

THEOREM GateInvariant == SquelchGateSpec => []GateInv
<1>1. SquelchGateInit => GateInv
  BY GateStarts
<1>2. GateInv /\ [SquelchGateNext]_gateVars => GateInv'
  BY GateStep
<1>3. QED  BY <1>1, <1>2, PTL DEF SquelchGateSpec

\* The steps of the gate, the places of its ring and the holders of the squelch are the
\* ones DemodulatorThread and SquelchProcessor know.
THEOREM SquelchGateTypeCorrect == SquelchGateSpec => []SquelchGateTypeOK
<1>1. GateInv => SquelchGateTypeOK
  BY DEF GateInv
<1>2. QED  BY <1>1, GateInvariant, PTL

\* However often the squelch opens and closes, audio is muted or lost and the receiver is
\* retuned, no seam is heard that is neither told to the AudioThread nor faded: the
\* pre-roll joins the block that opens the gate (SquelchProcessor.cpp:215-248) and blocks
\* that do not follow each other say so (DemodulatorThread.cpp:378-396).
THEOREM NoSeamIsHeard == SquelchGateSpec => NoAudibleSeam
<1>1. GateInv => PreRollJoinsBlock
  BY DEF GateInv, PreRollJoinsBlock
<1>2. SquelchGateSpec => []PreRollJoinsBlock
  BY <1>1, GateInvariant, PTL
<1>3. GateInv /\ [SquelchGateNext]_gateVars => [ToldOrFaded]_gateVars
  BY GateStep
<1>4. SquelchGateSpec => [][ToldOrFaded]_gateVars
  BY <1>3, GateInvariant, PTL DEF SquelchGateSpec
<1>5. SquelchGateSpec => GapsAreToldOrFaded
  BY <1>4 DEF ToldOrFaded, GapsAreToldOrFaded
<1>6. QED  BY <1>2, <1>5 DEF NoAudibleSeam

-----------------------------------------------------------------------------
(* ModemPanel: the invariant.                                              *)

\* The modem that the panel is loaded for is one that w was pressed for, or may get what w shows.
MayReach(w) == frame.loaded \in {meantFor[w].shown, meantFor[w].outdated}

WidgetsAreTold ==
    /\ \/ widgets.mode = NoMode
       \/ MayReach("mode")
       \/ frame.loaded \in LiveSlots /\ widgets.mode = slots[frame.loaded].want
    /\ \A b \in {"mute", "delta", "quality"} : widgets[b].pressed => MayReach(b)
    /\ \A k \in {"gain", "squelch"} : Moved(widgets[k]) => MayReach(k)

IsModem(d) == d \in PanelModems /\ TypeOf(d) # NoMode
Recalls == [type : PanelModes, band : Nat, muted : BOOLEAN, delta : BOOLEAN,
            quality : BOOLEAN, gain : Int, squelch : Int]
Foci(S) == [current : S \cup {Vacant}, context : S \cup {Vacant}]
Panels == [mode : PanelModes \cup {NoMode}, mute : Buttons, delta : Buttons,
           solo : Buttons, quality : Buttons, peak : Buttons, history : Buttons,
           gain : Meters, squelch : Meters, average : Meters, speed : Meters]
Effects == [solo : BOOLEAN, peak : BOOLEAN, demodPeak : BOOLEAN, history : BOOLEAN,
            average : Int, lines : Int]
PanelFrames == [loaded : PanelSlots, due : BOOLEAN, sheet : PanelSlots \cup {Vacant}]
Meanings(S) == [PanelWidgets -> [modem : S \cup {Vacant}, shown : PanelSlots,
                                 outdated : PanelSlots \cup {Vacant}]]
PanelSlotsHold(t) == t \in [PanelSlots -> PanelModems \cup {NoSlot}]
             /\ \A s \in PanelSlots : t[s].live => IsModem(t[s])
PanelTypes ==
    /\ PanelSlotsHold(slots)
    /\ focus \in Foci(LiveSlots) /\ recall \in Recalls /\ widgets \in Panels
    /\ effects \in Effects /\ frame \in PanelFrames /\ meantFor \in Meanings(LiveSlots)
    /\ panelEvents \in 0 .. MaxPanelEvents

PanelInv == PanelTypes /\ WidgetsAreTold

-----------------------------------------------------------------------------
(* ModemPanel: what modems and widgets are set to.                         *)

LEMMA ModesThereAre ==
  /\ PanelModes = {"FM", "FMS", "NBFM", "AM", "LSB", "USB"}
  /\ DefaultBand \in [PanelModes -> Nat]
  /\ NoMode \notin PanelModes
<1>1. PanelModes = {"FM", "FMS", "NBFM", "AM", "LSB", "USB"}
  BY DEF PanelModes, DefaultBand
<1>2. \A m \in {"FM", "FMS", "NBFM", "AM", "LSB", "USB"} : DefaultBand[m] \in Nat
  BY DEF DefaultBand
<1>3. DefaultBand = [m \in PanelModes |-> DefaultBand[m]]
  BY <1>1 DEF DefaultBand
<1>4. QED  BY <1>1, <1>2, <1>3 DEF NoMode

LEMMA TypesSplit == ModemPanelTypeOK <=> PanelTypes
<1>1. (\A d \in PanelModems : d.live = TRUE) /\ NoSlot.live = FALSE
  BY DEF PanelModems, NoSlot
<1>2. /\ slots \in [PanelSlots -> PanelModems \cup {NoSlot}]
      /\ \A s \in LiveSlots : TypeOf(slots[s]) # NoMode
      <=> PanelSlotsHold(slots)
  BY <1>1 DEF PanelSlotsHold, LiveSlots, IsModem
<1>3. QED  BY <1>2 DEF ModemPanelTypeOK, PanelTypes, Foci, Recalls, Panels, Effects, PanelFrames, Meanings

LEMMA ModemIsSetTo ==
  ASSUME PanelSlotsHold(slots), NEW s \in PanelSlots, NEW d, IsModem(d), Becomes(s, d)
  PROVE  /\ PanelSlotsHold(slots') /\ slots'[s] = d /\ LiveSlots' = LiveSlots \cup {s}
         /\ \A t \in PanelSlots \ {s} : slots'[t] = slots[t]
<1>1. slots' = [slots EXCEPT ![s] = d] /\ d.live = TRUE
  BY DEF Becomes, IsModem, PanelModems
<1>2. PanelSlotsHold(slots')
  BY <1>1 DEF PanelSlotsHold, IsModem
<1>3. QED  BY <1>1, <1>2 DEF PanelSlotsHold, LiveSlots

LEMMA LiveIsModem ==
  ASSUME PanelSlotsHold(slots), NEW s \in LiveSlots
  PROVE  s \in PanelSlots /\ IsModem(slots[s])
  BY DEF PanelSlotsHold, LiveSlots

SameButtons(d, e) ==
    /\ d.muted = e.muted /\ d.delta = e.delta /\ d.quality = e.quality
    /\ d.gain = e.gain /\ d.squelch = e.squelch

\* Every change of one modem that is not of its type keeps it a modem.
LEMMA FlagsAreSet ==
  ASSUME NEW d, IsModem(d), NEW b \in BOOLEAN, NEW n \in Int
  PROVE  /\ IsModem([d EXCEPT !.active = b]) /\ IsModem([d EXCEPT !.muted = b])
         /\ IsModem([d EXCEPT !.delta = b]) /\ IsModem([d EXCEPT !.quality = b])
         /\ IsModem([d EXCEPT !.recording = b]) /\ IsModem([d EXCEPT !.tracking = b])
         /\ IsModem([d EXCEPT !.gain = n]) /\ IsModem([d EXCEPT !.squelch = n])
<1>1. IsModem([d EXCEPT !.active = b]) /\ IsModem([d EXCEPT !.muted = b])
  BY DEF IsModem, PanelModems, TypeOf
<1>2. IsModem([d EXCEPT !.delta = b]) /\ IsModem([d EXCEPT !.quality = b])
  BY DEF IsModem, PanelModems, TypeOf
<1>3. IsModem([d EXCEPT !.recording = b]) /\ IsModem([d EXCEPT !.tracking = b])
  BY DEF IsModem, PanelModems, TypeOf
<1>4. IsModem([d EXCEPT !.gain = n]) /\ IsModem([d EXCEPT !.squelch = n])
  BY DEF IsModem, PanelModems, TypeOf
<1>5. QED  BY <1>1, <1>2, <1>3, <1>4

LEMMA RetypedIsModem ==
  ASSUME NEW d, IsModem(d), NEW mode \in PanelModes
  PROVE  /\ IsModem(Retyped(d, mode)) /\ Retyped(d, mode).want = mode
         /\ SameButtons(Retyped(d, mode), d)
<1> DEFINE old == TypeOf(d)
           bands == IF old \notin {NoMode, mode} THEN [d.bands EXCEPT ![old] = d.band] ELSE d.bands
           band == IF old # NoMode /\ bands[mode] # 0 THEN bands[mode] ELSE DefaultBand[mode]
<1>1. bands \in [PanelModes -> Nat]
  BY DEF IsModem, PanelModems
<1>2. band \in Nat
  BY <1>1, ModesThereAre
<1>3. Retyped(d, mode) = [d EXCEPT !.bands = bands, !.want = mode, !.changed = TRUE,
                                   !.rebuild = TRUE, !.band = band]
  BY DEF Retyped
<1> HIDE DEF bands, band
<1>4. Retyped(d, mode) \in PanelModems
  BY <1>1, <1>2, <1>3 DEF IsModem, PanelModems
<1>5. Retyped(d, mode).want = mode /\ Retyped(d, mode).changed = TRUE
  BY <1>3 DEF IsModem, PanelModems
<1>6. SameButtons(Retyped(d, mode), d)
  BY <1>3 DEF IsModem, PanelModems, SameButtons
<1>7. QED  BY <1>4, <1>5, <1>6, ModesThereAre DEF IsModem, TypeOf

-----------------------------------------------------------------------------
(* ModemPanel: an idle pass.                                               *)

LEMMA FocusIsUpdated ==
  ASSUME NEW f \in Foci(LiveSlots)
  PROVE  UpdatedFocus(f) \in Foci(LiveSlots)
<1>1. \A s \in LiveSlots \cup {Vacant} : IsActive(s) => s \in LiveSlots
  BY DEF IsActive
<1> DEFINE gone == f.current = Vacant \/ ~slots[f.current].live
           g == CASE gone /\ IsActive(f.context) -> [f EXCEPT !.current = f.context]
                  [] gone /\ f.context # Vacant /\ ~IsActive(f.context) ->
                         [current |-> Vacant, context |-> Vacant]
                  [] OTHER -> f
<1>2. g \in Foci(LiveSlots)
  BY DEF Foci
<1>3. UpdatedFocus(f) = IF IsActive(g.current) THEN g ELSE [g EXCEPT !.current = Vacant]
  BY DEF UpdatedFocus
<1> HIDE DEF g
<1>4. QED  BY <1>2, <1>3 DEF Foci

LEMMA RecallIsRemembered ==
  ASSUME PanelSlotsHold(slots), recall \in Recalls, NEW s \in LiveSlots \cup {Vacant}
  PROVE  Remembered(s) \in Recalls
<1>1. CASE s = Vacant
  BY <1>1 DEF Remembered
<1>2. CASE s # Vacant
  <2>1. IsModem(slots[s]) /\ s \in LiveSlots
    BY <1>2, LiveIsModem
  <2>2. /\ TypeOf(slots[s]) \in PanelModes /\ slots[s].band \in Nat
        /\ slots[s].quality \in BOOLEAN /\ slots[s].gain \in Int /\ slots[s].squelch \in Int
    BY <2>1 DEF IsModem, PanelModems, TypeOf
  <2>3. QED  BY <1>2, <2>2 DEF Remembered, Recalls
<1>3. QED  BY <1>1, <1>2

LEMMA ForwardIsSet ==
  ASSUME PanelSlotsHold(slots), recall \in Recalls, NEW s \in LiveSlots, BringForward(s)
  PROVE  focus' \in Foci(LiveSlots) /\ recall' \in Recalls
<1> DEFINE f == UpdatedFocus([current |-> s, context |-> Vacant])
<1>1. f \in Foci(LiveSlots)
  BY FocusIsUpdated DEF Foci
<1>2. focus' = [f EXCEPT !.context = s] /\ recall' = Remembered(f.current)
  BY DEF BringForward
<1> HIDE DEF f
<1>3. QED  BY <1>1, <1>2, RecallIsRemembered DEF Foci

LEMMA ContextIsLive ==
  ASSUME focus \in Foci(LiveSlots)
  PROVE  ContextModem \in LiveSlots \cup {Vacant}
  BY DEF ContextModem, Foci

LEMMA ClampedIsNat ==
  ASSUME NEW b \in Nat PROVE Clamped(b) \in Nat
  BY PanelAssumption DEF Clamped, MIN_MODEM_BAND

\* What the rest of a pass does to the widgets.
LEMMA PassIsFinished ==
  ASSUME NEW w \in Panels, NEW v, NEW e \in Effects, FinishPass(w, v, e)
  PROVE  /\ widgets' \in Panels /\ effects' \in Effects /\ UNCHANGED <<focus, panelEvents>>
         /\ widgets'.mode = w.mode /\ widgets'.mute = w.mute /\ widgets'.delta = w.delta
         /\ widgets'.quality = w.quality /\ widgets'.gain = w.gain /\ widgets'.squelch = w.squelch
<1>1. \A m \in Meters : Spent(m) \in Meters
  BY DEF Spent, Meter, Meters
<1>2. /\ w.average \in Meters /\ w.speed \in Meters /\ w.peak \in Buttons /\ w.history \in Buttons
  BY DEF Panels
<1>3. PICK a \in Meters, p \in Meters, k \in Buttons, h \in Buttons :
         /\ a = Spent(w.average) /\ p = Spent(w.speed)
         /\ k = [w.peak EXCEPT !.pressed = FALSE] /\ h = [w.history EXCEPT !.pressed = FALSE]
  BY <1>1, <1>2 DEF Buttons
<1>4. widgets' = [w EXCEPT !.average = a, !.speed = p, !.peak = k, !.history = h]
  <2>1. widgets' = [w EXCEPT !.average = Spent(@), !.speed = Spent(@), !.peak.pressed = FALSE,
                             !.history.pressed = FALSE]
    BY DEF FinishPass
  <2>2. QED  BY <1>3, <2>1 DEF Panels
<1>5. PICK i \in Int, n \in Int, up \in BOOLEAN, dup \in BOOLEAN, past \in BOOLEAN :
         /\ i = IF Moved(w.average) THEN RateOf(w.average) ELSE e.average
         /\ n = IF Moved(w.speed) THEN w.speed.input * w.speed.input ELSE e.lines
         /\ up = IF w.peak.pressed THEN w.peak.on ELSE e.peak
         /\ dup = IF w.peak.pressed THEN w.peak.on ELSE e.demodPeak
         /\ past = IF w.history.pressed THEN w.history.on ELSE e.history
  <2>1. /\ w.average.input \in Int /\ w.speed.input \in Int
        /\ w.peak.on \in BOOLEAN /\ w.history.on \in BOOLEAN
    BY <1>2 DEF Meters, Buttons
  <2>2. /\ e.average \in Int /\ e.lines \in Int /\ e.peak \in BOOLEAN
        /\ e.demodPeak \in BOOLEAN /\ e.history \in BOOLEAN
    BY DEF Effects
  <2>3. RateOf(w.average) \in Int /\ w.speed.input * w.speed.input \in Int
    BY <2>1 DEF RateOf
  <2>4. QED  BY <2>1, <2>2, <2>3
<1>6. effects' = [e EXCEPT !.average = i, !.lines = n, !.peak = up, !.demodPeak = dup,
                           !.history = past]
  BY <1>5 DEF FinishPass, Effects
<1>7. effects' \in Effects
  BY <1>6 DEF Effects
<1>8. QED  BY <1>4, <1>7 DEF FinishPass, Panels

LEMMA PanelIsLoaded ==
  ASSUME NEW w \in Panels, NEW d, IsModem(d)
  PROVE  /\ LoadPanel(w, d) \in Panels
         /\ LoadPanel(w, d).mode = TypeOf(d) /\ ~Moved(LoadPanel(w, d).gain)
         /\ ~Moved(LoadPanel(w, d).squelch)
         /\ LoadPanel(w, d).mute = [on |-> d.muted, pressed |-> w.mute.pressed]
         /\ LoadPanel(w, d).delta = [on |-> d.delta, pressed |-> w.delta.pressed]
         /\ LoadPanel(w, d).quality = [on |-> d.quality, pressed |-> w.quality.pressed]
<1>1. /\ w.mute \in Buttons /\ w.delta \in Buttons /\ w.quality \in Buttons
      /\ TypeOf(d) \in PanelModes /\ d.muted \in BOOLEAN /\ d.delta \in BOOLEAN
      /\ d.quality \in BOOLEAN /\ d.gain \in Int /\ d.squelch \in Int
  BY DEF Panels, IsModem, PanelModems, TypeOf
<1>2. \A b \in Buttons, on \in BOOLEAN :
         [b EXCEPT !.on = on] = [on |-> on, pressed |-> b.pressed] /\ [b EXCEPT !.on = on] \in Buttons
  BY DEF Buttons
<1>3. PICK g \in Meters, q \in Meters : g = Meter(d.gain) /\ q = Meter(d.squelch)
  BY <1>1 DEF Meter, Meters
<1>4. ~Moved(g) /\ ~Moved(q)
  BY <1>3 DEF Moved, Meter
<1>5. PICK m \in Buttons, l \in Buttons, k \in Buttons :
         /\ m = [on |-> d.muted, pressed |-> w.mute.pressed]
         /\ l = [on |-> d.delta, pressed |-> w.delta.pressed]
         /\ k = [on |-> d.quality, pressed |-> w.quality.pressed]
  BY <1>1 DEF Buttons
<1>6. LoadPanel(w, d) = [w EXCEPT !.squelch = q, !.gain = g, !.mode = TypeOf(d), !.delta = l,
                                  !.mute = m, !.quality = k]
  <2>1. /\ m = [w.mute EXCEPT !.on = d.muted] /\ l = [w.delta EXCEPT !.on = d.delta]
        /\ k = [w.quality EXCEPT !.on = d.quality]
    BY <1>1, <1>2, <1>5
  <2>2. QED  BY <1>3, <2>1 DEF LoadPanel, Panels
<1>7. QED  BY <1>1, <1>4, <1>5, <1>6 DEF Panels

LEMMA ButtonsAreApplied ==
  ASSUME NEW d, IsModem(d), NEW w \in Panels, NEW b, b = ApplyButtons(d, w)
  PROVE  /\ IsModem(b) /\ b.gain = d.gain /\ b.squelch = d.squelch
         /\ b.want = IF w.mode \notin {NoMode, TypeOf(d)} THEN w.mode ELSE d.want
         /\ b.muted = IF w.mute.pressed THEN w.mute.on ELSE d.muted
         /\ b.delta = IF w.delta.pressed THEN w.delta.on ELSE d.delta
         /\ b.quality = IF w.quality.pressed THEN w.quality.on ELSE d.quality
<1>1. /\ w.mute.on \in BOOLEAN /\ w.delta.on \in BOOLEAN /\ w.quality.on \in BOOLEAN
      /\ w.mode \in PanelModes \cup {NoMode}
  BY DEF Panels, Buttons
<1>0. \A e : \A on \in BOOLEAN : IsModem(e) => /\ IsModem([e EXCEPT !.muted = on])
                                             /\ IsModem([e EXCEPT !.delta = on])
                                             /\ IsModem([e EXCEPT !.quality = on])
  BY FlagsAreSet, 0 \in Int
<1>2. PICK b1 : /\ b1 = ApplyMode(d, w) /\ IsModem(b1) /\ SameButtons(b1, d)
                /\ b1.want = IF w.mode \notin {NoMode, TypeOf(d)} THEN w.mode ELSE d.want
  BY <1>1, RetypedIsModem DEF ApplyMode, SameButtons
<1>3. PICK b2 : /\ b2 = ApplyMute(b1, w) /\ IsModem(b2)
                /\ b2 = IF w.mute.pressed THEN [b1 EXCEPT !.muted = w.mute.on] ELSE b1
  BY <1>1, <1>2, <1>0 DEF ApplyMute
<1>4. PICK b3 : /\ b3 = ApplyDelta(b2, w) /\ IsModem(b3)
                /\ b3 = IF w.delta.pressed THEN [b2 EXCEPT !.delta = w.delta.on] ELSE b2
  BY <1>1, <1>3, <1>0 DEF ApplyDelta
<1>5. PICK b4 : /\ b4 = ApplyQuality(b3, w) /\ IsModem(b4)
                /\ b4 = IF w.quality.pressed THEN [b3 EXCEPT !.quality = w.quality.on] ELSE b3
  BY <1>1, <1>4, <1>0 DEF ApplyQuality
<1>6. b = b4
  BY <1>2, <1>3, <1>4, <1>5 DEF ApplyButtons
<1>7. /\ b2.want = b1.want /\ b2.delta = b1.delta /\ b2.quality = b1.quality
      /\ b2.gain = b1.gain /\ b2.squelch = b1.squelch
      /\ b2.muted = IF w.mute.pressed THEN w.mute.on ELSE b1.muted
  BY <1>2, <1>3 DEF IsModem, PanelModems
<1>8. /\ b3.want = b2.want /\ b3.muted = b2.muted /\ b3.quality = b2.quality
      /\ b3.gain = b2.gain /\ b3.squelch = b2.squelch
      /\ b3.delta = IF w.delta.pressed THEN w.delta.on ELSE b2.delta
  BY <1>3, <1>4 DEF IsModem, PanelModems
<1>9. /\ b4.want = b3.want /\ b4.muted = b3.muted /\ b4.delta = b3.delta
      /\ b4.gain = b3.gain /\ b4.squelch = b3.squelch
      /\ b4.quality = IF w.quality.pressed THEN w.quality.on ELSE b3.quality
  BY <1>4, <1>5 DEF IsModem, PanelModems
<1>10. QED  BY <1>2, <1>5, <1>6, <1>7, <1>8, <1>9 DEF SameButtons

LEMMA MetersAreApplied ==
  ASSUME NEW d, IsModem(d), NEW w \in Panels, NEW b, b = ApplyMeters(d, w)
  PROVE  /\ IsModem(b) /\ b.want = d.want /\ TypeOf(b) = TypeOf(d) /\ b.ready = d.ready
         /\ b.muted = d.muted /\ b.delta = d.delta /\ b.quality = d.quality
         /\ ~Moved(w.gain) => b.gain = d.gain
         /\ ~Moved(w.squelch) => b.squelch = d.squelch
<1> DEFINE g == IF Moved(w.gain) THEN w.gain.input ELSE d.gain
           q == IF Moved(w.squelch) THEN w.squelch.input ELSE d.squelch
<1>1. g \in Int /\ q \in Int
  BY DEF Panels, Meters, IsModem, PanelModems
<1>2. (~Moved(w.gain) => g = d.gain) /\ (~Moved(w.squelch) => q = d.squelch)
  OBVIOUS
<1>3. b = [d EXCEPT !.squelch = q, !.gain = g]
  BY DEF ApplyMeters, IsModem, PanelModems
<1> HIDE DEF g, q
<1>4. d \in PanelModems
  BY DEF IsModem
<1>5. b \in PanelModems /\ b.gain = g /\ b.squelch = q
  BY <1>1, <1>3, <1>4 DEF PanelModems
<1>6. /\ b.want = d.want /\ b.type = d.type /\ b.changed = d.changed /\ b.ready = d.ready
      /\ b.muted = d.muted /\ b.delta = d.delta /\ b.quality = d.quality
  BY <1>3, <1>4 DEF PanelModems
<1>7. TypeOf(b) = TypeOf(d)
  BY <1>6 DEF TypeOf
<1>8. QED  BY <1>2, <1>5, <1>6, <1>7 DEF IsModem

LEMMA ButtonsAreSettled ==
  ASSUME NEW w \in Panels, NEW d, IsModem(d), NEW alone \in BOOLEAN
  PROVE  /\ Settle(w, d, alone) \in Panels /\ Settle(w, d, alone).mode = w.mode
         /\ ~Settle(w, d, alone).mute.pressed /\ ~Settle(w, d, alone).delta.pressed
         /\ ~Settle(w, d, alone).quality.pressed
         /\ Settle(w, d, alone).gain = w.gain /\ Settle(w, d, alone).squelch = w.squelch
<1>1. \A on \in BOOLEAN : Button(on) \in Buttons /\ Button(on).pressed = FALSE
  BY DEF Button, Buttons
<1>2. /\ d.muted \in BOOLEAN /\ d.delta \in BOOLEAN /\ d.quality \in BOOLEAN
  BY DEF IsModem, PanelModems
<1>3. PICK m \in Buttons, l \in Buttons, o \in Buttons, k \in Buttons :
         /\ m = Button(d.muted) /\ l = Button(d.delta) /\ o = Button(alone) /\ k = Button(d.quality)
         /\ m.pressed = FALSE /\ l.pressed = FALSE /\ k.pressed = FALSE
  BY <1>1, <1>2
<1>4. Settle(w, d, alone) = [w EXCEPT !.mute = m, !.delta = l, !.solo = o, !.quality = k]
  BY <1>3 DEF Settle
<1>5. QED  BY <1>3, <1>4 DEF Panels

LEMMA SameReached ==
  ASSUME NEW s \in PanelSlots, NEW d, slots' = [slots EXCEPT ![s] = d], PanelSlotsHold(slots),
         slots[s].live => d.want = slots[s].want /\ SameButtons(d, slots[s])
  PROVE  OnlyWhereMeant
  BY DEF PanelSlotsHold, OnlyWhereMeant, SameButtons

LEMMA PassReaches ==
  ASSUME PanelInv, focus.current # Vacant, HandleCurrentModem
  PROVE  PanelInv' /\ OnlyWhereMeant
<1> DEFINE s == focus.current
           d == slots[s]
           fresh == s # frame.loaded
           w == IF fresh THEN LoadPanel(widgets, d) ELSE widgets
           t == [d EXCEPT !.tracking = StillTracking(d, PanelPlaces[s], sights)]
           still == sights.dragging
           b == IF still THEN t ELSE ApplyButtons(t, w)
           alone == IF ~still /\ w.solo.pressed THEN w.solo.on ELSE effects.solo
           is == ApplyMeters(b, w)
           x == IF still THEN w ELSE Settle(w, b, alone)
           y == [x EXCEPT !.squelch = Spent(@), !.gain = Spent(@)]
           r == [recall EXCEPT !.band = Clamped(d.band), !.gain = IF fresh THEN d.gain ELSE @,
                               !.squelch = IF Moved(w.squelch) THEN w.squelch.input ELSE @]
           e == [effects EXCEPT !.solo = alone]
<1>1. /\ s \in LiveSlots /\ s \in PanelSlots /\ IsModem(d) /\ widgets \in Panels
      /\ PanelSlotsHold(slots) /\ focus \in Foci(LiveSlots) /\ recall \in Recalls /\ effects \in Effects
      /\ frame \in PanelFrames /\ meantFor \in Meanings(LiveSlots)
      /\ panelEvents \in 0 .. MaxPanelEvents /\ WidgetsAreTold
  BY LiveIsModem DEF PanelInv, PanelTypes, Foci
<1>2. w \in Panels
  BY <1>1, PanelIsLoaded
<1>3. /\ IsModem(t) /\ t.want = d.want /\ TypeOf(t) = TypeOf(d) /\ SameButtons(t, d)
  <2>1. StillTracking(d, PanelPlaces[s], sights) \in BOOLEAN
    BY DEF StillTracking
  <2>2. IsModem(t)
    BY <1>1, <2>1, FlagsAreSet, 0 \in Int
  <2>3. QED  BY <1>1, <2>2 DEF IsModem, PanelModems, TypeOf, SameButtons
<1>4. /\ IsModem(b) /\ b.gain = d.gain /\ b.squelch = d.squelch
      /\ still => b = t
      /\ ~still => /\ b.want = IF w.mode \notin {NoMode, TypeOf(d)} THEN w.mode ELSE d.want
                   /\ b.muted = IF w.mute.pressed THEN w.mute.on ELSE d.muted
                   /\ b.delta = IF w.delta.pressed THEN w.delta.on ELSE d.delta
                   /\ b.quality = IF w.quality.pressed THEN w.quality.on ELSE d.quality
  <2>1. t.gain = d.gain /\ t.squelch = d.squelch /\ t.muted = d.muted /\ t.delta = d.delta
        /\ t.quality = d.quality
    BY <1>3 DEF SameButtons
  <2>2. CASE still
    BY <1>3, <2>1, <2>2
  <2>3. CASE ~still
    <3>1. b = ApplyButtons(t, w)
      BY <2>3
    <3> HIDE DEF b, t, w
    <3>2. QED  BY <1>2, <1>3, <2>1, <2>3, <3>1, ButtonsAreApplied
  <2>4. QED  BY <2>2, <2>3
<1>5. alone \in BOOLEAN /\ e \in Effects
  <2>1. w.solo.on \in BOOLEAN /\ effects.solo \in BOOLEAN
    BY <1>1, <1>2 DEF Panels, Buttons, Effects
  <2>2. alone \in BOOLEAN
    BY <2>1
  <2> HIDE DEF alone
  <2>3. QED  BY <1>1, <2>2 DEF Effects
<1>6. /\ IsModem(is) /\ is.want = b.want
      /\ is.muted = b.muted /\ is.delta = b.delta /\ is.quality = b.quality
      /\ ~Moved(w.gain) => is.gain = b.gain
      /\ ~Moved(w.squelch) => is.squelch = b.squelch
  <2>1. is = ApplyMeters(b, w)
    OBVIOUS
  <2> HIDE DEF is, b, w
  <2>2. QED  BY <1>2, <1>4, <2>1, MetersAreApplied
<1>7. /\ x \in Panels /\ x.mode = w.mode
      /\ \/ still /\ x = w
         \/ ~still /\ ~x.mute.pressed /\ ~x.delta.pressed /\ ~x.quality.pressed
  BY <1>2, <1>4, <1>5, ButtonsAreSettled
<1>8. /\ slots' = [slots EXCEPT ![s] = is]
      /\ recall' = IF still THEN r ELSE RecallButtons(r, w, t, b)
      /\ meantFor' = IF fresh
                     THEN [k \in PanelWidgets |->
                             [meantFor[k] EXCEPT !.outdated = IF Outdated(k, d, still) THEN s
                                                              ELSE Vacant]]
                     ELSE meantFor
      /\ frame' = [loaded |-> s, due |-> (fresh \/ frame.due) /\ ~is.ready,
                   sheet |-> IF (fresh \/ frame.due) /\ is.ready THEN s ELSE frame.sheet]
      /\ \E v : FinishPass(y, v, e)
  BY DEF HandleCurrentModem
<1> HIDE DEF w, t, still, b, alone, is, x, e
<1>9. /\ y \in Panels /\ y.mode = x.mode /\ y.mute = x.mute /\ y.delta = x.delta
      /\ y.quality = x.quality /\ ~Moved(y.gain) /\ ~Moved(y.squelch)
  <2>1. \A m \in Meters : Spent(m) \in Meters /\ ~Moved(Spent(m))
    BY DEF Spent, Meter, Meters, Moved
  <2>2. PICK g \in Meters, q \in Meters :
           g = Spent(x.gain) /\ q = Spent(x.squelch) /\ ~Moved(g) /\ ~Moved(q)
    BY <1>7, <2>1 DEF Panels
  <2>3. y = [x EXCEPT !.squelch = q, !.gain = g]
    BY <1>7, <2>2 DEF Panels
  <2>4. QED  BY <1>7, <2>2, <2>3 DEF Panels
<1> HIDE DEF y
<1>10. /\ widgets' \in Panels /\ effects' \in Effects /\ focus' = focus /\ panelEvents' = panelEvents
       /\ widgets'.mode = y.mode /\ widgets'.mute = y.mute /\ widgets'.delta = y.delta
       /\ widgets'.quality = y.quality /\ widgets'.gain = y.gain /\ widgets'.squelch = y.squelch
  BY <1>5, <1>8, <1>9, PassIsFinished
<1>11. recall' \in Recalls
  <2>1. /\ Clamped(d.band) \in Nat /\ d.gain \in Int /\ w.squelch.input \in Int
        /\ recall.gain \in Int /\ recall.squelch \in Int
    BY <1>1, <1>2, ClampedIsNat DEF IsModem, PanelModems, Panels, Meters, Recalls
  <2>2. PICK g \in Int, q \in Int :
           /\ g = IF fresh THEN d.gain ELSE recall.gain
           /\ q = IF Moved(w.squelch) THEN w.squelch.input ELSE recall.squelch
    BY <2>1
  <2>3. r = [recall EXCEPT !.band = Clamped(d.band), !.gain = g, !.squelch = q]
    BY <1>1, <2>2 DEF Recalls
  <2>4. r \in Recalls
    BY <1>1, <2>1, <2>3 DEF Recalls
  <2> HIDE DEF r
  <2>5. b.muted \in BOOLEAN /\ b.delta \in BOOLEAN /\ b.quality \in BOOLEAN
    BY <1>4 DEF IsModem, PanelModems
  <2>6. RecallButtons(r, w, t, b) \in Recalls
    BY <2>4, <2>5 DEF RecallButtons, Recalls
  <2>7. QED  BY <1>8, <2>4, <2>6
<1>12. meantFor' \in Meanings(LiveSlots) /\ frame' \in PanelFrames
  <2>1. frame' \in PanelFrames
    BY <1>1, <1>6, <1>8 DEF PanelFrames, IsModem, PanelModems
  <2>2. meantFor' \in Meanings(LiveSlots)
    BY <1>1, <1>8 DEF Meanings
  <2>3. QED  BY <2>1, <2>2
<1>13. PanelSlotsHold(slots') /\ slots'[s] = is /\ LiveSlots' = LiveSlots
       /\ \A u \in PanelSlots \ {s} : slots'[u] = slots[u]
  <2>1. Becomes(s, is)
    BY <1>8 DEF Becomes
  <2>2. LiveSlots \cup {s} = LiveSlots
    BY <1>1
  <2>3. QED  BY <1>1, <1>6, <2>1, <2>2, ModemIsSetTo
<1>14. PanelTypes'
  BY <1>1, <1>10, <1>11, <1>12, <1>13 DEF PanelTypes
<1>15. CASE ~fresh
  <2>1. /\ w = widgets /\ meantFor' = meantFor /\ frame'.loaded = s /\ frame.loaded = s
    BY <1>8, <1>15 DEF w
  <2>2. \A k \in PanelWidgets : MayReach(k)' <=> MayReach(k)
    BY <2>1 DEF MayReach
  <2>3. is.want # d.want => is.want = widgets.mode /\ widgets.mode # NoMode
    <3>1. CASE still
      BY <1>3, <1>4, <1>6, <3>1
    <3>2. CASE ~still
      <4>1. is.want = IF widgets.mode \notin {NoMode, TypeOf(d)} THEN widgets.mode ELSE d.want
        BY <1>4, <1>6, <2>1, <3>2
      <4>2. QED  BY <4>1
    <3>3. QED  BY <3>1, <3>2
  <2>4. /\ is.muted # d.muted => widgets.mute.pressed
        /\ is.delta # d.delta => widgets.delta.pressed
        /\ is.quality # d.quality => widgets.quality.pressed
        /\ is.gain # d.gain => Moved(widgets.gain)
        /\ is.squelch # d.squelch => Moved(widgets.squelch)
    <3>1. CASE still
      BY <1>3, <1>4, <1>6, <2>1, <3>1 DEF SameButtons
    <3>2. CASE ~still
      BY <1>4, <1>6, <2>1, <3>2
    <3>3. QED  BY <3>1, <3>2
  <2>5. /\ widgets'.mode = widgets.mode
        /\ widgets'.mute.pressed => widgets.mute.pressed
        /\ widgets'.delta.pressed => widgets.delta.pressed
        /\ widgets'.quality.pressed => widgets.quality.pressed
        /\ ~Moved(widgets'.gain) /\ ~Moved(widgets'.squelch)
    BY <1>7, <1>9, <1>10, <2>1
  <2>6. {"mode", "mute", "delta", "quality", "gain", "squelch"} \subseteq PanelWidgets
    BY DEF PanelWidgets
  <2>7. /\ (widgets.mode = NoMode \/ MayReach("mode") \/ widgets.mode = d.want)
        /\ widgets.mute.pressed => MayReach("mute")
        /\ widgets.delta.pressed => MayReach("delta")
        /\ widgets.quality.pressed => MayReach("quality")
        /\ Moved(widgets.gain) => MayReach("gain")
        /\ Moved(widgets.squelch) => MayReach("squelch")
    BY <1>1, <2>1 DEF WidgetsAreTold
  <2>8. WidgetsAreTold'
    <3>1. \/ widgets'.mode = NoMode
          \/ MayReach("mode")'
          \/ s \in LiveSlots' /\ widgets'.mode = slots'[s].want
      BY <1>1, <1>13, <2>2, <2>3, <2>5, <2>6, <2>7
    <3>2. QED  BY <2>1, <2>2, <2>5, <2>6, <2>7, <3>1 DEF WidgetsAreTold, Moved
  <2>9. OnlyWhereMeant
    <3>1. \A k : MayReach(k) =>
             s \in {meantFor[k].modem, meantFor[k].shown, meantFor[k].outdated}
      BY <2>1 DEF MayReach
    <3>2. \A u \in PanelSlots : u # s => slots'[u] = slots[u]
      BY <1>13
    <3>3. QED  BY <1>13, <2>3, <2>4, <2>7, <3>1, <3>2 DEF OnlyWhereMeant
  <2>10. QED  BY <1>14, <2>8, <2>9 DEF PanelInv
<1>16. CASE fresh
  <2>1. /\ w = LoadPanel(widgets, d) /\ frame'.loaded = s
        /\ meantFor' = [k \in PanelWidgets |->
                           [meantFor[k] EXCEPT !.outdated = IF Outdated(k, d, still) THEN s
                                                            ELSE Vacant]]
    BY <1>8, <1>16 DEF w
  <2>2. /\ w.mode = TypeOf(d) /\ ~Moved(w.gain) /\ ~Moved(w.squelch)
        /\ w.mute = [on |-> d.muted, pressed |-> widgets.mute.pressed]
        /\ w.delta = [on |-> d.delta, pressed |-> widgets.delta.pressed]
        /\ w.quality = [on |-> d.quality, pressed |-> widgets.quality.pressed]
    BY <1>1, <2>1, PanelIsLoaded
  <2>3. is.want = d.want /\ SameButtons(is, d)
    <3>1. CASE still
      BY <1>3, <1>4, <1>6, <2>2, <3>1 DEF SameButtons
    <3>2. CASE ~still
      BY <1>4, <1>6, <2>2, <3>2 DEF SameButtons
    <3>3. QED  BY <3>1, <3>2
  <2>4. OnlyWhereMeant
    BY <1>1, <1>8, <2>3, SameReached
  <2>5. \A k \in PanelWidgets : Outdated(k, d, still) => MayReach(k)'
    BY <1>1, <2>1 DEF MayReach, Meanings
  <2>6. WidgetsAreTold'
    <3>1. d.want # widgets'.mode => MayReach("mode")'
      BY <1>7, <1>9, <1>10, <2>2, <2>5 DEF Outdated, PanelWidgets
    <3>2. /\ widgets'.mute.pressed => still /\ widgets.mute.pressed
          /\ widgets'.delta.pressed => still /\ widgets.delta.pressed
          /\ widgets'.quality.pressed => still /\ widgets.quality.pressed
      BY <1>7, <1>9, <1>10, <2>2
    <3>3. \A k \in {"mute", "delta", "quality"} :
             still /\ widgets[k].pressed => MayReach(k)'
      BY <2>5 DEF Outdated, PanelWidgets
    <3>4. slots'[s].want = d.want /\ s \in LiveSlots'
      BY <1>1, <1>13, <2>3
    <3>5. ~Moved(widgets'.gain) /\ ~Moved(widgets'.squelch)
      BY <1>9, <1>10
    <3>6. QED  BY <2>1, <3>1, <3>2, <3>3, <3>4, <3>5 DEF WidgetsAreTold, Moved
  <2>7. QED  BY <1>14, <2>4, <2>6 DEF PanelInv
<1>17. QED  BY <1>15, <1>16

-----------------------------------------------------------------------------
(* ModemPanel: steps that leave the widgets alone.                         *)

Steps == PanelInv' /\ (panelEvents' = panelEvents => OnlyWhereMeant)

LEMMA EventsAreCounted ==
  ASSUME panelEvents \in 0 .. MaxPanelEvents, PanelEvent \/ MinorEvent
  PROVE  panelEvents' \in 0 .. MaxPanelEvents /\ panelEvents' # panelEvents
  BY PanelAssumption DEF PanelEvent, MinorEvent

LEMMA StillTold ==
  ASSUME WidgetsAreTold, UNCHANGED <<widgets, meantFor>>, frame'.loaded = frame.loaded,
         frame.loaded \in LiveSlots => /\ frame.loaded \in LiveSlots'
                                       /\ slots'[frame.loaded].want = slots[frame.loaded].want
  PROVE  WidgetsAreTold'
<1>1. \A k : MayReach(k)' <=> MayReach(k)
  BY DEF MayReach
<1>2. QED  BY <1>1 DEF WidgetsAreTold, Moved

\* One modem changes, though not its type, and the focus may.
LEMMA OneModemChanges ==
  ASSUME PanelInv, NEW s \in LiveSlots, NEW d, IsModem(d), Becomes(s, d),
         d.want = slots[s].want, focus' \in Foci(LiveSlots), recall' \in Recalls,
         UNCHANGED <<widgets, meantFor, effects>>, frame' \in PanelFrames,
         frame'.loaded = frame.loaded, panelEvents' \in 0 .. MaxPanelEvents,
         panelEvents' = panelEvents => SameButtons(d, slots[s])
  PROVE  Steps
<1>1. PanelTypes /\ WidgetsAreTold /\ s \in PanelSlots /\ PanelSlotsHold(slots)
  BY DEF PanelInv, PanelTypes, LiveSlots
<1>2. PanelSlotsHold(slots') /\ slots'[s] = d /\ LiveSlots' = LiveSlots
      /\ \A t \in PanelSlots \ {s} : slots'[t] = slots[t]
  <2>1. LiveSlots \cup {s} = LiveSlots
    OBVIOUS
  <2>2. QED  BY <1>1, <2>1, ModemIsSetTo
<1>3. PanelTypes'
  BY <1>1, <1>2 DEF PanelTypes
<1>4. WidgetsAreTold'
  <2>1. \A t \in LiveSlots : t \in PanelSlots
    BY DEF LiveSlots
  <2>2. QED  BY <1>1, <1>2, <2>1, StillTold
<1>5. panelEvents' = panelEvents => OnlyWhereMeant
  BY <1>1, SameReached DEF Becomes
<1>6. QED  BY <1>3, <1>4, <1>5 DEF Steps, PanelInv

\* No modem changes, and the widgets do not.
LEMMA NoModemChanges ==
  ASSUME PanelInv, slots' = slots, focus' \in Foci(LiveSlots), recall' \in Recalls,
         UNCHANGED <<widgets, meantFor, frame>>, effects' \in Effects,
         panelEvents' \in 0 .. MaxPanelEvents
  PROVE  Steps
<1>1. LiveSlots' = LiveSlots
  BY DEF LiveSlots
<1>2. PanelTypes'
  BY <1>1 DEF PanelInv, PanelTypes
<1>3. WidgetsAreTold'
  BY <1>1, StillTold DEF PanelInv
<1>4. OnlyWhereMeant
  BY DEF OnlyWhereMeant
<1>5. QED  BY <1>2, <1>3, <1>4 DEF Steps, PanelInv

\* A new modem, which may be made the current one.
LEMMA ModemIsBorn ==
  ASSUME PanelInv, NEW s \in PanelSlots, ~slots[s].live, NEW mode \in PanelModes,
         NEW r \in [band : Nat, muted : BOOLEAN, delta : BOOLEAN, quality : BOOLEAN,
                    gain : Int, squelch : Int] \cup Recalls,
         slots' = [slots EXCEPT ![s] = Born(mode, r)], focus' \in Foci(LiveSlots \cup {s}),
         UNCHANGED <<recall, widgets, frame, effects, meantFor>>,
         panelEvents' \in 0 .. MaxPanelEvents, panelEvents' # panelEvents
  PROVE  Steps
<1>1. PanelTypes /\ WidgetsAreTold /\ PanelSlotsHold(slots)
  BY DEF PanelInv, PanelTypes
<1>2. IsModem(Born(mode, r))
  <2>1. /\ r.band \in Nat /\ r.muted \in BOOLEAN /\ r.delta \in BOOLEAN /\ r.quality \in BOOLEAN
        /\ r.gain \in Int /\ r.squelch \in Int
    BY DEF Recalls
  <2>2. << >> \in Seq([type : PanelModes, makes : BOOLEAN])
    BY EmptySeq
  <2>3. Born(mode, r) \in PanelModems
    BY <2>1, <2>2 DEF Born, PanelModems
  <2>4. TypeOf(Born(mode, r)) = mode
    BY DEF Born, TypeOf
  <2>5. QED  BY <2>3, <2>4, ModesThereAre DEF IsModem
<1>3. PanelSlotsHold(slots') /\ LiveSlots' = LiveSlots \cup {s}
      /\ \A t \in PanelSlots \ {s} : slots'[t] = slots[t]
  BY <1>1, <1>2, ModemIsSetTo DEF Becomes
<1>4. meantFor' \in Meanings(LiveSlots')
  BY <1>1, <1>3 DEF PanelTypes, Meanings
<1>5. PanelTypes'
  BY <1>1, <1>3, <1>4 DEF PanelTypes
<1>6. WidgetsAreTold'
  <2>1. s \notin LiveSlots /\ LiveSlots \subseteq PanelSlots
    BY DEF LiveSlots
  <2>2. frame.loaded \in LiveSlots => /\ frame.loaded \in LiveSlots'
                                      /\ slots'[frame.loaded].want = slots[frame.loaded].want
    BY <1>3, <2>1
  <2>3. QED  BY <1>1, <2>2, StillTold
<1>7. QED  BY <1>5, <1>6 DEF Steps, PanelInv

LEMMA InvSays ==
  ASSUME PanelInv
  PROVE  /\ PanelSlotsHold(slots) /\ focus \in Foci(LiveSlots) /\ recall \in Recalls
         /\ widgets \in Panels /\ effects \in Effects /\ frame \in PanelFrames
         /\ meantFor \in Meanings(LiveSlots) /\ panelEvents \in 0 .. MaxPanelEvents
         /\ frame.loaded \in PanelSlots
         /\ \A s \in LiveSlots : s \in PanelSlots /\ IsModem(slots[s])
  BY LiveIsModem DEF PanelInv, PanelTypes, PanelFrames

LEMMA ThreadsKeep ==
  ASSUME PanelInv, NEW s \in PanelSlots, TakeType(s) \/ AskFilters(s) \/ ForgetKit(s) \/ TakeKit(s)
  PROVE  Steps
<1> DEFINE d == slots[s]
           Jobs == [type : PanelModes, makes : BOOLEAN]
<1>1. s \in LiveSlots
  BY DEF TakeType, AskFilters, ForgetKit, TakeKit, LiveSlots
<1>2. IsModem(d) /\ d.jobs \in Seq(Jobs) /\ d.want \in PanelModes /\ d.type \in PanelModes \cup {NoMode}
  BY <1>1, InvSays DEF IsModem, PanelModems
<1> HIDE DEF Jobs
<1>3. frame \in PanelFrames /\ focus \in Foci(LiveSlots) /\ recall \in Recalls
      /\ panelEvents \in 0 .. MaxPanelEvents
  BY InvSays
<1>4. CASE TakeType(s)
  <2>1. PICK js \in Seq(Jobs) : js = Append(d.jobs, Job(d.want, TRUE))
    <3>1. Job(d.want, TRUE) \in Jobs
      BY <1>2 DEF Job, Jobs
    <3> HIDE DEF d
    <3>2. Append(d.jobs, Job(d.want, TRUE)) \in Seq(Jobs)
      BY <1>2, <3>1, AppendProperties
    <3>3. QED  BY <3>2
  <2> DEFINE e == [d EXCEPT !.jobs = js, !.type = d.want, !.changed = FALSE, !.stale = TRUE]
  <2>2. Becomes(s, e) /\ UNCHANGED <<focus, recall, widgets, frame, effects, meantFor, panelEvents>>
    BY <1>2, <1>4, <2>1 DEF TakeType, Becomes, IsModem, PanelModems
  <2>3. IsModem(e) /\ e.want = d.want /\ SameButtons(e, d)
    <3>1. d \in PanelModems /\ js \in Seq([type : PanelModes, makes : BOOLEAN])
      BY <1>2, <2>1 DEF IsModem, Jobs
    <3>2. e \in PanelModems /\ d.want \in PanelModes
      BY <3>1 DEF PanelModems
    <3>3. e.want = d.want /\ e.type = d.want /\ e.changed = FALSE
      BY <3>1 DEF PanelModems
    <3>4. SameButtons(e, d)
      BY <3>1 DEF PanelModems, SameButtons
    <3> HIDE DEF e
    <3>5. QED  BY <3>2, <3>3, <3>4, ModesThereAre DEF IsModem, TypeOf
  <2> HIDE DEF e
  <2>4. QED  BY <1>1, <1>3, <2>2, <2>3, OneModemChanges
<1>5. CASE AskFilters(s)
  <2>1. d.type \in PanelModes
    BY <1>2, <1>5, ModesThereAre DEF AskFilters, IsModem, TypeOf
  <2>2. PICK js \in Seq(Jobs) : js = Append(d.jobs, Job(NextType(d), FALSE))
    <3>1. d.jobs # << >> => d.jobs[Len(d.jobs)] \in Jobs
      BY <1>2
    <3>2. NextType(d) \in PanelModes
      BY <2>1, <3>1 DEF NextType, Jobs
    <3>3. Job(NextType(d), FALSE) \in Jobs
      BY <3>2 DEF Job, Jobs
    <3> HIDE DEF d
    <3>4. Append(d.jobs, Job(NextType(d), FALSE)) \in Seq(Jobs)
      BY <1>2, <3>3, AppendProperties
    <3>5. QED  BY <3>4
  <2> DEFINE e == [d EXCEPT !.jobs = js, !.rebuild = FALSE]
  <2>3. Becomes(s, e) /\ UNCHANGED <<focus, recall, widgets, frame, effects, meantFor, panelEvents>>
    BY <1>2, <1>5, <2>2 DEF AskFilters, Becomes, IsModem, PanelModems
  <2>4. IsModem(e) /\ e.want = d.want /\ SameButtons(e, d)
    BY <1>2, <2>2 DEF IsModem, PanelModems, TypeOf, SameButtons, Jobs
  <2> HIDE DEF e
  <2>5. QED  BY <1>1, <1>3, <2>3, <2>4, OneModemChanges
<1>6. CASE ForgetKit(s)
  <2> DEFINE e == [d EXCEPT !.ready = FALSE, !.stale = FALSE]
  <2>1. Becomes(s, e) /\ UNCHANGED <<focus, recall, widgets, frame, effects, meantFor, panelEvents>>
    BY <1>6 DEF ForgetKit
  <2>2. IsModem(e) /\ e.want = d.want /\ SameButtons(e, d)
    BY <1>2 DEF IsModem, PanelModems, TypeOf, SameButtons
  <2> HIDE DEF e
  <2>3. QED  BY <1>1, <1>3, <2>1, <2>2, OneModemChanges
<1>7. CASE TakeKit(s)
  <2>1. PICK n \in DOMAIN d.jobs :
           /\ Becomes(s, [d EXCEPT !.type = d.jobs[n].type, !.changed = FALSE, !.ready = TRUE,
                                   !.jobs = SubSeq(@, n + 1, Len(@))])
           /\ frame' = [frame EXCEPT !.due = @ \/ \E m \in 1 .. n : d.jobs[m].makes]
    BY <1>7 DEF TakeKit
  <2>2. n \in 1 .. Len(d.jobs) /\ d.jobs[n] \in Jobs /\ Len(d.jobs) \in Nat
    BY <1>2
  <2>3. PICK js \in Seq(Jobs), m \in PanelModes :
           js = SubSeq(d.jobs, n + 1, Len(d.jobs)) /\ m = d.jobs[n].type
    <3>1. SubSeq(d.jobs, n + 1, Len(d.jobs)) \in Seq(Jobs)
      BY <1>2, <2>2, SubSeqProperties
    <3>2. QED  BY <2>2, <3>1 DEF Jobs
  <2> DEFINE e == [d EXCEPT !.type = m, !.changed = FALSE, !.ready = TRUE, !.jobs = js]
  <2>4. Becomes(s, e)
    BY <1>2, <2>1, <2>3 DEF IsModem, PanelModems
  <2>5. IsModem(e) /\ e.want = d.want /\ SameButtons(e, d)
    <3>1. d \in PanelModems /\ js \in Seq([type : PanelModes, makes : BOOLEAN])
      BY <1>2, <2>3 DEF IsModem, Jobs
    <3>2. e \in PanelModems
      BY <2>3, <3>1 DEF PanelModems
    <3>3. e.want = d.want /\ e.type = m /\ e.changed = FALSE
      BY <3>1 DEF PanelModems
    <3>4. SameButtons(e, d)
      BY <3>1 DEF PanelModems, SameButtons
    <3> HIDE DEF e
    <3>5. QED  BY <2>3, <3>2, <3>3, <3>4, ModesThereAre DEF IsModem, TypeOf
  <2>6. frame' \in PanelFrames /\ frame'.loaded = frame.loaded
    BY <1>3, <2>1 DEF PanelFrames
  <2>7. UNCHANGED <<focus, recall, widgets, effects, meantFor, panelEvents>>
    BY <1>7 DEF TakeKit
  <2> HIDE DEF e
  <2>8. QED  BY <1>1, <1>3, <2>4, <2>5, <2>6, <2>7, OneModemChanges
<1>8. QED  BY <1>4, <1>5, <1>6, <1>7

LEMMA RangeKeeps ==
  ASSUME PanelInv, NEW s \in PanelSlots, OutOfRange(s) \/ BackInRange(s)
  PROVE  Steps
<1>1. s \in LiveSlots /\ PanelEvent
  BY DEF OutOfRange, BackInRange, IsActive, LiveSlots
<1>2. panelEvents' \in 0 .. MaxPanelEvents /\ panelEvents' # panelEvents
  BY <1>1, InvSays, EventsAreCounted
<1>3. PICK d : /\ IsModem(d) /\ Becomes(s, d) /\ d.want = slots[s].want
  <2>1. IsModem(slots[s])
    BY <1>1, InvSays
  <2>2. CASE OutOfRange(s)
    <3>1. Becomes(s, [slots[s] EXCEPT !.active = FALSE, !.tracking = FALSE])
      BY <2>2 DEF OutOfRange
    <3>2. IsModem([slots[s] EXCEPT !.active = FALSE, !.tracking = FALSE])
          /\ [slots[s] EXCEPT !.active = FALSE, !.tracking = FALSE].want = slots[s].want
      BY <2>1 DEF IsModem, PanelModems, TypeOf
    <3>3. QED  BY <3>1, <3>2
  <2>3. CASE BackInRange(s)
    <3>1. Becomes(s, [slots[s] EXCEPT !.active = TRUE])
      BY <2>3 DEF BackInRange
    <3>2. IsModem([slots[s] EXCEPT !.active = TRUE])
          /\ [slots[s] EXCEPT !.active = TRUE].want = slots[s].want
      BY <2>1 DEF IsModem, PanelModems, TypeOf
    <3>3. QED  BY <3>1, <3>2
  <2>4. QED  BY <2>2, <2>3
<1>4. focus' \in Foci(LiveSlots) /\ UNCHANGED <<recall, widgets, frame, effects, meantFor>>
  BY <1>1, InvSays DEF OutOfRange, BackInRange, Foci
<1>5. QED  BY <1>1, <1>2, <1>3, <1>4, InvSays, OneModemChanges

-----------------------------------------------------------------------------
(* ModemPanel: idle passes without a modem, the mouse and the keyboard.    *)

LEMMA WaitingKeeps ==
  ASSUME PanelInv, IdleWaiting
  PROVE  Steps
<1>1. FinishPass(widgets, sights, effects) /\ UNCHANGED <<slots, recall, frame, meantFor>>
  BY DEF IdleWaiting
<1>2. /\ widgets' \in Panels /\ effects' \in Effects /\ UNCHANGED <<focus, panelEvents>>
      /\ widgets'.mode = widgets.mode /\ widgets'.mute = widgets.mute
      /\ widgets'.delta = widgets.delta /\ widgets'.quality = widgets.quality
      /\ widgets'.gain = widgets.gain /\ widgets'.squelch = widgets.squelch
  BY <1>1, InvSays, PassIsFinished
<1>3. LiveSlots' = LiveSlots /\ \A k : MayReach(k)' <=> MayReach(k)
  BY <1>1 DEF LiveSlots, MayReach
<1>4. PanelTypes'
  BY <1>1, <1>2, <1>3 DEF PanelInv, PanelTypes
<1>5. WidgetsAreTold'
  BY <1>1, <1>2, <1>3 DEF PanelInv, WidgetsAreTold, Moved
<1>6. OnlyWhereMeant
  BY <1>1 DEF OnlyWhereMeant
<1>7. QED  BY <1>4, <1>5, <1>6 DEF Steps, PanelInv

LEMMA WithoutModemKeeps ==
  ASSUME PanelInv, IdleWithoutModem
  PROVE  Steps
<1> DEFINE y == [widgets EXCEPT !.squelch = Spent(@), !.gain = Spent(@), !.mute.pressed = FALSE,
                                !.quality.pressed = FALSE]
<1>1. /\ \E v : FinishPass(y, v, effects)
      /\ UNCHANGED <<slots, meantFor>>
      /\ frame' = [frame EXCEPT !.sheet = IF frame.due THEN Vacant ELSE @]
  BY DEF IdleWithoutModem
<1>2. widgets \in Panels
  BY InvSays
<1>3. /\ y \in Panels /\ y.mode = widgets.mode /\ y.delta = widgets.delta
      /\ ~y.mute.pressed /\ ~y.quality.pressed /\ ~Moved(y.gain) /\ ~Moved(y.squelch)
  <2>1. \A m \in Meters : Spent(m) \in Meters /\ ~Moved(Spent(m))
    BY DEF Spent, Meter, Meters, Moved
  <2>2. PICK g \in Meters, q \in Meters :
           g = Spent(widgets.gain) /\ q = Spent(widgets.squelch) /\ ~Moved(g) /\ ~Moved(q)
    BY <1>2, <2>1 DEF Panels
  <2>3. PICK m \in Buttons, k \in Buttons :
           /\ m = [widgets.mute EXCEPT !.pressed = FALSE] /\ ~m.pressed
           /\ k = [widgets.quality EXCEPT !.pressed = FALSE] /\ ~k.pressed
    <3>1. \A b \in Buttons : /\ [b EXCEPT !.pressed = FALSE] \in Buttons
                             /\ [b EXCEPT !.pressed = FALSE].pressed = FALSE
      BY DEF Buttons
    <3>2. widgets.mute \in Buttons /\ widgets.quality \in Buttons
      BY <1>2 DEF Panels
    <3>3. QED  BY <3>1, <3>2
  <2>4. y = [widgets EXCEPT !.squelch = q, !.gain = g, !.mute = m, !.quality = k]
    BY <1>2, <2>2, <2>3 DEF Panels
  <2>5. QED  BY <1>2, <2>2, <2>3, <2>4 DEF Panels
<1> HIDE DEF y
<1>4. /\ widgets' \in Panels /\ effects' \in Effects /\ focus' = focus /\ panelEvents' = panelEvents
      /\ widgets'.mode = y.mode /\ widgets'.mute = y.mute /\ widgets'.delta = y.delta
      /\ widgets'.quality = y.quality /\ widgets'.gain = y.gain /\ widgets'.squelch = y.squelch
  BY <1>1, <1>3, InvSays, PassIsFinished
<1>5. recall' \in Recalls
  <2> DEFINE other == widgets.mode \notin {NoMode, recall.type}
             m == IF other THEN widgets.mode ELSE recall.type
             b == IF other THEN Clamped(DefaultBand[widgets.mode]) ELSE recall.band
             q == IF Moved(widgets.squelch) THEN widgets.squelch.input ELSE recall.squelch
             g == IF Moved(widgets.gain) THEN widgets.gain.input ELSE recall.gain
             u == IF widgets.mute.pressed THEN widgets.mute.on ELSE recall.muted
             k == IF widgets.quality.pressed THEN widgets.quality.on ELSE recall.quality
  <2>1. recall \in Recalls
    BY InvSays
  <2>2. m \in PanelModes /\ b \in Nat
    BY <1>2, <2>1, ModesThereAre, ClampedIsNat DEF Panels, Recalls
  <2>3. q \in Int /\ g \in Int /\ u \in BOOLEAN /\ k \in BOOLEAN
    BY <1>2, <2>1 DEF Panels, Meters, Buttons, Recalls
  <2>4. recall' = [recall EXCEPT !.type = m, !.band = b, !.squelch = q, !.gain = g, !.muted = u,
                                 !.quality = k]
    BY <2>1 DEF IdleWithoutModem, Recalls
  <2> HIDE DEF m, b, q, g, u, k
  <2>5. QED  BY <2>1, <2>2, <2>3, <2>4 DEF Recalls
<1>6. frame' \in PanelFrames /\ frame'.loaded = frame.loaded
  BY <1>1, InvSays DEF PanelFrames
<1>7. LiveSlots' = LiveSlots /\ \A k : MayReach(k)' <=> MayReach(k)
  BY <1>1, <1>6 DEF LiveSlots, MayReach
<1>8. PanelTypes'
  BY <1>1, <1>4, <1>5, <1>6, <1>7 DEF PanelInv, PanelTypes
<1>9. WidgetsAreTold'
  BY <1>1, <1>3, <1>4, <1>6, <1>7 DEF PanelInv, WidgetsAreTold, Moved
<1>10. OnlyWhereMeant
  BY <1>1 DEF OnlyWhereMeant
<1>11. QED  BY <1>8, <1>9, <1>10 DEF Steps, PanelInv

\* Widgets change, and the one that changes is pressed for the modem that the panel shows.
LEMMA PressKeeps ==
  ASSUME PanelInv, NEW ws \in SUBSET PanelWidgets, widgets' \in Panels,
         \A k \in PanelWidgets \ ws :
            /\ k = "mode" => widgets'.mode = widgets.mode
            /\ k = "mute" => widgets'.mute = widgets.mute
            /\ k = "delta" => widgets'.delta = widgets.delta
            /\ k = "quality" => widgets'.quality = widgets.quality
            /\ k = "gain" => widgets'.gain = widgets.gain
            /\ k = "squelch" => widgets'.squelch = widgets.squelch,
         (ws = {} /\ meantFor' = meantFor) \/ (\E k \in PanelWidgets : ws = {k} /\ Press(k)),
         effects' \in Effects, PanelEvent \/ MinorEvent, UNCHANGED <<slots, focus, recall, frame>>
  PROVE  Steps
<1>1. panelEvents' \in 0 .. MaxPanelEvents /\ panelEvents' # panelEvents
  BY InvSays, EventsAreCounted
<1>2. LiveSlots' = LiveSlots
  BY DEF LiveSlots
<1>3. /\ focus.current \in LiveSlots \cup {Vacant} /\ frame.loaded \in PanelSlots
      /\ meantFor \in Meanings(LiveSlots)
  BY InvSays DEF Foci
<1>4. /\ meantFor' \in Meanings(LiveSlots)
      /\ \A k \in ws : meantFor'[k].shown = frame.loaded
      /\ \A k \in PanelWidgets \ ws : meantFor'[k] = meantFor[k]
  BY <1>3 DEF Press, Meanings
<1>5. /\ \A k \in ws : MayReach(k)'
      /\ \A k \in PanelWidgets \ ws : MayReach(k) => MayReach(k)'
  BY <1>4 DEF MayReach
<1>6. PanelTypes'
  BY <1>1, <1>2, <1>4 DEF PanelInv, PanelTypes
<1>7. WidgetsAreTold'
  <2>1. /\ \/ widgets'.mode = NoMode \/ MayReach("mode")'
           \/ frame.loaded \in LiveSlots /\ widgets'.mode = slots[frame.loaded].want
        /\ widgets'.mute.pressed => MayReach("mute")'
        /\ widgets'.delta.pressed => MayReach("delta")'
        /\ widgets'.quality.pressed => MayReach("quality")'
        /\ Moved(widgets'.gain) => MayReach("gain")'
        /\ Moved(widgets'.squelch) => MayReach("squelch")'
    BY <1>5 DEF PanelInv, WidgetsAreTold, PanelWidgets
  <2>2. QED  BY <1>2, <2>1 DEF WidgetsAreTold, Moved
<1>8. QED  BY <1>1, <1>6, <1>7 DEF Steps, PanelInv

\* A button or a meter moves.
LEMMA WidgetMoves ==
  ASSUME PanelInv, NEW k, NEW t,
         \/ k \in {"mute", "delta", "solo", "quality", "peak", "history"} /\ t \in Buttons
         \/ k \in {"gain", "squelch", "average", "speed"} /\ t \in Meters,
         widgets' = [widgets EXCEPT ![k] = t],
         k \in PanelWidgets => Press(k), k \notin PanelWidgets => meantFor' = meantFor,
         PanelEvent \/ MinorEvent, UNCHANGED <<slots, focus, recall, frame, effects>>
  PROVE  Steps
<1>1. widgets \in Panels /\ effects' \in Effects
  BY InvSays
<1>2. widgets' \in Panels
  BY <1>1 DEF Panels
<1>3. /\ "mode" # k => widgets'.mode = widgets.mode
      /\ "mute" # k => widgets'.mute = widgets.mute
      /\ "delta" # k => widgets'.delta = widgets.delta
      /\ "quality" # k => widgets'.quality = widgets.quality
      /\ "gain" # k => widgets'.gain = widgets.gain
      /\ "squelch" # k => widgets'.squelch = widgets.squelch
  BY <1>1 DEF Panels
<1>4. CASE k \in PanelWidgets
  <2>1. {k} \in SUBSET PanelWidgets
    BY <1>4
  <2>2. \A x \in PanelWidgets \ {k} : x # k
    OBVIOUS
  <2>3. \E x \in PanelWidgets : {k} = {x} /\ Press(x)
    BY <1>4
  <2> HIDE DEF Press, PanelWidgets
  <2>4. QED  BY <1>1, <1>2, <1>3, <2>1, <2>2, <2>3, PressKeeps
<1>5. CASE k \notin PanelWidgets
  <2>1. {} \in SUBSET PanelWidgets
    OBVIOUS
  <2>2. \A x \in PanelWidgets \ {} : x # k
    BY <1>5
  <2>3. QED  BY <1>1, <1>2, <1>3, <1>5, <2>1, <2>2, PressKeeps
<1>6. QED  BY <1>4, <1>5

LEMMA ButtonKeeps ==
  ASSUME PanelInv, NEW b \in {"mute", "delta", "solo", "quality", "peak", "history"},
         NEW over \in BOOLEAN, ReleaseButton(b, over)
  PROVE  Steps
<1> DEFINE t == Toggled(widgets[b], over)
<1>1. widgets' = [widgets EXCEPT ![b] = t]
  BY DEF ReleaseButton
<1>2. /\ b \in PanelWidgets => Press(b)
      /\ b \notin PanelWidgets => meantFor' = meantFor
  BY DEF ReleaseButton
<1>3. PanelEvent \/ MinorEvent
  BY DEF ReleaseButton
<1>4. UNCHANGED <<slots, focus, recall, frame, effects>>
  BY DEF ReleaseButton
<1>5. widgets[b] \in Buttons
  <2>1. widgets \in Panels
    BY InvSays
  <2>2. QED  BY <2>1 DEF Panels
<1>6. t \in Buttons
  BY <1>5 DEF Toggled, Buttons
<1> HIDE DEF t
<1>7. QED  BY <1>1, <1>2, <1>3, <1>4, <1>6, WidgetMoves

LEMMA MeterKeeps ==
  ASSUME PanelInv, NEW k \in {"gain", "squelch", "average", "speed"}, NEW value \in Int,
         MoveMeter(k, value)
  PROVE  Steps
<1> DEFINE t == [widgets[k] EXCEPT !.input = value]
<1>1. widgets' = [widgets EXCEPT ![k] = t]
  BY DEF MoveMeter
<1>2. /\ k \in PanelWidgets => Press(k)
      /\ k \notin PanelWidgets => meantFor' = meantFor
  BY DEF MoveMeter
<1>3. PanelEvent \/ MinorEvent
  BY DEF MoveMeter
<1>4. UNCHANGED <<slots, focus, recall, frame, effects>>
  BY DEF MoveMeter
<1>5. widgets[k] \in Meters
  <2>1. widgets \in Panels
    BY InvSays
  <2>2. QED  BY <2>1 DEF Panels
<1>6. t \in Meters
  BY <1>5 DEF Meters
<1> HIDE DEF t
<1>7. QED  BY <1>1, <1>2, <1>3, <1>4, <1>6, WidgetMoves

LEMMA ModeKeeps ==
  ASSUME PanelInv, NEW mode \in PanelModes \cup {NoMode}, PanelEvent,
         widgets' = [widgets EXCEPT !.mode = mode],
         Press("mode") \/ (mode = widgets.mode /\ UNCHANGED meantFor),
         UNCHANGED <<slots, focus, recall, frame, effects>>
  PROVE  Steps
<1>1. widgets \in Panels /\ effects' \in Effects
  BY InvSays
<1>2. /\ widgets' \in Panels /\ widgets'.mode = mode /\ widgets'.mute = widgets.mute
      /\ widgets'.delta = widgets.delta /\ widgets'.quality = widgets.quality
      /\ widgets'.gain = widgets.gain /\ widgets'.squelch = widgets.squelch
  BY <1>1 DEF Panels
<1>3. CASE Press("mode")
  <2>1. {"mode"} \in SUBSET PanelWidgets /\ "mode" \in PanelWidgets
    BY DEF PanelWidgets
  <2>2. QED  BY <1>1, <1>2, <1>3, <2>1, PressKeeps
<1>4. CASE mode = widgets.mode /\ UNCHANGED meantFor
  <2>1. {} \in SUBSET PanelWidgets
    OBVIOUS
  <2>2. QED  BY <1>1, <1>2, <1>4, <2>1, PressKeeps
<1>5. QED  BY <1>3, <1>4

LEMMA PressPeakKeeps ==
  ASSUME PanelInv, PressPeak
  PROVE  Steps
<1>1. /\ effects' = [effects EXCEPT !.peak = ~@, !.demodPeak = ~effects.peak]
      /\ widgets' = [widgets EXCEPT !.peak = Button(~effects.peak)]
      /\ MinorEvent /\ UNCHANGED <<slots, focus, recall, frame, meantFor>>
  BY DEF PressPeak
<1>2. widgets \in Panels /\ effects \in Effects
  BY InvSays
<1>3. Button(~effects.peak) \in Buttons /\ effects' \in Effects
  BY <1>1, <1>2 DEF Effects, Button, Buttons
<1>4. /\ widgets' \in Panels /\ widgets'.mode = widgets.mode /\ widgets'.mute = widgets.mute
      /\ widgets'.delta = widgets.delta /\ widgets'.quality = widgets.quality
      /\ widgets'.gain = widgets.gain /\ widgets'.squelch = widgets.squelch
  BY <1>1, <1>2, <1>3 DEF Panels
<1>5. {} \in SUBSET PanelWidgets
  OBVIOUS
<1>6. QED  BY <1>1, <1>3, <1>4, <1>5, PressKeeps

\* What only the pointer, the view or solo mode is about.
LEMMA SightsKeep ==
  ASSUME PanelInv,
         \/ PressSolo \/ ZoomIn \/ TuneAway \/ \E pane : SwitchPane(pane)
         \/ \E s \in PanelSlots \cup {Vacant} : PointAt(s)
  PROVE  Steps
<1>1. /\ UNCHANGED <<slots, widgets, meantFor, frame, recall>> /\ (PanelEvent \/ MinorEvent)
      /\ effects' = effects \/ effects' = [effects EXCEPT !.solo = ~@]
      /\ focus' = focus \/ \E s \in LiveSlots \cup {Vacant} : focus' = [focus EXCEPT !.context = s]
  <2>1. CASE PressSolo
    BY <2>1 DEF PressSolo
  <2>2. CASE ZoomIn
    BY <2>2 DEF ZoomIn
  <2>3. CASE TuneAway
    BY <2>3 DEF TuneAway
  <2>4. CASE \E pane : SwitchPane(pane)
    BY <2>4 DEF SwitchPane
  <2>5. CASE \E s \in PanelSlots \cup {Vacant} : PointAt(s)
    BY <2>5 DEF PointAt, PointTo, IsActive, LiveSlots
  <2>6. QED  BY <2>1, <2>2, <2>3, <2>4, <2>5
<1>2. panelEvents' \in 0 .. MaxPanelEvents
  BY <1>1, InvSays, EventsAreCounted
<1>3. effects' \in Effects
  BY <1>1, InvSays DEF Effects
<1>4. focus' \in Foci(LiveSlots)
  BY <1>1, InvSays DEF Foci
<1>5. recall' \in Recalls
  BY <1>1, InvSays
<1>6. QED  BY <1>1, <1>2, <1>3, <1>4, <1>5, NoModemChanges

\* A finite set that is not empty has a member with the greatest place.
LEMMA HighestThereIs ==
  ASSUME NEW S, IsFiniteSet(S), S # {}, NEW f \in [S -> Int]
  PROVE  \E t \in S : \A u \in S : f[t] >= f[u]
<1> DEFINE Flat(T) == \A t \in T : \E u \in T : ~(f[t] >= f[u])
           sizes == {n \in Nat : \E T \in SUBSET S : T # {} /\ Cardinality(T) = n /\ Flat(T)}
<1>1. SUFFICES ASSUME Flat(S) PROVE FALSE
  OBVIOUS
<1>2. Cardinality(S) \in sizes
  BY <1>1, FS_CardinalityType
<1>3. PICK n \in sizes : \A m \in sizes : ~(<<m, n>> \in OpToRel(<, Nat))
  <2>1. sizes \subseteq Nat /\ sizes # {}
    BY <1>2
  <2> HIDE DEF sizes
  <2>2. QED  BY <2>1, NatLessThanWellFounded, WFMin
<1>4. PICK T \in SUBSET S : T # {} /\ Cardinality(T) = n /\ Flat(T)
  BY <1>3
<1>5. PICK x \in T : TRUE
  BY <1>4
<1> DEFINE R == T \ {x}
<1>6. IsFiniteSet(T) /\ IsFiniteSet(R) /\ Cardinality(R) = n - 1 /\ n \in Nat
  BY <1>3, <1>4, <1>5, FS_Subset, FS_RemoveElement, FS_CardinalityType
<1>7. n - 1 \in Nat
  BY <1>6, FS_CardinalityType
<1>8. R # {}
  BY <1>4, <1>5
<1>9. ~Flat(R)
  <2>1. n - 1 \notin sizes
    <3>1. <<n - 1, n>> \in OpToRel(<, Nat)
      BY <1>6, <1>7 DEF OpToRel
    <3> HIDE DEF sizes
    <3>2. QED  BY <1>3, <3>1
  <2>2. R \in SUBSET S
    BY <1>4
  <2>3. QED  BY <1>6, <1>7, <1>8, <2>1, <2>2
<1>10. PICK y \in R : \A u \in R : f[y] >= f[u]
  BY <1>9
<1>11. f[x] \in Int /\ f[y] \in Int /\ \A u \in T : f[u] \in Int
  BY <1>4, <1>5, <1>10
<1>12. CASE f[x] >= f[y]
  BY <1>4, <1>5, <1>10, <1>11, <1>12
<1>13. CASE ~(f[x] >= f[y])
  BY <1>4, <1>5, <1>10, <1>11, <1>13
<1>14. QED  BY <1>12, <1>13

\* TAB finds an active modem, whichever way round.
LEMMA NeighbourIsLive ==
  ASSUME NEW s \in PanelSlots, IsActive(s), NEW back \in BOOLEAN
  PROVE  Neighbour(s, back) \in LiveSlots
<1> DEFINE others == {t \in PanelSlots : IsActive(t)}
           before == {t \in others : PanelPlaces[t] < PanelPlaces[s]}
           after == {t \in others : PanelPlaces[t] > PanelPlaces[s]}
           Lowest(ts) == CHOOSE t \in ts : \A u \in ts : PanelPlaces[t] <= PanelPlaces[u]
           Highest(ts) == CHOOSE t \in ts : \A u \in ts : PanelPlaces[t] >= PanelPlaces[u]
<1>1. \A t \in PanelSlots : PanelPlaces[t] \in Nat
  BY PanelAssumption
<1>2. \A ts \in SUBSET others : ts # {} => Lowest(ts) \in ts /\ Highest(ts) \in ts
  <2>1. SUFFICES ASSUME NEW ts \in SUBSET others, ts # {}
                 PROVE  Lowest(ts) \in ts /\ Highest(ts) \in ts
    OBVIOUS
  <2>2. IsFiniteSet(ts) /\ \A t \in ts : PanelPlaces[t] \in Nat
    BY <1>1, PanelAssumption, FS_Subset
  <2>3. \E t \in ts : \A u \in ts : PanelPlaces[t] >= PanelPlaces[u]
    <3> DEFINE f == [t \in ts |-> PanelPlaces[t]]
    <3>1. f \in [ts -> Int]
      BY <2>2
    <3>2. \E t \in ts : \A u \in ts : f[t] >= f[u]
      BY <2>1, <2>2, <3>1, HighestThereIs
    <3>3. QED  BY <3>2
  <2>4. \E t \in ts : \A u \in ts : PanelPlaces[t] <= PanelPlaces[u]
    <3> DEFINE f == [t \in ts |-> -PanelPlaces[t]]
    <3>1. f \in [ts -> Int]
      BY <2>2
    <3>2. \E t \in ts : \A u \in ts : f[t] >= f[u]
      BY <2>1, <2>2, <3>1, HighestThereIs
    <3>3. QED  BY <2>2, <3>2
  <2>5. QED  BY <2>3, <2>4
<1>3. s \in others /\ before \subseteq others /\ after \subseteq others
  OBVIOUS
<1>4. others \subseteq LiveSlots
  BY DEF IsActive, LiveSlots
<1>5. Neighbour(s, back) = IF back THEN Highest(IF before = {} THEN others ELSE before)
                           ELSE Lowest(IF after = {} THEN others ELSE after)
  BY DEF Neighbour
<1> HIDE DEF others, before, after, Lowest, Highest
<1>6. QED  BY <1>2, <1>3, <1>4, <1>5

\* What brings another modem to the fore.
LEMMA FocusKeeps ==
  ASSUME PanelInv,
         \/ \E s \in PanelSlots : ClickModem(s)
         \/ DragZoomed \/ DropZoomed \/ \E back \in BOOLEAN : GoRound(back)
  PROVE  Steps
<1>1. UNCHANGED <<slots, widgets, meantFor, frame, effects>>
  BY DEF ClickModem, DragZoomed, DropZoomed, GoRound
<1>2. panelEvents' \in 0 .. MaxPanelEvents
  <2>1. PanelEvent \/ MinorEvent \/ panelEvents' = panelEvents
    BY DEF ClickModem, DragZoomed, DropZoomed, GoRound
  <2>2. QED  BY <2>1, InvSays, EventsAreCounted
<1>3. focus' \in Foci(LiveSlots) /\ recall' \in Recalls
  <2>1. CASE DropZoomed
    <3>1. UpdatedFocus(focus) \in Foci(LiveSlots)
      BY InvSays, FocusIsUpdated
    <3>2. focus' = UpdatedFocus(focus) /\ recall' = Remembered(focus'.current)
      BY <2>1 DEF DropZoomed
    <3>3. focus'.current \in LiveSlots \cup {Vacant}
      BY <3>1, <3>2 DEF Foci
    <3>4. QED  BY <3>1, <3>2, <3>3, InvSays, RecallIsRemembered
  <2>2. CASE ~DropZoomed
    <3>1. \E s \in LiveSlots : BringForward(s)
      <4>1. CASE \E s \in PanelSlots : ClickModem(s)
        BY <4>1 DEF ClickModem, LiveSlots
      <4>2. CASE DragZoomed
        <5>1. focus.context \in LiveSlots \cup {Vacant}
          BY InvSays DEF Foci
        <5>2. QED  BY <4>2, <5>1 DEF DragZoomed
      <4>3. CASE \E back \in BOOLEAN : GoRound(back)
        <5>1. PICK back \in BOOLEAN : GoRound(back)
          BY <4>3
        <5>2. focus.current \in PanelSlots /\ IsActive(focus.current)
          BY <5>1, InvSays DEF Foci, GoRound, IsActive
        <5>3. Neighbour(focus.current, back) \in LiveSlots
          BY <5>2, NeighbourIsLive
        <5>4. QED  BY <5>1, <5>3 DEF GoRound
      <4>4. QED  BY <2>2, <4>1, <4>2, <4>3
    <3>2. QED  BY <3>1, InvSays, ForwardIsSet
  <2>3. QED  BY <2>1, <2>2
<1>4. effects' \in Effects
  BY <1>1, InvSays
<1>5. QED  BY <1>1, <1>2, <1>3, <1>4, NoModemChanges

\* V, M, R and a click in the waterfall change one modem.
LEMMA OneKeyKeeps ==
  ASSUME PanelInv, (\E key : ToggleLockOrMute(key)) \/ PressRecord \/ TrackModem
  PROVE  Steps
<1>1. /\ \A d : IsModem(d) => d.delta \in BOOLEAN /\ d.muted \in BOOLEAN /\ d.recording \in BOOLEAN
      /\ ContextModem \in LiveSlots \cup {Vacant} /\ focus \in Foci(LiveSlots)
      /\ Addressed \in LiveSlots \cup {Vacant} /\ recall \in Recalls
  <2>1. ContextModem \in LiveSlots \cup {Vacant} /\ focus \in Foci(LiveSlots)
    BY InvSays, ContextIsLive
  <2>2. Addressed \in LiveSlots \cup {Vacant}
    BY <2>1 DEF Addressed, Foci
  <2>3. \A d : IsModem(d) => d.delta \in BOOLEAN /\ d.muted \in BOOLEAN /\ d.recording \in BOOLEAN
    BY DEF IsModem, PanelModems
  <2>4. QED  BY <2>1, <2>2, <2>3, InvSays
<1>2. PICK s \in LiveSlots : \E d : IsModem(d) /\ Becomes(s, d) /\ d.want = slots[s].want
  <2>1. CASE \E key : ToggleLockOrMute(key)
    <3>1. PICK key : ToggleLockOrMute(key)
      BY <2>1
    <3> DEFINE s == Addressed
               d == slots[s]
    <3>2. s \in LiveSlots /\ IsModem(d)
      BY <1>1, <3>1, InvSays DEF ToggleLockOrMute
    <3>3. /\ IsModem([d EXCEPT !.delta = ~d.delta]) /\ IsModem([d EXCEPT !.muted = ~d.muted])
          /\ [d EXCEPT !.delta = ~d.delta].want = d.want
          /\ [d EXCEPT !.muted = ~d.muted].want = d.want
      BY <3>2 DEF IsModem, PanelModems, TypeOf
    <3>4. \/ Becomes(s, [d EXCEPT !.delta = ~d.delta])
          \/ Becomes(s, [d EXCEPT !.muted = ~d.muted])
      <4>1. \/ Becomes(s, [d EXCEPT !.delta = ~@])
            \/ Becomes(s, [d EXCEPT !.muted = ~@])
        BY <3>1 DEF ToggleLockOrMute
      <4>2. QED  BY <4>1
    <3>5. QED  BY <3>2, <3>3, <3>4
  <2>2. CASE PressRecord
    <3> DEFINE s == ContextModem
               d == slots[s]
    <3>1. s \in LiveSlots /\ IsModem(d)
      BY <1>1, <2>2, InvSays DEF PressRecord
    <3>2. /\ IsModem([d EXCEPT !.recording = ~d.recording])
          /\ [d EXCEPT !.recording = ~d.recording].want = d.want
      BY <3>1 DEF IsModem, PanelModems, TypeOf
    <3>3. Becomes(s, [d EXCEPT !.recording = ~d.recording])
      BY <2>2 DEF PressRecord
    <3>4. QED  BY <3>1, <3>2, <3>3
  <2>3. CASE TrackModem
    <3> DEFINE s == ContextModem
               d == slots[s]
    <3>1. s \in LiveSlots /\ IsModem(d)
      BY <1>1, <2>3, InvSays DEF TrackModem
    <3>2. IsModem([d EXCEPT !.tracking = TRUE]) /\ [d EXCEPT !.tracking = TRUE].want = d.want
      BY <3>1 DEF IsModem, PanelModems, TypeOf
    <3>3. Becomes(s, [d EXCEPT !.tracking = TRUE])
      BY <2>3 DEF TrackModem
    <3>4. QED  BY <3>1, <3>2, <3>3
  <2>4. QED  BY <2>1, <2>2, <2>3
<1>3. UNCHANGED <<widgets, frame, effects, meantFor>> /\ (PanelEvent \/ MinorEvent)
  BY DEF ToggleLockOrMute, PressRecord, TrackModem
<1>4. panelEvents' \in 0 .. MaxPanelEvents /\ panelEvents' # panelEvents
  BY <1>3, InvSays, EventsAreCounted
<1>5. focus' \in Foci(LiveSlots) /\ recall' \in Recalls
  <2>1. CASE \E key : ToggleLockOrMute(key)
    <3>1. PICK key : ToggleLockOrMute(key)
      BY <2>1
    <3>2. focus' \in Foci(LiveSlots)
      BY <1>1, <3>1 DEF ToggleLockOrMute, Foci
    <3>3. slots[Addressed].muted \in BOOLEAN
      BY <1>1, <3>1, InvSays DEF ToggleLockOrMute
    <3>4. \/ recall' = recall \/ recall' = [recall EXCEPT !.muted = ~slots[Addressed].muted]
      BY <3>1 DEF ToggleLockOrMute
    <3>5. recall' \in Recalls
      BY <1>1, <3>3, <3>4 DEF Recalls
    <3>6. QED  BY <3>2, <3>5
  <2>2. CASE PressRecord
    BY <1>1, <2>2 DEF PressRecord, Foci
  <2>3. CASE TrackModem
    <3> DEFINE f == UpdatedFocus([focus EXCEPT !.current = ContextModem, !.context = ContextModem])
    <3>1. f \in Foci(LiveSlots)
      <4>1. [focus EXCEPT !.current = ContextModem, !.context = ContextModem] \in Foci(LiveSlots)
        BY <1>1 DEF Foci
      <4>2. QED  BY <4>1, FocusIsUpdated
    <3>2. focus' = [f EXCEPT !.context = ContextModem] /\ recall' = Remembered(f.current)
      BY <2>3 DEF TrackModem
    <3> HIDE DEF f
    <3>3. f.current \in LiveSlots \cup {Vacant}
      BY <3>1 DEF Foci
    <3>4. focus' \in Foci(LiveSlots)
      BY <1>1, <3>1, <3>2 DEF Foci
    <3>5. QED  BY <3>2, <3>3, <3>4, InvSays, RecallIsRemembered
  <2>4. QED  BY <2>1, <2>2, <2>3
<1>6. frame' \in PanelFrames
  BY <1>3, InvSays
<1>7. PICK d : IsModem(d) /\ Becomes(s, d) /\ d.want = slots[s].want
  BY <1>2
<1>8. QED  BY <1>3, <1>4, <1>5, <1>6, <1>7, OneModemChanges

\* SHIFT and R: every modem that lives stops or starts, and nothing else of it changes.
LEMMA RecordAllKeeps ==
  ASSUME PanelInv, PressRecordAll
  PROVE  Steps
<1>1. PICK start \in BOOLEAN :
         slots' = [s \in PanelSlots |->
                      IF s \in LiveSlots THEN [slots[s] EXCEPT !.recording = start] ELSE NoSlot]
  BY DEF PressRecordAll
<1>2. /\ UNCHANGED <<recall, widgets, frame, effects, meantFor>> /\ MinorEvent
      /\ focus' = [focus EXCEPT !.context = ContextModem]
  BY DEF PressRecordAll
<1>3. \A s \in LiveSlots : /\ IsModem(slots[s]) /\ slots[s].live = TRUE /\ s \in PanelSlots
                           /\ IsModem([slots[s] EXCEPT !.recording = start])
                           /\ [slots[s] EXCEPT !.recording = start].want = slots[s].want
                           /\ [slots[s] EXCEPT !.recording = start].live = TRUE
  <2>1. SUFFICES ASSUME NEW s \in LiveSlots
                 PROVE  /\ IsModem(slots[s]) /\ slots[s].live = TRUE /\ s \in PanelSlots
                        /\ IsModem([slots[s] EXCEPT !.recording = start])
                        /\ [slots[s] EXCEPT !.recording = start].want = slots[s].want
                        /\ [slots[s] EXCEPT !.recording = start].live = TRUE
    OBVIOUS
  <2>2. IsModem(slots[s]) /\ s \in PanelSlots
    BY InvSays
  <2>3. IsModem([slots[s] EXCEPT !.recording = start])
    BY <2>2, FlagsAreSet, 0 \in Int
  <2>4. /\ slots[s].live = TRUE
        /\ [slots[s] EXCEPT !.recording = start].want = slots[s].want
        /\ [slots[s] EXCEPT !.recording = start].live = TRUE
    BY <2>2 DEF IsModem, PanelModems
  <2>5. QED  BY <2>2, <2>3, <2>4
<1>4. /\ \A s \in LiveSlots : slots'[s] = [slots[s] EXCEPT !.recording = start]
      /\ \A s \in PanelSlots \ LiveSlots : slots'[s] = NoSlot
  BY <1>1, <1>3
<1>5. LiveSlots' = LiveSlots
  <2>1. NoSlot.live = FALSE
    BY DEF NoSlot
  <2>2. \A s \in PanelSlots : s \in LiveSlots <=> slots'[s].live
    BY <1>3, <1>4, <2>1
  <2>3. LiveSlots \subseteq PanelSlots
    BY DEF LiveSlots
  <2>4. LiveSlots' = {s \in PanelSlots : slots'[s].live}
    BY DEF LiveSlots
  <2>5. QED  BY <2>2, <2>3, <2>4
<1>6. PanelSlotsHold(slots')
  <2>1. slots' \in [PanelSlots -> PanelModems \cup {NoSlot}]
    BY <1>1, <1>3 DEF IsModem
  <2>2. \A s \in PanelSlots : slots'[s].live => IsModem(slots'[s])
    <3>1. NoSlot.live = FALSE
      BY DEF NoSlot
    <3>2. QED  BY <1>3, <1>4, <3>1
  <2>3. QED  BY <2>1, <2>2 DEF PanelSlotsHold
<1>7. focus' \in Foci(LiveSlots)
  <2>1. focus \in Foci(LiveSlots)
    BY InvSays
  <2>2. QED  BY <1>2, <2>1, ContextIsLive DEF Foci
<1>8. panelEvents' \in 0 .. MaxPanelEvents /\ panelEvents' # panelEvents
  BY <1>2, InvSays, EventsAreCounted
<1>9. PanelTypes'
  BY <1>2, <1>5, <1>6, <1>7, <1>8 DEF PanelInv, PanelTypes
<1>10. WidgetsAreTold'
  <2>1. frame.loaded \in LiveSlots => /\ frame.loaded \in LiveSlots'
                                      /\ slots'[frame.loaded].want = slots[frame.loaded].want
    BY <1>3, <1>4, <1>5
  <2>2. QED  BY <1>2, <2>1, StillTold DEF PanelInv
<1>11. QED  BY <1>8, <1>9, <1>10 DEF Steps, PanelInv

\* D: the mode that the panel shows of the modem is now that of none.
LEMMA DeleteKeeps ==
  ASSUME PanelInv, DeleteModem
  PROVE  Steps
<1> DEFINE s == ContextModem
<1>1. /\ Becomes(s, NoSlot) /\ UNCHANGED <<recall, widgets, effects, frame>> /\ PanelEvent
      /\ s # Vacant
      /\ focus' = [current |-> IF focus.current = s THEN Vacant ELSE focus.current,
                   context |-> Vacant]
      /\ meantFor' = [w \in PanelWidgets |->
                         [meantFor[w] EXCEPT
                            !.modem = IF @ = s THEN Vacant ELSE @,
                            !.outdated = IF w = "mode" /\ s = frame.loaded THEN s ELSE @]]
  BY DEF DeleteModem
<1>2. s \in LiveSlots /\ focus \in Foci(LiveSlots) /\ meantFor \in Meanings(LiveSlots)
  BY <1>1, InvSays, ContextIsLive
<1> HIDE DEF s
<1>3. /\ LiveSlots' = LiveSlots \ {s} /\ PanelSlotsHold(slots')
      /\ \A t \in PanelSlots : t # s => slots'[t] = slots[t]
  <2>1. s \in PanelSlots /\ PanelSlotsHold(slots)
    BY <1>2, InvSays
  <2>2. slots' = [slots EXCEPT ![s] = NoSlot] /\ NoSlot.live = FALSE
    BY <1>1 DEF Becomes, NoSlot
  <2>3. QED  BY <2>1, <2>2 DEF PanelSlotsHold, LiveSlots
<1>4. panelEvents' \in 0 .. MaxPanelEvents /\ panelEvents' # panelEvents
  BY <1>1, InvSays, EventsAreCounted
<1>5. focus' \in Foci(LiveSlots')
  BY <1>1, <1>2, <1>3 DEF Foci
<1>6. /\ meantFor' \in Meanings(LiveSlots')
      /\ \A k \in PanelWidgets : meantFor'[k].shown = meantFor[k].shown
      /\ \A k \in PanelWidgets \ {"mode"} : meantFor'[k].outdated = meantFor[k].outdated
      /\ s # frame.loaded => meantFor'["mode"].outdated = meantFor["mode"].outdated
      /\ s = frame.loaded => meantFor'["mode"].outdated = s
  <2> DEFINE Told(k) == [meantFor[k] EXCEPT
                            !.modem = IF @ = s THEN Vacant ELSE @,
                            !.outdated = IF k = "mode" /\ s = frame.loaded THEN s ELSE @]
  <2>1. s \in PanelSlots /\ "mode" \in PanelWidgets
    BY <1>2, InvSays DEF PanelWidgets
  <2>2. \A k \in PanelWidgets :
           /\ Told(k) \in [modem : LiveSlots' \cup {Vacant}, shown : PanelSlots,
                           outdated : PanelSlots \cup {Vacant}]
           /\ Told(k).shown = meantFor[k].shown
           /\ Told(k).outdated = IF k = "mode" /\ s = frame.loaded THEN s
                                 ELSE meantFor[k].outdated
    BY <1>2, <1>3, <2>1 DEF Meanings
  <2>3. meantFor' = [k \in PanelWidgets |-> Told(k)]
    BY <1>1
  <2> HIDE DEF Told
  <2>4. QED  BY <2>1, <2>2, <2>3 DEF Meanings
<1>7. PanelTypes'
  BY <1>1, <1>3, <1>4, <1>5, <1>6 DEF PanelInv, PanelTypes
<1>8. WidgetsAreTold'
  <2>1. /\ \A k \in {"mute", "delta", "quality", "gain", "squelch"} : MayReach(k) => MayReach(k)'
        /\ s # frame.loaded => (MayReach("mode") => MayReach("mode")')
        /\ s = frame.loaded => MayReach("mode")'
    BY <1>1, <1>6 DEF MayReach, PanelWidgets
  <2>2. frame.loaded \in LiveSlots /\ s # frame.loaded =>
           frame.loaded \in LiveSlots' /\ slots'[frame.loaded] = slots[frame.loaded]
    BY <1>3 DEF LiveSlots
  <2>3. QED  BY <1>1, <2>1, <2>2 DEF PanelInv, WidgetsAreTold, Moved
<1>9. QED  BY <1>4, <1>7, <1>8 DEF Steps, PanelInv

LEMMA NewModemKeeps ==
  ASSUME PanelInv, NEW s \in PanelSlots, AddModem(s) \/ LoadModem(s, "AM")
  PROVE  Steps
<1>1. PanelEvent /\ ~slots[s].live /\ UNCHANGED <<recall, widgets, frame, effects, meantFor>>
  BY DEF AddModem, LoadModem
<1>2. panelEvents' \in 0 .. MaxPanelEvents /\ panelEvents' # panelEvents
  BY <1>1, InvSays, EventsAreCounted
<1>3. CASE AddModem(s)
  <2>1. /\ slots' = [slots EXCEPT ![s] = Born(recall.type, recall)]
        /\ focus' = [current |-> s, context |-> s]
    BY <1>3 DEF AddModem
  <2>2. recall \in Recalls /\ recall.type \in PanelModes
    BY InvSays DEF Recalls
  <2>3. focus' \in Foci(LiveSlots \cup {s})
    BY <2>1 DEF Foci
  <2>4. QED  BY <1>1, <1>2, <2>1, <2>2, <2>3, ModemIsBorn
<1>4. CASE LoadModem(s, "AM")
  <2> DEFINE r == [band |-> DefaultBand["AM"], muted |-> TRUE, delta |-> TRUE,
                   quality |-> FALSE, gain |-> 5, squelch |-> 3]
  <2>1. slots' = [slots EXCEPT ![s] = Born("AM", r)] /\ focus' = focus
    BY <1>4 DEF LoadModem
  <2>2. /\ "AM" \in PanelModes
        /\ r \in [band : Nat, muted : BOOLEAN, delta : BOOLEAN, quality : BOOLEAN,
                  gain : Int, squelch : Int]
    BY ModesThereAre
  <2>3. focus' \in Foci(LiveSlots \cup {s})
    BY <2>1, InvSays DEF Foci
  <2> HIDE DEF r
  <2>4. QED  BY <1>1, <1>2, <2>1, <2>2, <2>3, ModemIsBorn
<1>5. QED  BY <1>3, <1>4

LEMMA ModeKeyKeeps ==
  ASSUME PanelInv,
         (\E key : PressModeKey(key)) \/ (\E mode \in PanelPicks \cup {NoMode} : PickMode(mode))
  PROVE  Steps
<1>1. CASE \E mode \in PanelPicks \cup {NoMode} : PickMode(mode)
  <2>1. PICK mode \in PanelPicks \cup {NoMode} : PickMode(mode)
    BY <1>1
  <2>2. mode \in PanelModes \cup {NoMode}
    BY PanelAssumption
  <2>3. QED  BY <2>1, <2>2, ModeKeeps DEF PickMode
<1>2. CASE \E key : PressModeKey(key)
  <2>1. PICK key : PressModeKey(key)
    BY <1>2
  <2>2. widgets.mode \in PanelModes \cup {NoMode}
    BY InvSays DEF Panels
  <2>3. KeyMode(key) \in PanelModes \cup {NoMode}
    BY <2>2, ModesThereAre DEF KeyMode
  <2>4. QED  BY <2>1, <2>3, ModeKeeps DEF PressModeKey
<1>3. QED  BY <1>1, <1>2

-----------------------------------------------------------------------------
(* ModemPanel: the theorems.                                               *)

LEMMA PanelStarts ==
  ASSUME ModemPanelInit
  PROVE  PanelInv
<1> DEFINE first == CHOOSE s \in PanelSlots : TRUE
           d == slots[first]
<1>1. first \in PanelSlots
  BY PanelAssumption
<1>2. \A m \in PanelPicks : /\ IsModem(Running(m)) /\ Running(m).want = m
                            /\ Running(m).type = m /\ m \in PanelModes
                            /\ Running(m).live = TRUE /\ TypeOf(Running(m)) = m
  <2>1. SUFFICES ASSUME NEW m \in PanelPicks
                 PROVE  /\ IsModem(Running(m)) /\ Running(m).want = m
                        /\ Running(m).type = m /\ m \in PanelModes
                        /\ Running(m).live = TRUE /\ TypeOf(Running(m)) = m
    OBVIOUS
  <2>2. m \in PanelModes /\ DefaultBand[m] \in Nat
    BY PanelAssumption, ModesThereAre
  <2>3. << >> \in Seq([type : PanelModes, makes : BOOLEAN])
    BY EmptySeq
  <2> DEFINE r == [band |-> DefaultBand[m], muted |-> FALSE, delta |-> FALSE,
                   quality |-> TRUE, gain |-> 10, squelch |-> 1]
             n == Born(m, r)
  <2>4. n \in PanelModems /\ n.want = m /\ n.live = TRUE
    BY <2>2, <2>3 DEF Born, PanelModems
  <2>5. Running(m) = [n EXCEPT !.type = m, !.changed = FALSE, !.ready = TRUE, !.rebuild = FALSE]
    BY DEF Running
  <2> HIDE DEF n
  <2>6. /\ Running(m) \in PanelModems /\ Running(m).want = m /\ Running(m).type = m
        /\ Running(m).live = TRUE /\ Running(m).changed = FALSE
    <3>1. Running(m) \in PanelModems
      BY <2>2, <2>4, <2>5 DEF PanelModems
    <3>2. Running(m).want = n.want /\ Running(m).live = n.live
      BY <2>4, <2>5 DEF PanelModems
    <3>3. Running(m).type = m /\ Running(m).changed = FALSE
      BY <2>4, <2>5 DEF PanelModems
    <3>4. QED  BY <2>4, <3>1, <3>2, <3>3
  <2>7. QED  BY <2>2, <2>6, ModesThereAre DEF IsModem, TypeOf
<1>3. PICK full \in {PanelSlots, {first}}, m \in PanelPicks :
         slots = [s \in PanelSlots |-> IF s \in full THEN Running(m) ELSE NoSlot]
  BY DEF ModemPanelInit
<1>4. PanelSlotsHold(slots) /\ d = Running(m) /\ first \in LiveSlots
  <2>1. NoSlot.live = FALSE
    BY DEF NoSlot
  <2>2. first \in full
    BY <1>1, <1>3
  <2>3. \A s \in PanelSlots : slots[s] = Running(m) \/ slots[s] = NoSlot
    BY <1>3
  <2>4. slots \in [PanelSlots -> PanelModems \cup {NoSlot}]
    BY <1>2, <1>3 DEF IsModem
  <2>5. slots[first] = Running(m)
    BY <1>1, <1>3, <2>2
  <2>6. QED  BY <1>1, <1>2, <2>1, <2>3, <2>4, <2>5 DEF PanelSlotsHold, LiveSlots
<1>5. IsModem(d) /\ d.type \in PanelModes /\ d.want = d.type /\ d.band \in Nat /\ d.gain \in Int
      /\ d.squelch \in Int
  <2>1. IsModem(d) /\ d.want = d.type /\ d.type \in PanelModes
    BY <1>2, <1>3, <1>4
  <2> HIDE DEF d
  <2>2. QED  BY <2>1 DEF IsModem, PanelModems
<1>6. /\ focus \in Foci(LiveSlots)
      /\ recall = [type |-> d.type, band |-> d.band, muted |-> FALSE, delta |-> FALSE,
                   quality |-> TRUE, gain |-> d.gain, squelch |-> d.squelch]
      /\ frame = [loaded |-> first, due |-> FALSE, sheet |-> first]
      /\ meantFor = [w \in PanelWidgets |->
                        [modem |-> first, shown |-> first, outdated |-> Vacant]]
      /\ effects = [solo |-> FALSE, peak |-> FALSE, demodPeak |-> FALSE, history |-> FALSE,
                    average |-> 65, lines |-> 25]
      /\ panelEvents = 0
  <2>1. focus \in Foci(LiveSlots)
    BY SMT DEF ModemPanelInit, Foci
  <2>2. recall = [type |-> d.type, band |-> d.band, muted |-> FALSE, delta |-> FALSE,
                  quality |-> TRUE, gain |-> d.gain, squelch |-> d.squelch]
    BY DEF ModemPanelInit
  <2>3. frame = [loaded |-> first, due |-> FALSE, sheet |-> first]
    BY DEF ModemPanelInit
  <2>4. meantFor = [w \in PanelWidgets |->
                      [modem |-> first, shown |-> first, outdated |-> Vacant]]
    BY DEF ModemPanelInit
  <2>5. effects = [solo |-> FALSE, peak |-> FALSE, demodPeak |-> FALSE, history |-> FALSE,
                   average |-> 65, lines |-> 25]
    BY DEF ModemPanelInit
  <2>6. panelEvents = 0
    BY DEF ModemPanelInit
  <2>7. QED  BY <2>1, <2>2, <2>3, <2>4, <2>5, <2>6
<1>7. widgets = [mode |-> d.type, mute |-> Button(FALSE), delta |-> Button(FALSE),
                 solo |-> Button(FALSE), quality |-> Button(TRUE),
                 peak |-> Button(FALSE), history |-> Button(FALSE), gain |-> Meter(d.gain),
                 squelch |-> Meter(d.squelch), average |-> Meter(0), speed |-> Meter(0)]
  BY DEF ModemPanelInit
<1> HIDE DEF d, first
<1>8. /\ focus \in Foci(LiveSlots) /\ recall \in Recalls /\ frame \in PanelFrames
      /\ effects \in Effects /\ panelEvents \in 0 .. MaxPanelEvents
  BY <1>1, <1>5, <1>6, PanelAssumption DEF Foci, Recalls, PanelFrames, Effects
<1>9. meantFor \in Meanings(LiveSlots)
  BY <1>1, <1>4, <1>6 DEF Meanings
<1>10. widgets \in Panels
  <2>1. /\ \A on \in BOOLEAN : Button(on) \in Buttons
        /\ \A n \in Int : Meter(n) \in Meters
    BY DEF Button, Buttons, Meter, Meters
  <2>2. Meter(d.gain) \in Meters /\ Meter(d.squelch) \in Meters /\ Meter(0) \in Meters
    BY <1>5, <2>1
  <2>3. Button(TRUE) \in Buttons /\ Button(FALSE) \in Buttons
    BY <2>1
  <2>4. QED  BY <1>5, <1>7, <2>2, <2>3 DEF Panels
<1>11. WidgetsAreTold
  <2>1. "mode" \in PanelWidgets /\ \A k \in PanelWidgets : MayReach(k)
    BY <1>6 DEF MayReach, PanelWidgets
  <2>2. {"mute", "delta", "quality", "gain", "squelch"} \subseteq PanelWidgets
    BY DEF PanelWidgets
  <2>3. QED  BY <2>1, <2>2 DEF WidgetsAreTold
<1>12. QED  BY <1>4, <1>8, <1>9, <1>10, <1>11 DEF PanelInv, PanelTypes

\* Every step keeps the invariant, and an idle pass changes only what was meant.
LEMMA PanelSteps ==
  ASSUME PanelInv, ModemPanelNext
  PROVE  Steps
<1>1. CASE IdleWithModem
  BY <1>1, PassReaches DEF IdleWithModem, Steps
<1>2. CASE IdleWaiting \/ IdleWithoutModem
  BY <1>2, WaitingKeeps, WithoutModemKeeps
<1>3. CASE \E s \in PanelSlots :
             TakeType(s) \/ AskFilters(s) \/ ForgetKit(s) \/ TakeKit(s) \/ OutOfRange(s) \/ BackInRange(s)
  BY <1>3, ThreadsKeep, RangeKeeps
<1>4. CASE PressKey
  <2>1. \/ \E back \in BOOLEAN : GoRound(back)
        \/ \E key : ToggleLockOrMute(key)
        \/ \E key : PressModeKey(key)
        \/ PressSolo \/ PressPeak \/ PressRecord \/ PressRecordAll \/ DeleteModem
    BY <1>4 DEF PressKey
  <2>2. QED  BY <2>1, FocusKeeps, OneKeyKeeps, ModeKeyKeeps, SightsKeep, PressPeakKeeps,
                RecordAllKeeps, DeleteKeeps
<1>5. CASE UseMouse
  <2>1. CASE \E b \in {"mute", "delta", "solo", "quality", "peak", "history"}, over \in BOOLEAN :
               ReleaseButton(b, over)
    BY <2>1, ButtonKeeps
  <2>2. CASE \E mode \in PanelPicks \cup {NoMode} : PickMode(mode)
    BY <2>2, ModeKeyKeeps
  <2>3. CASE \E k \in {"gain", "squelch", "average", "speed"} : MoveMeter(k, 3)
    BY <2>3, MeterKeeps, 3 \in Int
  <2>4. CASE \E s \in PanelSlots \cup {Vacant} : PointAt(s)
    BY <2>4, SightsKeep
  <2>5. CASE \E s \in PanelSlots : ClickModem(s) \/ AddModem(s) \/ LoadModem(s, "AM")
    BY <2>5, FocusKeeps, NewModemKeeps
  <2>6. CASE DragZoomed \/ DropZoomed \/ ZoomIn \/ TuneAway \/ TrackModem
    BY <2>6, FocusKeeps, SightsKeep, OneKeyKeeps
  <2>7. CASE \E pane \in {"scope", "spectrum"} : SwitchPane(pane)
    BY <2>7, SightsKeep
  <2>8. QED  BY <1>5, <2>1, <2>2, <2>3, <2>4, <2>5, <2>6, <2>7 DEF UseMouse
<1>6. QED  BY <1>1, <1>2, <1>3, <1>4, <1>5 DEF ModemPanelNext

THEOREM PanelInvariant == ModemPanelSpec => []PanelInv
<1>1. ModemPanelInit => PanelInv
  BY PanelStarts
<1>2. PanelInv /\ [ModemPanelNext]_panelVars => PanelInv'
  <2>1. ASSUME PanelInv, ModemPanelNext PROVE PanelInv'
    BY <2>1, PanelSteps DEF Steps
  <2>2. ASSUME PanelInv, UNCHANGED panelVars PROVE PanelInv'
    BY <2>2 DEF panelVars, PanelInv, PanelTypes, WidgetsAreTold, MayReach, Moved, LiveSlots
  <2>3. QED  BY <2>1, <2>2
<1>3. QED  BY <1>1, <1>2, PTL DEF ModemPanelSpec

\* The variables of ModemPanel have their types.
THEOREM PanelTypeCorrect == ModemPanelSpec => []ModemPanelTypeOK
<1>1. PanelInv => ModemPanelTypeOK
  BY TypesSplit DEF PanelInv
<1>2. QED  BY <1>1, PanelInvariant, PTL

\* Whatever is pressed, chosen, deleted and created in between, and however many modems there are.
THEOREM PressesReach == ModemPanelSpec => PressesReachTheirModem
<1>1. PanelInv /\ [ModemPanelNext]_panelVars =>
         [slots' # slots /\ panelEvents' = panelEvents => OnlyWhereMeant]_panelVars
  <2>1. ASSUME PanelInv, ModemPanelNext, panelEvents' = panelEvents PROVE OnlyWhereMeant
    BY <2>1, PanelSteps DEF Steps
  <2>2. QED  BY <2>1
<1>2. QED  BY <1>1, PanelInvariant, PTL DEF ModemPanelSpec, PressesReachTheirModem

-----------------------------------------------------------------------------
(* BookmarkTree: the invariant.                                            *)

TitleValues == Titles \cup {1, 2}

\* The recent modems are in the order in which they became one; none of them is a bookmark.
BookSound(b) ==
    /\ DOMAIN b = {"groups", "recents", "ranges", "title"}
    /\ b.title \in Seq(TitleValues)
    /\ b.recents \in Seq(1 .. Len(b.title)) /\ Len(b.recents) =< TreeRecentsMax
    /\ \A i, j \in 1 .. Len(b.recents) : i < j => b.recents[i] < b.recents[j]
    /\ DOMAIN b.groups \subseteq TreeGroups
    /\ \A g \in DOMAIN b.groups : b.groups[g] \subseteq (1 .. Len(b.title)) \ ToSet(b.recents)

AirSound(a) ==
    /\ DOMAIN a = {"modems", "title", "on", "current", "context"}
    /\ a.title \in Seq(TitleValues)
    /\ a.on \subseteq a.modems /\ a.modems \subseteq 1 .. Len(a.title)

\* The lists b become c: no entry is forgotten, and none that was there becomes a recent modem.
BookGrows(b, c) ==
    /\ Len(b.title) =< Len(c.title)
    /\ ToSet(c.recents) \cap (1 .. Len(b.title)) \subseteq ToSet(b.recents)

TreeTypes ==
    /\ DOMAIN tree = {"active", "range", "recent", "groups", "open", "closed"}
    /\ DOMAIN tree.groups \subseteq TreeGroups /\ panel.offers \subseteq TreeGroups
    /\ DOMAIN carried = {"item", "fresh"} /\ DOMAIN prompt = {"asks", "held"}
    /\ DOMAIN prompt.held = {"item", "fresh"}
    /\ pick.fallback \in BranchNames \cup {""}
    /\ raised \subseteq {"active", "bookmarks"} /\ search \in BOOLEAN /\ missed \in BOOLEAN
    /\ tick \in {"idle", "built", "between", "refreshed"}
    /\ treeClicks \in 0 .. MaxTreeClicks

\* What is shown, and what an item refers to, is or was there; a bookmark is no recent modem.
Refers(kind, of) ==
    /\ kind = "active" => of \in 1 .. Len(air.title)
    /\ kind = "recent" => of \in 1 .. Len(book.title)
    /\ kind = "bookmark" => of \in (1 .. Len(book.title)) \ ToSet(book.recents)

ShownRefer ==
    /\ \A d \in DOMAIN tree.active : Refers("active", d)
    /\ \A e \in DOMAIN tree.recent : Refers("recent", e)
    /\ \A g \in DOMAIN tree.groups : \A e \in DOMAIN tree.groups[g] : Refers("bookmark", e)

HeldRefer ==
    /\ Chosen = NoItem \/ Chosen \in TreeItems(tree)
    /\ Refers(carried.item.kind, carried.item.of)
    /\ Refers(prompt.held.item.kind, prompt.held.item.of)

ModemsAreShown ==
    /\ \A d \in air.on : IsFound(air.title[d]) =>
           d \in DOMAIN tree.active /\ tree.active[d] = air.title[d]
    /\ ~search => DOMAIN tree.active = air.modems

RecentsAreShown ==
    /\ tree.range = book.ranges
    /\ \A e \in ToSet(book.recents) : IsFound(book.title[e]) =>
           e \in DOMAIN tree.recent /\ tree.recent[e] = book.title[e]

BookmarksAreShown ==
    /\ DOMAIN tree.groups = DOMAIN book.groups
    /\ ~search => \A g \in DOMAIN book.groups : DOMAIN tree.groups[g] = book.groups[g]

\* A branch that does not show what there is has its flag up, or its rebuild was missed.
ActiveIsDue == ("active" \notin raised \/ tick = "built") /\ ~missed => ModemsAreShown /\ RecentsAreShown
BookmarksAreDue == "bookmarks" \notin raised \/ tick = "refreshed" => BookmarksAreShown

TreeInv ==
    /\ TreeTypes /\ BookSound(book) /\ AirSound(air) /\ ShownRefer /\ HeldRefer
    /\ ActiveIsDue /\ BookmarksAreDue

-----------------------------------------------------------------------------
(* BookmarkTree: items and lists.                                          *)

LEMMA ItemFields ==
  /\ \A kind, of, group : /\ Item(kind, of, group).kind = kind /\ Item(kind, of, group).of = of
                          /\ Item(kind, of, group).group = group
  /\ NoItem.kind = "none" /\ \A b : BranchItem(b).kind = "branch"
BY DEF Item, NoItem, BranchItem

LEMMA ItemsComeFrom ==
  ASSUME NEW t, NEW item \in TreeItems(t)
  PROVE  \/ \E b \in BranchNames : item = BranchItem(b)
         \/ \E d \in DOMAIN t.active : item = Item("active", d, "")
         \/ \E r \in t.range : item = Item("range", r, "")
         \/ \E e \in DOMAIN t.recent : item = Item("recent", e, "")
         \/ \E g \in DOMAIN t.groups : item = Item("group", 0, g)
         \/ \E g \in DOMAIN t.groups : \E e \in DOMAIN t.groups[g] : item = Item("bookmark", e, g)
<1> DEFINE In(g) == {Item("bookmark", e, g) : e \in DOMAIN t.groups[g]}
<1>1. CASE item \in UNION {In(g) : g \in DOMAIN t.groups}
  <2>1. PICK g \in DOMAIN t.groups : item \in In(g)
    BY <1>1
  <2>2. QED  BY <2>1
<1>2. CASE item \notin UNION {In(g) : g \in DOMAIN t.groups}
  BY <1>2 DEF TreeItems
<1>3. QED  BY <1>1, <1>2

LEMMA ItemsBelong ==
  ASSUME NEW t
  PROVE  /\ \A b \in BranchNames : BranchItem(b) \in TreeItems(t)
         /\ \A d \in DOMAIN t.active : Item("active", d, "") \in TreeItems(t)
         /\ \A r \in t.range : Item("range", r, "") \in TreeItems(t)
         /\ \A e \in DOMAIN t.recent : Item("recent", e, "") \in TreeItems(t)
         /\ \A g \in DOMAIN t.groups : Item("group", 0, g) \in TreeItems(t)
         /\ \A g \in DOMAIN t.groups : \A e \in DOMAIN t.groups[g] : Item("bookmark", e, g) \in TreeItems(t)
<1> DEFINE In(g) == {Item("bookmark", e, g) : e \in DOMAIN t.groups[g]}
<1>1. ASSUME NEW g \in DOMAIN t.groups, NEW e \in DOMAIN t.groups[g]
      PROVE  Item("bookmark", e, g) \in UNION {In(h) : h \in DOMAIN t.groups}
  <2>1. Item("bookmark", e, g) \in In(g)
    OBVIOUS
  <2> HIDE DEF In
  <2>2. QED  BY <2>1
<1>2. QED  BY <1>1 DEF TreeItems

LEMMA ItemsAre ==
  ASSUME NEW t, NEW item \in TreeItems(t)
  PROVE  /\ item # NoItem
         /\ item.kind = "active" => item.of \in DOMAIN t.active
         /\ item.kind = "recent" => item.of \in DOMAIN t.recent
         /\ item.kind = "recent" => item = Item("recent", item.of, "")
         /\ item.kind = "range" => item = Item("range", item.of, "")
         /\ item.kind \in {"group", "bookmark"} => item.group \in DOMAIN t.groups
         /\ item.kind = "bookmark" => item.of \in DOMAIN t.groups[item.group]
<1>1. CASE \E b \in BranchNames : item = BranchItem(b)
  <2>1. item.kind = "branch"
    BY <1>1, ItemFields
  <2>2. QED  BY <2>1, ItemFields
<1>2. CASE \E d \in DOMAIN t.active : item = Item("active", d, "")
  <2>1. item.kind = "active" /\ item.of \in DOMAIN t.active
    <3>1. PICK d \in DOMAIN t.active : item = Item("active", d, "")
      BY <1>2
    <3>2. \E nowhere : item = Item("active", d, nowhere)
      BY <3>1
    <3>3. item.kind = "active" /\ item.of = d
      BY <3>2, ItemFields
    <3>5. QED  BY <3>1, <3>3
  <2>2. QED  BY <2>1, ItemFields
<1>3. CASE \E r \in t.range : item = Item("range", r, "")
  <2>1. item.kind = "range" /\ item = Item("range", item.of, "")
    <3>1. PICK r \in t.range : item = Item("range", r, "")
      BY <1>3
    <3>2. \E nowhere : item = Item("range", r, nowhere)
      BY <3>1
    <3>3. item.kind = "range" /\ item.of = r
      BY <3>2, ItemFields
    <3>4. item = Item("range", item.of, "")
      BY <3>1, <3>3
    <3>5. QED  BY <3>1, <3>3, <3>4
  <2>2. QED  BY <2>1, ItemFields
<1>4. CASE \E e \in DOMAIN t.recent : item = Item("recent", e, "")
  <2>1. item.kind = "recent" /\ item = Item("recent", item.of, "") /\ item.of \in DOMAIN t.recent
    <3>1. PICK e \in DOMAIN t.recent : item = Item("recent", e, "")
      BY <1>4
    <3>2. \E nowhere : item = Item("recent", e, nowhere)
      BY <3>1
    <3>3. item.kind = "recent" /\ item.of = e
      BY <3>2, ItemFields
    <3>4. item = Item("recent", item.of, "")
      BY <3>1, <3>3
    <3>5. QED  BY <3>1, <3>3, <3>4
  <2>2. QED  BY <2>1, ItemFields
<1>5. CASE \E g \in DOMAIN t.groups : item = Item("group", 0, g)
  <2>1. item.kind = "group" /\ item.group \in DOMAIN t.groups
    BY <1>5, ItemFields
  <2>2. QED  BY <2>1, ItemFields
<1>6. CASE \E g \in DOMAIN t.groups : \E e \in DOMAIN t.groups[g] : item = Item("bookmark", e, g)
  <2>1. item.kind = "bookmark" /\ item.group \in DOMAIN t.groups /\ item.of \in DOMAIN t.groups[item.group]
    BY <1>6, ItemFields
  <2>2. QED  BY <2>1, ItemFields
<1>7. QED  BY <1>1, <1>2, <1>3, <1>4, <1>5, <1>6, ItemsComeFrom

\* What is still shown is still an item.
LEMMA ItemsStay ==
  ASSUME NEW t, NEW u, NEW item \in TreeItems(t)
  PROVE  /\ t.active = u.active /\ t.range = u.range /\ t.recent = u.recent /\ t.groups = u.groups
              => item \in TreeItems(u)
         /\ t.groups = u.groups /\ (item.kind = "branch" \/ BranchOf(item) \notin {"active", "range", "recent"})
              => item \in TreeItems(u)
         /\ t.active = u.active /\ t.range = u.range /\ t.recent = u.recent
            /\ (item.kind = "branch" \/ BranchOf(item) # "bookmark") => item \in TreeItems(u)
         /\ t.active = u.active /\ t.range = u.range /\ t.groups = u.groups /\ item.kind # "recent"
              => item \in TreeItems(u)
<1>1. CASE \E b \in BranchNames : item = BranchItem(b)
  BY <1>1, ItemsBelong
<1>2. CASE \E d \in DOMAIN t.active : item = Item("active", d, "")
  <2>1. item.kind = "active" /\ BranchOf(item) = "active"
    <3>1. PICK d, nowhere : item = Item("active", d, nowhere)
      BY <1>2
    <3>2. item.kind = "active"
      BY <3>1, ItemFields
    <3>3. QED  BY <3>2 DEF BranchOf
  <2>2. t.active = u.active => item \in TreeItems(u)
    BY <1>2, ItemsBelong
  <2>3. QED  BY <2>1, <2>2
<1>3. CASE \E r \in t.range : item = Item("range", r, "")
  <2>1. item.kind = "range" /\ BranchOf(item) = "range"
    <3>1. PICK r, nowhere : item = Item("range", r, nowhere)
      BY <1>3
    <3>2. item.kind = "range"
      BY <3>1, ItemFields
    <3>3. QED  BY <3>2 DEF BranchOf
  <2>2. t.range = u.range => item \in TreeItems(u)
    BY <1>3, ItemsBelong
  <2>3. QED  BY <2>1, <2>2
<1>4. CASE \E e \in DOMAIN t.recent : item = Item("recent", e, "")
  <2>1. item.kind = "recent" /\ BranchOf(item) = "recent"
    <3>1. PICK e, nowhere : item = Item("recent", e, nowhere)
      BY <1>4
    <3>2. item.kind = "recent"
      BY <3>1, ItemFields
    <3>3. QED  BY <3>2 DEF BranchOf
  <2>2. t.recent = u.recent => item \in TreeItems(u)
    BY <1>4, ItemsBelong
  <2>3. QED  BY <2>1, <2>2
<1>5. CASE \E g \in DOMAIN t.groups : item = Item("group", 0, g)
  <2>1. item.kind = "group" /\ BranchOf(item) = "bookmark"
    BY <1>5, ItemFields DEF BranchOf
  <2>2. t.groups = u.groups => item \in TreeItems(u)
    BY <1>5, ItemsBelong
  <2>3. QED  BY <2>1, <2>2
<1>6. CASE \E g \in DOMAIN t.groups : \E e \in DOMAIN t.groups[g] : item = Item("bookmark", e, g)
  <2>1. item.kind = "bookmark" /\ BranchOf(item) = "bookmark"
    BY <1>6, ItemFields DEF BranchOf
  <2>2. t.groups = u.groups => item \in TreeItems(u)
    BY <1>6, ItemsBelong
  <2>3. QED  BY <2>1, <2>2
<1>7. QED  BY <1>1, <1>2, <1>3, <1>4, <1>5, <1>6, ItemsComeFrom

\* The first of the recent modems that is e is taken out; as e is not there twice, it is gone.
LEMMA RecentGoes ==
  ASSUME NEW S \in SUBSET Nat, NEW s \in Seq(S), NEW e,
         \A i, j \in 1 .. Len(s) : i < j => s[i] < s[j]
  PROVE  LET rest == RemoveFirst(s, e)
         IN /\ rest \in Seq(S) /\ Len(rest) =< Len(s) /\ ToSet(rest) = ToSet(s) \ {e}
            /\ \A i, j \in 1 .. Len(rest) : i < j => rest[i] < rest[j]
<1> DEFINE m == Len(s)
           I == {i \in 1 .. m : s[i] = e}
           rest == RemoveFirst(s, e)
<1>1. /\ DOMAIN s = 1 .. m /\ m \in Nat /\ \A i \in 1 .. m : s[i] \in S /\ s[i] \in Nat
      /\ \A i, j \in 1 .. m : i < j => s[i] < s[j]
  <2>1. DOMAIN s = 1 .. m /\ m \in Nat /\ \A i \in 1 .. m : s[i] \in S
    OBVIOUS
  <2>2. QED  BY <2>1
<1>2. CASE I = {}
  <2>1. rest = s
    BY <1>2 DEF RemoveFirst
  <2>2. e \notin ToSet(s)
    BY <1>1, <1>2 DEF ToSet
  <2>3. QED  BY <1>1, <2>1, <2>2
<1>3. CASE I # {}
  <2> DEFINE p == SelectInSeq(s, LAMBDA v : v = e)
  <2>1. rest = SubSeq(s, 1, p - 1) \o SubSeq(s, p + 1, m)
    BY <1>3 DEF RemoveFirst, RemoveAt
  <2>2. PICK q \in 1 .. m : s[q] = e
    BY <1>3
  <2>3. \A i \in I : i = q
    BY <1>1, <2>2
  <2>4. p \in 1 .. m /\ s[p] = e
    <3>1. I = {q}
      BY <2>2, <2>3
    <3>2. p = Min(I)
      BY <1>3 DEF SelectInSeq
    <3>3. Min({q}) = q
      BY DEF Min
    <3>4. QED  BY <2>2, <3>1, <3>2, <3>3
  <2> HIDE DEF p, rest, I, m
  <2>5. /\ SubSeq(s, 1, p - 1) \in Seq(S) /\ Len(SubSeq(s, 1, p - 1)) = p - 1
        /\ \A i \in 1 .. p - 1 : SubSeq(s, 1, p - 1)[i] = s[i]
    BY <1>1, <2>4
  <2>6. /\ SubSeq(s, p + 1, m) \in Seq(S) /\ Len(SubSeq(s, p + 1, m)) = m - p
        /\ \A i \in 1 .. m - p : SubSeq(s, p + 1, m)[i] = s[p + i]
    BY <1>1, <2>4
  <2>7. /\ rest \in Seq(S) /\ Len(rest) = (p - 1) + (m - p)
        /\ \A i \in 1 .. (p - 1) + (m - p) :
              rest[i] = IF i =< p - 1 THEN SubSeq(s, 1, p - 1)[i]
                        ELSE SubSeq(s, p + 1, m)[i - (p - 1)]
    <3>1. PICK u, v : u = SubSeq(s, 1, p - 1) /\ v = SubSeq(s, p + 1, m)
      OBVIOUS
    <3>2. /\ u \in Seq(S) /\ v \in Seq(S) /\ rest = u \o v
          /\ Len(u) = p - 1 /\ Len(v) = m - p
      BY <2>1, <2>5, <2>6, <3>1
    <3>3. /\ Len(u \o v) = Len(u) + Len(v)
          /\ \A i \in 1 .. Len(u) + Len(v) : (u \o v)[i] = IF i =< Len(u) THEN u[i] ELSE v[i - Len(u)]
      BY <3>2, ConcatProperties
    <3>4. u \o v \in Seq(S)
      BY <3>2, ConcatProperties
    <3>5. QED  BY <3>1, <3>2, <3>3, <3>4
  <2>8. Len(rest) = m - 1 /\ DOMAIN rest = 1 .. m - 1
    BY <1>1, <2>4, <2>7
  <2>9. ASSUME NEW i \in 1 .. m - 1
        PROVE  rest[i] = IF i < p THEN s[i] ELSE s[i + 1]
    <3>1. CASE i < p
      BY <1>1, <2>4, <2>5, <2>7, <3>1
    <3>2. CASE ~(i < p)
      <4>1. rest[i] = SubSeq(s, p + 1, m)[i - (p - 1)] /\ i - (p - 1) \in 1 .. m - p
        <5>1. i \in 1 .. (p - 1) + (m - p) /\ ~(i =< p - 1) /\ i - (p - 1) \in 1 .. m - p
          BY <1>1, <2>4, <3>2
        <5>2. QED  BY <2>7, <5>1
      <4>2. SubSeq(s, p + 1, m)[i - (p - 1)] = s[p + (i - (p - 1))]
        BY <2>6, <4>1
      <4>3. p + (i - (p - 1)) = i + 1
        BY <2>4
      <4>4. QED  BY <3>2, <4>1, <4>2, <4>3
    <3>3. QED  BY <3>1, <3>2
  <2>10. ASSUME NEW i \in 1 .. m - 1, NEW j \in 1 .. m - 1, i < j
         PROVE  rest[i] < rest[j]
    <3>1. PICK k \in 1 .. m : k = IF i < p THEN i ELSE i + 1
      BY <1>1
    <3>2. PICK l \in 1 .. m : l = IF j < p THEN j ELSE j + 1
      BY <1>1
    <3>3. rest[i] = s[k] /\ rest[j] = s[l] /\ k < l
      BY <2>4, <2>9, <2>10, <3>1, <3>2
    <3>4. QED  BY <1>1, <3>3
  <2>11. ToSet(rest) = ToSet(s) \ {e}
    <3>1. ASSUME NEW i \in 1 .. m - 1
          PROVE  rest[i] \in ToSet(s) \ {e}
      <4>1. PICK k \in 1 .. m : k = IF i < p THEN i ELSE i + 1
        BY <1>1
      <4>2. rest[i] = s[k] /\ (k < p \/ p < k)
        BY <2>4, <2>9, <4>1
      <4>3. s[k] # e
        BY <1>1, <2>4, <4>2
      <4>4. QED  BY <1>1, <4>2, <4>3 DEF ToSet
    <3>2. ASSUME NEW x \in ToSet(s) \ {e}
          PROVE  \E i \in 1 .. m - 1 : rest[i] = x
      <4>1. PICK k \in 1 .. m : s[k] = x
        BY <1>1 DEF ToSet
      <4>2. CASE k < p
        BY <1>1, <2>4, <2>9, <4>1, <4>2
      <4>3. CASE k > p
        <5>1. k - 1 \in 1 .. m - 1 /\ ~(k - 1 < p) /\ (k - 1) + 1 = k
          BY <1>1, <2>4, <4>1, <4>3
        <5>2. rest[k - 1] = s[k]
          BY <2>9, <5>1
        <5>3. QED  BY <4>1, <5>1, <5>2
      <4>4. k # p
        BY <2>4, <4>1
      <4>5. QED  BY <2>4, <4>1, <4>2, <4>3, <4>4
    <3>3. QED  BY <2>8, <3>1, <3>2 DEF ToSet
  <2>12. Len(rest) =< m
    BY <1>1, <2>8
  <2>13. QED  BY <2>7, <2>8, <2>10, <2>11, <2>12 DEF rest, m
<1>4. QED  BY <1>2, <1>3

LEMMA WithoutRecentSound ==
  ASSUME NEW b, BookSound(b), NEW e
  PROVE  LET c == WithoutRecent(b, e)
         IN /\ BookSound(c) /\ BookGrows(b, c)
            /\ ToSet(c.recents) = ToSet(b.recents) \ {e}
            /\ c.groups = b.groups /\ c.ranges = b.ranges /\ c.title = b.title
<1> DEFINE c == WithoutRecent(b, e)
<1>1. /\ c.recents = RemoveFirst(b.recents, e) /\ DOMAIN c = DOMAIN b
      /\ c.groups = b.groups /\ c.ranges = b.ranges /\ c.title = b.title
  BY DEF WithoutRecent, BookSound
<1>2. Len(b.title) \in Nat /\ b.recents \in Seq(1 .. Len(b.title)) /\ Len(b.recents) \in Nat
  BY DEF BookSound
<1>3. /\ c.recents \in Seq(1 .. Len(b.title)) /\ Len(c.recents) =< Len(b.recents)
      /\ ToSet(c.recents) = ToSet(b.recents) \ {e}
      /\ \A i, j \in 1 .. Len(c.recents) : i < j => c.recents[i] < c.recents[j]
  <2> DEFINE S == 1 .. Len(b.title)
  <2>1. S \in SUBSET Nat /\ b.recents \in Seq(S)
    BY <1>2
  <2>2. \A i, j \in 1 .. Len(b.recents) : i < j => b.recents[i] < b.recents[j]
    BY DEF BookSound
  <2> HIDE DEF S
  <2>3. PICK s : s = b.recents
    OBVIOUS
  <2>4. s \in Seq(S) /\ \A i, j \in 1 .. Len(s) : i < j => s[i] < s[j]
    BY <2>1, <2>2, <2>3
  <2>5. /\ RemoveFirst(s, e) \in Seq(S) /\ Len(RemoveFirst(s, e)) =< Len(s)
        /\ ToSet(RemoveFirst(s, e)) = ToSet(s) \ {e}
        /\ \A i, j \in 1 .. Len(RemoveFirst(s, e)) :
              i < j => RemoveFirst(s, e)[i] < RemoveFirst(s, e)[j]
    BY <2>1, <2>4, RecentGoes
  <2>6. QED  BY <1>1, <2>3, <2>5 DEF S
<1> HIDE DEF c
<1>4. Len(c.recents) =< TreeRecentsMax
  BY <1>2, <1>3, BookmarkTreeAssumption DEF BookSound
<1>5. BookSound(c)
  BY <1>1, <1>3, <1>4 DEF BookSound
<1>6. BookGrows(b, c)
  BY <1>1, <1>2, <1>3 DEF BookGrows
<1>7. QED  BY <1>1, <1>3, <1>5, <1>6 DEF c

\* A new entry n is put in the group g, or one that is no recent modem.
LEMMA PutSound ==
  ASSUME NEW b, BookSound(b), NEW g \in TreeGroups, NEW e \in (1 .. Len(b.title)) \ ToSet(b.recents)
  PROVE  LET c == Put(b, g, e)
         IN /\ BookSound(c) /\ BookGrows(b, c) /\ c.recents = b.recents /\ c.ranges = b.ranges
            /\ c.title = b.title
<1> DEFINE c == Put(b, g, e)
<1>1. /\ DOMAIN c = DOMAIN b /\ c.recents = b.recents /\ c.ranges = b.ranges /\ c.title = b.title
      /\ c.groups = [h \in DOMAIN b.groups \cup {g} |->
            IF h = g THEN {e} \cup (IF g \in DOMAIN b.groups THEN b.groups[g] ELSE {}) ELSE b.groups[h]]
  BY DEF Put, BookSound
<1> HIDE DEF c
<1>2. /\ DOMAIN c.groups = DOMAIN b.groups \cup {g}
      /\ \A h \in DOMAIN c.groups : c.groups[h] =
            IF h = g THEN {e} \cup (IF g \in DOMAIN b.groups THEN b.groups[g] ELSE {}) ELSE b.groups[h]
  BY <1>1
<1>3. BookSound(c)
  BY <1>1, <1>2 DEF BookSound
<1>4. BookGrows(b, c)
  <2>1. Len(b.title) \in Nat
    BY DEF BookSound
  <2>2. QED  BY <1>1, <2>1 DEF BookGrows
<1>5. QED  BY <1>1, <1>3, <1>4 DEF c

\* An entry that is in a group is no recent modem, and stays none.
LEMMA MoveSound ==
  ASSUME NEW b, BookSound(b), NEW g \in TreeGroups, NEW e, NEW c \in Move(b, e, g)
  PROVE  BookSound(c) /\ BookGrows(b, c) /\ c.recents = b.recents /\ c.ranges = b.ranges /\ c.title = b.title
<1>1. CASE c = b
  <2>1. Len(b.title) \in Nat
    BY DEF BookSound
  <2>2. QED  BY <1>1, <2>1 DEF BookGrows
<1>2. ASSUME NEW h \in DOMAIN b.groups, e \in b.groups[h],
             c = Put([b EXCEPT !.groups[h] = @ \ {e}], g, e)
      PROVE  BookSound(c) /\ BookGrows(b, c) /\ c.recents = b.recents /\ c.ranges = b.ranges /\ c.title = b.title
  <2> DEFINE a == [b EXCEPT !.groups[h] = @ \ {e}]
  <2>1. /\ DOMAIN a = DOMAIN b /\ a.recents = b.recents /\ a.ranges = b.ranges /\ a.title = b.title
        /\ a.groups = [b.groups EXCEPT ![h] = @ \ {e}]
    BY DEF BookSound
  <2> HIDE DEF a
  <2>2. DOMAIN a.groups = DOMAIN b.groups /\ \A k \in DOMAIN a.groups : a.groups[k] \subseteq b.groups[k]
    BY <1>2, <2>1
  <2>3. BookSound(a)
    BY <2>1, <2>2 DEF BookSound
  <2>4. e \in (1 .. Len(a.title)) \ ToSet(a.recents)
    BY <1>2, <2>1 DEF BookSound
  <2>5. c = Put(a, g, e)
    BY <1>2 DEF a
  <2>6. BookSound(c) /\ BookGrows(a, c) /\ c.recents = a.recents /\ c.ranges = a.ranges /\ c.title = a.title
    BY <2>3, <2>4, <2>5, PutSound
  <2>7. QED  BY <2>1, <2>6 DEF BookGrows
<1>3. c = b \/ \E h \in DOMAIN b.groups : e \in b.groups[h] /\ c = Put([b EXCEPT !.groups[h] = @ \ {e}], g, e)
  <2> DEFINE homes == {h \in DOMAIN b.groups : e \in b.groups[h]}
             moved(h) == IF h = g THEN b ELSE Put([b EXCEPT !.groups[h] = @ \ {e}], g, e)
  <2>1. c \in IF homes = {} THEN {b} ELSE {moved(h) : h \in homes}
    BY DEF Move
  <2>2. c = b \/ \E h \in homes : c = moved(h)
    BY <2>1
  <2>3. QED  BY <2>2
<1>4. QED  BY <1>1, <1>2, <1>3

LEMMA RenameSound ==
  ASSUME NEW b, BookSound(b), NEW g, NEW n \in TreeGroups
  PROVE  LET c == RenameGroupTo(b, g, n)
         IN BookSound(c) /\ BookGrows(b, c) /\ c.recents = b.recents /\ c.ranges = b.ranges /\ c.title = b.title
<1> DEFINE c == RenameGroupTo(b, g, n)
<1>0. Len(b.title) \in Nat
  BY DEF BookSound
<1>1. CASE g \notin DOMAIN b.groups
  BY <1>0, <1>1 DEF RenameGroupTo, BookGrows
<1>2. CASE g \in DOMAIN b.groups
  <2>1. /\ DOMAIN c = DOMAIN b /\ c.recents = b.recents /\ c.ranges = b.ranges /\ c.title = b.title
        /\ c.groups = [h \in (DOMAIN b.groups \ {g}) \cup {n} |->
             IF h = n THEN b.groups[g] \cup (IF n \in DOMAIN b.groups THEN b.groups[n] ELSE {})
             ELSE b.groups[h]]
    BY <1>2 DEF RenameGroupTo, BookSound
  <2> HIDE DEF c
  <2>2. BookSound(c)
    BY <1>2, <2>1 DEF BookSound
  <2>3. QED  BY <1>0, <2>1, <2>2 DEF BookGrows, c
<1>3. QED  BY <1>1, <1>2

LEMMA EntriesGrow ==
  ASSUME NEW n \in Nat, NEW s \in Seq(1 .. n)
  PROVE  s \in Seq(1 .. n + 1)
<1>1. Len(s) \in Nat /\ s \in [1 .. Len(s) -> 1 .. n]
  OBVIOUS
<1>2. s \in [1 .. Len(s) -> 1 .. n + 1]
  BY <1>1
<1>3. QED  BY <1>1, <1>2, SeqDef

\* The lists c have one entry more than b.
LEMMA OneMoreEntry ==
  ASSUME NEW b, BookSound(b), NEW c, NEW t \in TitleValues, c.title = Append(b.title, t)
  PROVE  /\ c.title \in Seq(TitleValues) /\ Len(b.title) \in Nat /\ Len(c.title) = Len(b.title) + 1
         /\ \A e \in 1 .. Len(b.title) : c.title[e] = b.title[e]
BY DEF BookSound

LEMMA NewBookmarkSound ==
  ASSUME NEW b, BookSound(b), NEW g \in TreeGroups, NEW t \in TitleValues
  PROVE  LET c == [Put(b, g, Len(b.title) + 1) EXCEPT !.title = Append(@, t)]
         IN /\ BookSound(c) /\ BookGrows(b, c) /\ c.recents = b.recents /\ c.ranges = b.ranges
            /\ \A e \in 1 .. Len(b.title) : c.title[e] = b.title[e]
<1> DEFINE n == Len(b.title) + 1
           c == [Put(b, g, n) EXCEPT !.title = Append(@, t)]
<1>1. /\ DOMAIN c = DOMAIN b /\ c.recents = b.recents /\ c.ranges = b.ranges /\ c.title = Append(b.title, t)
      /\ c.groups = [h \in DOMAIN b.groups \cup {g} |->
            IF h = g THEN {n} \cup (IF g \in DOMAIN b.groups THEN b.groups[g] ELSE {}) ELSE b.groups[h]]
  BY DEF Put, BookSound
<1> HIDE DEF c
<1>2. /\ c.title \in Seq(TitleValues) /\ Len(b.title) \in Nat /\ Len(c.title) = n
      /\ \A e \in 1 .. Len(b.title) : c.title[e] = b.title[e]
  <2>1. c.title = Append(b.title, t)
    BY <1>1
  <2>2. c.title \in Seq(TitleValues) /\ Len(b.title) \in Nat /\ Len(c.title) = Len(b.title) + 1
    BY <2>1, OneMoreEntry
  <2>3. \A e \in 1 .. Len(b.title) : c.title[e] = b.title[e]
    BY <2>1, OneMoreEntry
  <2>4. QED  BY <2>2, <2>3
<1>3. /\ DOMAIN c.groups = DOMAIN b.groups \cup {g}
      /\ \A h \in DOMAIN c.groups : c.groups[h] =
            IF h = g THEN {n} \cup (IF g \in DOMAIN b.groups THEN b.groups[g] ELSE {}) ELSE b.groups[h]
  BY <1>1
<1>4. /\ DOMAIN b.recents = 1 .. Len(b.recents) /\ \A i \in DOMAIN b.recents : b.recents[i] \in 1 .. Len(b.title)
      /\ b.recents \in Seq(1 .. n)
  <2>1. b.recents \in Seq(1 .. Len(b.title))
    BY DEF BookSound
  <2>2. 1 .. Len(b.title) \subseteq 1 .. n
    BY <1>2
  <2>3. DOMAIN b.recents = 1 .. Len(b.recents) /\ Len(b.recents) \in Nat
        /\ \A i \in DOMAIN b.recents : b.recents[i] \in 1 .. Len(b.title)
    BY <2>1
  <2>4. b.recents \in Seq(1 .. n)
    BY <1>2, <2>1, EntriesGrow
  <2>5. QED  BY <2>3, <2>4
<1>5. n \notin ToSet(b.recents) /\ ToSet(b.recents) \subseteq 1 .. Len(b.title)
  BY <1>2, <1>4 DEF ToSet
<1>6. \A h \in DOMAIN c.groups : c.groups[h] \subseteq (1 .. n) \ ToSet(b.recents)
  <2>1. \A h \in DOMAIN b.groups : b.groups[h] \subseteq (1 .. Len(b.title)) \ ToSet(b.recents)
    BY DEF BookSound
  <2>2. 1 .. Len(b.title) \subseteq 1 .. n /\ n \in 1 .. n
    BY <1>2
  <2> HIDE DEF n
  <2>3. QED  BY <1>3, <1>5, <2>1, <2>2
<1>7. BookSound(c)
  BY <1>1, <1>2, <1>3, <1>4, <1>6 DEF BookSound
<1>8. BookGrows(b, c)
  BY <1>1, <1>2 DEF BookGrows
<1>9. QED  BY <1>1, <1>2, <1>7, <1>8 DEF c

\* What is new is the latest of the recent modems; the first one gives way.
LEMMA NewRecentSound ==
  ASSUME NEW b, BookSound(b), NEW t \in TitleValues
  PROVE  LET c == [b EXCEPT !.recents = LatestRecents(Append(@, Len(b.title) + 1)), !.title = Append(@, t)]
         IN BookSound(c) /\ BookGrows(b, c) /\ c.groups = b.groups /\ c.ranges = b.ranges
<1> DEFINE n == Len(b.title) + 1
           r == Append(b.recents, n)
           c == [b EXCEPT !.recents = LatestRecents(Append(@, Len(b.title) + 1)), !.title = Append(@, t)]
           m == Len(b.recents)
<1>1. /\ DOMAIN c = DOMAIN b /\ c.recents = LatestRecents(r) /\ c.ranges = b.ranges
      /\ c.title = Append(b.title, t) /\ c.groups = b.groups
  BY DEF BookSound
<1> HIDE DEF c
<1>2. /\ c.title \in Seq(TitleValues) /\ Len(b.title) \in Nat /\ Len(c.title) = n
  BY <1>1, OneMoreEntry
<1>3. /\ m \in Nat /\ DOMAIN b.recents = 1 .. m /\ m =< TreeRecentsMax
      /\ \A i \in 1 .. m : b.recents[i] \in 1 .. Len(b.title)
      /\ \A i, j \in 1 .. m : i < j => b.recents[i] < b.recents[j]
      /\ b.recents \in Seq(1 .. n)
  <2>1. b.recents \in Seq(1 .. Len(b.title))
    BY DEF BookSound
  <2>2. 1 .. Len(b.title) \subseteq 1 .. n
    BY <1>2
  <2>3. m \in Nat /\ DOMAIN b.recents = 1 .. m /\ \A i \in 1 .. m : b.recents[i] \in 1 .. Len(b.title)
    BY <2>1
  <2>4. b.recents \in Seq(1 .. n)
    BY <1>2, <2>1, EntriesGrow
  <2>5. QED  BY <2>3, <2>4 DEF BookSound
<1>4. /\ r \in Seq(1 .. n) /\ Len(r) = m + 1 /\ r[m + 1] = n /\ \A i \in 1 .. m : r[i] = b.recents[i]
  <2>1. n \in 1 .. n
    BY <1>2
  <2>2. QED  BY <1>3, <2>1
<1> HIDE DEF r, m
<1>5. \A i, j \in 1 .. m + 1 : i < j => r[i] < r[j]
  <2>1. SUFFICES ASSUME NEW i \in 1 .. m + 1, NEW j \in 1 .. m + 1, i < j PROVE r[i] < r[j]
    OBVIOUS
  <2>2. i \in 1 .. m /\ r[i] = b.recents[i] /\ b.recents[i] \in 1 .. Len(b.title)
    BY <1>3, <1>4, <2>1
  <2>3. CASE j = m + 1
    BY <1>2, <1>4, <2>2, <2>3
  <2>4. CASE j # m + 1
    BY <1>3, <1>4, <2>1, <2>2, <2>4
  <2>5. QED  BY <2>3, <2>4
<1>6. ToSet(r) \cap (1 .. Len(b.title)) \subseteq ToSet(b.recents) /\ ToSet(r) \subseteq ToSet(b.recents) \cup {n}
  <2>1. DOMAIN r = 1 .. m + 1
    BY <1>3, <1>4
  <2>2. ASSUME NEW i \in 1 .. m + 1 PROVE r[i] = n \/ r[i] \in ToSet(b.recents)
    <3>1. i = m + 1 \/ i \in 1 .. m
      BY <1>3
    <3>2. QED  BY <1>3, <1>4, <3>1 DEF ToSet
  <2>3. n \notin 1 .. Len(b.title)
    BY <1>2
  <2> HIDE DEF n
  <2>4. QED  BY <2>1, <2>2, <2>3 DEF ToSet
<1> HIDE DEF n
<1>7. /\ c.recents \in Seq(1 .. n) /\ Len(c.recents) =< TreeRecentsMax /\ ToSet(c.recents) \subseteq ToSet(r)
      /\ \A i, j \in 1 .. Len(c.recents) : i < j => c.recents[i] < c.recents[j]
  <2>1. CASE Len(r) > TreeRecentsMax
    <3>1. c.recents = Tail(r) /\ m = TreeRecentsMax
      BY <1>1, <1>3, <1>4, <2>1, BookmarkTreeAssumption DEF LatestRecents
    <3>2. Tail(r) \in Seq(1 .. n) /\ Len(Tail(r)) = m /\ \A i \in 1 .. m : Tail(r)[i] = r[i + 1]
      BY <1>3, <1>4
    <3> DEFINE u == Tail(r)
    <3>3. u \in Seq(1 .. n) /\ Len(u) = m /\ \A i \in 1 .. m : u[i] = r[i + 1]
      BY <3>2
    <3> HIDE DEF u
    <3>4. \A i \in 1 .. m : i + 1 \in 1 .. m + 1
      BY <1>3
    <3>5. \A i, j \in 1 .. m : i < j => i + 1 < j + 1
      BY <1>3
    <3>6. \A i, j \in 1 .. m : i < j => u[i] < u[j]
      BY <1>5, <3>3, <3>4, <3>5
    <3>7. ToSet(u) \subseteq ToSet(r)
      <4>1. DOMAIN u = 1 .. m /\ DOMAIN r = 1 .. m + 1
        BY <1>4, <3>3
      <4>2. QED  BY <3>3, <3>4, <4>1 DEF ToSet
    <3>8. m =< TreeRecentsMax
      BY <1>3
    <3>9. c.recents = u
      BY <3>1 DEF u
    <3>10. QED  BY <3>3, <3>6, <3>7, <3>8, <3>9
  <2>2. CASE ~(Len(r) > TreeRecentsMax)
    <3>1. c.recents = r
      BY <1>1, <2>2 DEF LatestRecents
    <3>2. Len(r) =< TreeRecentsMax
      BY <1>3, <1>4, <2>2, BookmarkTreeAssumption
    <3>3. QED  BY <1>4, <1>5, <3>1, <3>2
  <2>3. QED  BY <2>1, <2>2
<1>8. \A g \in DOMAIN c.groups : c.groups[g] \subseteq (1 .. n) \ ToSet(c.recents)
  <2>1. \A g \in DOMAIN b.groups : b.groups[g] \subseteq (1 .. Len(b.title)) \ ToSet(b.recents)
    BY DEF BookSound
  <2>2. 1 .. Len(b.title) \subseteq 1 .. n
    BY <1>2 DEF n
  <2>3. QED  BY <1>1, <1>6, <1>7, <2>1, <2>2
<1>9. BookSound(c)
  BY <1>1, <1>2, <1>7, <1>8 DEF BookSound
<1>10. BookGrows(b, c)
  <2>1. Len(b.title) =< Len(c.title)
    BY <1>2 DEF n
  <2>2. QED  BY <1>6, <1>7, <2>1 DEF BookGrows
<1>11. QED  BY <1>1, <1>9, <1>10 DEF c

LEMMA RetitledSound ==
  ASSUME NEW b, BookSound(b), NEW x \in 1 .. Len(b.title), NEW t \in TitleValues
  PROVE  LET c == [b EXCEPT !.title[x] = t]
         IN /\ BookSound(c) /\ BookGrows(b, c) /\ c.recents = b.recents /\ c.groups = b.groups
            /\ c.ranges = b.ranges /\ \A e \in 1 .. Len(b.title) : e # x => c.title[e] = b.title[e]
<1> DEFINE c == [b EXCEPT !.title[x] = t]
<1>1. /\ DOMAIN c = DOMAIN b /\ c.recents = b.recents /\ c.ranges = b.ranges /\ c.groups = b.groups
      /\ c.title = [b.title EXCEPT ![x] = t]
  BY DEF BookSound
<1> HIDE DEF c
<1>2. /\ c.title \in Seq(TitleValues) /\ Len(c.title) = Len(b.title) /\ Len(b.title) \in Nat
      /\ \A e \in 1 .. Len(b.title) : e # x => c.title[e] = b.title[e]
  BY <1>1 DEF BookSound
<1>3. QED  BY <1>1, <1>2 DEF BookSound, BookGrows, c

\* Groups go, come empty, or lose an entry.
LEMMA FewerBookmarksSound ==
  ASSUME NEW b, BookSound(b), NEW c,
         DOMAIN c = DOMAIN b, c.recents = b.recents, c.ranges = b.ranges, c.title = b.title,
         DOMAIN c.groups \subseteq TreeGroups,
         \A g \in DOMAIN c.groups : c.groups[g] = {} \/ (g \in DOMAIN b.groups /\ c.groups[g] \subseteq b.groups[g])
  PROVE  BookSound(c) /\ BookGrows(b, c)
<1>1. Len(b.title) \in Nat
  BY DEF BookSound
<1>2. \A g \in DOMAIN c.groups : c.groups[g] \subseteq (1 .. Len(c.title)) \ ToSet(c.recents)
  BY DEF BookSound
<1>3. BookSound(c)
  BY <1>2 DEF BookSound
<1>4. QED  BY <1>1, <1>3 DEF BookGrows

-----------------------------------------------------------------------------
(* BookmarkTree: what a click keeps.                                       *)

\* Nobody but other threads acts while the timer's handler is at work.
Clicked ==
    /\ tick' = tick /\ missed' = (missed \/ tick = "built")
    /\ tick = "idle" \/ (BookmarksAreShown => BookmarksAreShown')
    /\ treeClicks' \in 0 .. MaxTreeClicks /\ search' \in BOOLEAN

ListsGrow ==
    /\ BookSound(book') /\ BookGrows(book, book')
    /\ AirSound(air') /\ Len(air.title) =< Len(air'.title)

TreeStays ==
    /\ DOMAIN tree' = DOMAIN tree /\ tree'.groups = tree.groups
    /\ DOMAIN tree'.active \subseteq DOMAIN tree.active
    /\ DOMAIN tree'.recent \subseteq DOMAIN tree.recent

PickStays ==
    /\ pick'.item = NoItem \/ pick'.item \in TreeItems(tree')
    /\ pick'.fallback \in BranchNames \cup {""}
    /\ panel'.offers \subseteq TreeGroups

HeldStay ==
    /\ DOMAIN carried' = DOMAIN carried /\ carried'.item \in {carried.item, NoItem, Chosen}
    /\ DOMAIN prompt' = DOMAIN prompt /\ DOMAIN prompt'.held = DOMAIN prompt.held
    /\ prompt'.held.item \in {prompt.held.item, NoItem, Chosen}

FlagsStay ==
    /\ raised \subseteq raised' /\ raised' \subseteq {"active", "bookmarks"}
    /\ "active" \in raised'
         \/ (ModemsAreShown /\ RecentsAreShown => (ModemsAreShown /\ RecentsAreShown)')
    /\ "bookmarks" \in raised' \/ (BookmarksAreShown => BookmarksAreShown')

LEMMA StillRefers ==
  ASSUME AirSound(air), BookSound(book), ListsGrow, NEW kind, NEW of, Refers(kind, of)
  PROVE  Refers(kind, of)'
<1>1. /\ Len(air.title) \in Nat /\ Len(air'.title) \in Nat
      /\ Len(book.title) \in Nat /\ Len(book'.title) \in Nat
  BY DEF ListsGrow, AirSound, BookSound
<1>2. 1 .. Len(air.title) \subseteq 1 .. Len(air'.title) /\ 1 .. Len(book.title) \subseteq 1 .. Len(book'.title)
  BY <1>1 DEF ListsGrow, BookGrows
<1>3. \A e \in 1 .. Len(book.title) : e \in ToSet(book'.recents) => e \in ToSet(book.recents)
  BY DEF ListsGrow, BookGrows
<1>4. QED  BY <1>2, <1>3 DEF Refers

LEMMA ItemsRefer ==
  ASSUME ShownRefer, NEW item, item = NoItem \/ item \in TreeItems(tree)
  PROVE  Refers(item.kind, item.of)
<1>1. CASE item = NoItem
  BY <1>1 DEF NoItem, Item, Refers
<1>2. CASE item \in TreeItems(tree)
  <2>1. /\ item.kind = "active" => item.of \in DOMAIN tree.active
        /\ item.kind = "recent" => item.of \in DOMAIN tree.recent
        /\ item.kind = "bookmark" => item.group \in DOMAIN tree.groups
        /\ item.kind = "bookmark" => item.of \in DOMAIN tree.groups[item.group]
    BY <1>2, ItemsAre
  <2>2. /\ item.kind = "active" => Refers("active", item.of)
        /\ item.kind = "recent" => Refers("recent", item.of)
        /\ item.kind = "bookmark" => Refers("bookmark", item.of)
    BY <2>1 DEF ShownRefer
  <2>3. QED  BY <2>2 DEF Refers
<1>3. QED  BY <1>1, <1>2

LEMMA ClickKeeps ==
  ASSUME TreeInv, Clicked, ListsGrow, TreeStays, PickStays, HeldStay, FlagsStay
  PROVE  TreeInv'
<1>1. TreeTypes'
  BY DEF TreeInv, TreeTypes, Clicked, TreeStays, PickStays, HeldStay, FlagsStay
<1>2. ShownRefer'
  <2>1. \A d \in DOMAIN tree.active : Refers("active", d)'
    BY StillRefers DEF TreeInv, ShownRefer
  <2>2. \A e \in DOMAIN tree.recent : Refers("recent", e)'
    BY StillRefers DEF TreeInv, ShownRefer
  <2>3. \A g \in DOMAIN tree.groups : \A e \in DOMAIN tree.groups[g] : Refers("bookmark", e)'
    BY StillRefers DEF TreeInv, ShownRefer
  <2>4. QED  BY <2>1, <2>2, <2>3 DEF ShownRefer, TreeStays
<1>3. HeldRefer'
  <2>1. Refers(Chosen.kind, Chosen.of) /\ Refers(NoItem.kind, NoItem.of)
    BY ItemsRefer DEF TreeInv, HeldRefer
  <2>2. /\ Refers(carried'.item.kind, carried'.item.of)
        /\ Refers(prompt'.held.item.kind, prompt'.held.item.of)
    BY <2>1 DEF TreeInv, HeldRefer, HeldStay
  <2>3. PICK i, j : i = carried'.item /\ j = prompt'.held.item
    OBVIOUS
  <2>4. Refers(i.kind, i.of)' /\ Refers(j.kind, j.of)'
    BY <2>2, <2>3, StillRefers DEF TreeInv
  <2>5. Refers(carried.item.kind, carried.item.of)' /\ Refers(prompt.held.item.kind, prompt.held.item.of)'
    BY <2>3, <2>4 DEF Refers
  <2>6. QED  BY <2>5 DEF HeldRefer, PickStays, Chosen
<1>4. ActiveIsDue' /\ BookmarksAreDue'
  BY DEF TreeInv, ActiveIsDue, BookmarksAreDue, FlagsStay, Clicked
<1>5. QED  BY <1>1, <1>2, <1>3, <1>4 DEF TreeInv, ListsGrow

\* What is shown of the modems and ranges stands, and the recent modems are those there were, less
\* some.
LessRecents ==
    /\ air' = air /\ search' = search
    /\ tree'.active = tree.active /\ tree'.range = tree.range /\ book'.ranges = book.ranges
    /\ \A e \in ToSet(book'.recents) :
          /\ e \in ToSet(book.recents) /\ book'.title[e] = book.title[e]
          /\ e \in DOMAIN tree.recent => e \in DOMAIN tree'.recent /\ tree'.recent[e] = tree.recent[e]

LEMMA RaiseActive ==
  ASSUME TreeInv, Raise({"active"}), tree'.groups = tree.groups, book'.groups = book.groups,
         search' = search
  PROVE  FlagsStay
BY DEF TreeInv, TreeTypes, FlagsStay, BookmarksAreShown, Raise

LEMMA RaiseBookmarks ==
  ASSUME TreeInv, Raise({"bookmarks"}), LessRecents
  PROVE  FlagsStay
<1>1. ModemsAreShown => ModemsAreShown'
  BY DEF ModemsAreShown, LessRecents, IsFound
<1>2. RecentsAreShown => RecentsAreShown'
  BY DEF RecentsAreShown, LessRecents, IsFound
<1>3. QED  BY <1>1, <1>2 DEF TreeInv, TreeTypes, FlagsStay, Raise

LEMMA RaiseNothing ==
  ASSUME TreeInv, raised' = raised, book' = book, search' = search,
         air'.title = air.title, air'.on = air.on, air'.modems = air.modems,
         tree'.active = tree.active, tree'.range = tree.range,
         tree'.recent = tree.recent, tree'.groups = tree.groups
  PROVE  FlagsStay
BY DEF TreeInv, TreeTypes, FlagsStay, ModemsAreShown, RecentsAreShown, BookmarksAreShown, IsFound

LEMMA ClicksAreBounded ==
  ASSUME TreeInv, treeClicks < MaxTreeClicks, treeClicks' = treeClicks + 1
  PROVE  treeClicks' \in 0 .. MaxTreeClicks
<1>1. MaxTreeClicks \in Nat
  BY BookmarkTreeAssumption
<1>2. treeClicks \in 0 .. MaxTreeClicks
  BY DEF TreeInv, TreeTypes
<1>3. QED  BY <1>1, <1>2

LEMMA PanelOffers ==
  ASSUME TreeInv, NEW item
  PROVE  PanelOf(item).offers \subseteq TreeGroups /\ PanelFor(item).offers \subseteq TreeGroups
<1>1. DOMAIN book.groups \subseteq TreeGroups
  BY DEF TreeInv, BookSound
<1>2. \A i : PanelOf(i).offers \subseteq TreeGroups
  BY <1>1 DEF PanelOf
<1>3. QED  BY <1>2 DEF PanelFor, NoPanel

\* A click that leaves the tree, the drag and the prompt alone.
LEMMA PlainClick ==
  ASSUME TreeInv, UserClicks, UNCHANGED <<tree, search, carried, prompt>>
  PROVE  Clicked /\ TreeStays /\ HeldStay
<1>1. treeClicks' \in 0 .. MaxTreeClicks
  BY ClicksAreBounded DEF UserClicks
<1>2. QED  BY <1>1 DEF TreeInv, TreeTypes, UserClicks, Clicked, TreeStays, HeldStay

LEMMA PickIsKept ==
  ASSUME TreeInv, tree' = tree, pick' = pick, panel' = panel
  PROVE  PickStays
BY DEF TreeInv, TreeTypes, HeldRefer, PickStays, Chosen

LEMMA BookIsKept ==
  ASSUME TreeInv
  PROVE  BookSound(book) /\ BookGrows(book, book) /\ Len(air.title) =< Len(air.title)
<1>1. Len(book.title) \in Nat /\ Len(air.title) \in Nat
  BY DEF TreeInv, BookSound, AirSound
<1>2. QED  BY <1>1 DEF TreeInv, BookGrows

LEMMA AirKeeps ==
  ASSUME TreeInv, DOMAIN air' = DOMAIN air, air'.title = air.title, air'.on \subseteq air'.modems,
         air'.modems \subseteq air.modems
  PROVE  AirSound(air') /\ Len(air.title) =< Len(air'.title)
BY BookIsKept DEF TreeInv, AirSound

\* Which modem is current is nothing to the lists.
LEMMA CurrentIsApart ==
  ASSUME NEW a, NEW d, AirSound(a),
         NEW c \in {SetForGood(a, d), SetForNow(a, d), MakeCurrent(a, d)}
  PROVE  AirSound(c) /\ c.title = a.title /\ c.on = a.on /\ c.modems = a.modems
BY DEF AirSound, SetForGood, SetForNow, MakeCurrent

-----------------------------------------------------------------------------
(* BookmarkTree: the user.                                                 *)

LEMMA SelectKeeps ==
  ASSUME TreeInv, NEW item \in TreeItems(tree), OnTreeSelect(item)
  PROVE  TreeInv'
<1>1. /\ UserClicks /\ UNCHANGED <<book, tree, search, carried, prompt>>
      /\ pick' = [item |-> item, fallback |-> ""]
      /\ panel' = panel \/ panel' = PanelFor(item)
      /\ \/ air' = air /\ raised' = raised
         \/ air' = MakeCurrent(air, item.of) /\ Raise({"active"})
  BY DEF OnTreeSelect
<1>2. PickStays
  <2>1. panel'.offers \subseteq TreeGroups
    BY <1>1, PanelOffers DEF TreeInv, TreeTypes
  <2>2. QED  BY <1>1, <2>1 DEF PickStays
<1>3. AirSound(air') /\ air'.title = air.title
  <2>1. CASE air' = MakeCurrent(air, item.of)
    BY <2>1, CurrentIsApart DEF TreeInv
  <2>2. QED  BY <1>1, <2>1 DEF TreeInv
<1>4. ListsGrow
  BY <1>1, <1>3, BookIsKept DEF ListsGrow
<1>5. FlagsStay
  BY <1>1, RaiseActive, RaiseNothing
<1>6. QED  BY <1>1, <1>2, <1>4, <1>5, PlainClick, ClickKeeps

LEMMA ActivateModemKeeps ==
  ASSUME TreeInv, ActivateModem \/ OnDoubleClick
  PROVE  TreeInv'
<1>1. /\ UserClicks /\ UNCHANGED <<book, tree, search, carried, prompt, pick, panel>>
      /\ Raise({"active"})
      /\ air' = SetForGood(air, Chosen.of) \/ air' = MakeCurrent(air, Chosen.of)
  BY DEF ActivateModem, OnDoubleClick
<1>2. AirSound(air') /\ air'.title = air.title
  BY <1>1, CurrentIsApart DEF TreeInv
<1>3. ListsGrow
  BY <1>1, <1>2, BookIsKept DEF ListsGrow
<1>4. QED  BY <1>1, <1>3, PlainClick, PickIsKept, RaiseActive, ClickKeeps

\* Of some of the first n modems, one is the last.
LEMMA LastThereIs ==
  ASSUME NEW n \in Nat, NEW S \in SUBSET (1 .. n), S # {}
  PROVE  \E x \in S : \A y \in S : y =< x
<1> DEFINE R == {k \in Nat : \E x \in S : x = n - k}
<1>1. \A y \in S : n - y \in R /\ n - (n - y) = y
  <2>1. ASSUME NEW y \in S PROVE n - y \in Nat /\ n - (n - y) = y
    OBVIOUS
  <2>2. QED  BY <2>1
<1>2. R \subseteq Nat /\ R # {} /\ \A k \in R : \E x \in S : x = n - k
  BY <1>1
<1> HIDE DEF R
<1>3. PICK k \in R : \A l \in R : ~(<<l, k>> \in OpToRel(<, Nat))
  BY <1>2, NatLessThanWellFounded, WFMin
<1>4. PICK x \in S : x = n - k
  BY <1>2
<1>5. ASSUME NEW y \in S PROVE y =< x
  <2>1. n - y \in R /\ n - y \in Nat /\ k \in Nat
    BY <1>1, <1>2
  <2>2. ~(n - y < k)
    BY <1>3, <2>1 DEF OpToRel
  <2>3. QED  BY <1>4, <2>1, <2>2
<1>6. QED  BY <1>5

LEMMA ActivationSound ==
  ASSUME TreeInv, NEW e \in 1 .. Len(book.title), ActivateBookmarkItem(e)
  PROVE  AirSound(air') /\ Len(air.title) =< Len(air'.title)
<1> DEFINE same == {d \in air.modems : air.title[d] = book.title[e]}
           n == Len(air.title)
           d == IF same = {} THEN n + 1 ELSE CHOOSE x \in same : \A y \in same : y =< x
           a == IF same = {}
                THEN [air EXCEPT !.modems = @ \cup {d}, !.title = Append(@, book.title[e])] ELSE air
           o == [a EXCEPT !.on = @ \cup {d}]
<1>1. air' = SetForGood(o, d)
  BY DEF ActivateBookmarkItem
<1>2. /\ DOMAIN air = {"modems", "title", "on", "current", "context"} /\ air.title \in Seq(TitleValues)
      /\ n \in Nat /\ air.on \subseteq air.modems /\ air.modems \subseteq 1 .. n
      /\ book.title[e] \in TitleValues
  BY DEF TreeInv, AirSound, BookSound
<1>3. CASE same = {}
  <2>1. /\ DOMAIN o = DOMAIN air /\ o.modems = air.modems \cup {n + 1} /\ o.on = air.on \cup {n + 1}
        /\ o.title = Append(air.title, book.title[e])
    BY <1>2, <1>3
  <2> HIDE DEF o, d, a
  <2>2. o.title \in Seq(TitleValues) /\ Len(o.title) = n + 1
    BY <1>2, <2>1
  <2>3. 1 .. n \subseteq 1 .. n + 1 /\ n + 1 \in 1 .. n + 1 /\ n =< n + 1
    BY <1>2
  <2>4. AirSound(o)
    BY <1>2, <2>1, <2>2, <2>3 DEF AirSound
  <2>5. AirSound(air') /\ air'.title = o.title
    BY <1>1, <2>4, CurrentIsApart
  <2>6. QED  BY <2>2, <2>3, <2>5
<1>4. CASE same # {}
  <2>1. \E x \in same : \A y \in same : y =< x
    BY <1>2, <1>4, LastThereIs
  <2>2. d \in same
    BY <1>4, <2>1
  <2>3. /\ DOMAIN o = DOMAIN air /\ o.modems = air.modems /\ o.on = air.on \cup {d}
        /\ o.title = air.title
    BY <1>2, <1>4
  <2>4. d \in air.modems
    BY <2>2
  <2> HIDE DEF o, d, a
  <2>5. AirSound(o)
    BY <1>2, <2>3, <2>4 DEF AirSound
  <2>6. AirSound(air') /\ air'.title = o.title
    BY <1>1, <2>5, CurrentIsApart
  <2>7. QED  BY <1>2, <2>3, <2>6
<1>5. QED  BY <1>3, <1>4

LEMMA ActivateBookmarkKeeps ==
  ASSUME TreeInv, OnActivateBookmark \/ OnActivateRecent
  PROVE  TreeInv'
<1>1. /\ UserClicks /\ UNCHANGED <<tree, search, carried, prompt, panel>> /\ Raise({"active"})
      /\ pick' = [item |-> NoItem, fallback |-> ""]
      /\ ActivateBookmarkItem(Chosen.of) /\ Chosen.kind \in {"bookmark", "recent"}
      /\ book' = book \/ book' = WithoutRecent(book, Chosen.of)
  BY DEF OnActivateBookmark, OnActivateRecent, ActivateBookmarkItem, UserClicks
<1>2. Refers(Chosen.kind, Chosen.of)
  BY ItemsRefer DEF TreeInv, HeldRefer
<1>3. Chosen.of \in 1 .. Len(book.title)
  BY <1>1, <1>2 DEF Refers
<1>4. AirSound(air') /\ Len(air.title) =< Len(air'.title)
  BY <1>1, <1>3, ActivationSound
<1>5. BookSound(book') /\ BookGrows(book, book') /\ book'.groups = book.groups
  <2>1. CASE book' = WithoutRecent(book, Chosen.of)
    BY <2>1, WithoutRecentSound DEF TreeInv
  <2>2. CASE book' = book
    BY <2>2, BookIsKept
  <2>3. QED  BY <1>1, <2>1, <2>2
<1>6. ListsGrow
  BY <1>4, <1>5 DEF ListsGrow
<1>7. PickStays
  BY <1>1 DEF TreeInv, TreeTypes, PickStays
<1>8. FlagsStay
  BY <1>1, <1>5, RaiseActive
<1>9. QED  BY <1>1, <1>6, <1>7, <1>8, PlainClick, ClickKeeps

LEMMA RemoveModemSound ==
  ASSUME TreeInv, NEW d \in 1 .. Len(air.title), RemoveModem(d)
  PROVE  ListsGrow /\ book'.groups = book.groups
<1> DEFINE t == air.title[d]
<1>1. t \in TitleValues
  BY DEF TreeInv, AirSound
<1>2. book' = [book EXCEPT !.recents = LatestRecents(Append(@, Len(book.title) + 1)), !.title = Append(@, t)]
  BY DEF RemoveModem, ANewEntry
<1> HIDE DEF t
<1>3. BookSound(book') /\ BookGrows(book, book') /\ book'.groups = book.groups
  BY <1>1, <1>2, NewRecentSound DEF TreeInv
<1>4. /\ DOMAIN air' = DOMAIN air /\ air'.title = air.title
      /\ air'.on = air.on \ {d} /\ air'.modems = air.modems \ {d}
  BY DEF RemoveModem, TreeInv, AirSound
<1>5. AirSound(air') /\ Len(air.title) =< Len(air'.title)
  <2>1. air'.on \subseteq air'.modems /\ air'.modems \subseteq air.modems
    BY <1>4 DEF TreeInv, AirSound
  <2>2. QED  BY <1>4, <2>1, AirKeeps
<1>6. QED  BY <1>3, <1>5 DEF ListsGrow

LEMMA RemoveActiveKeeps ==
  ASSUME TreeInv, OnRemoveActive
  PROVE  TreeInv'
<1>1. /\ UserClicks /\ UNCHANGED <<tree, search, carried, prompt, pick, panel>> /\ Raise({"active"})
      /\ RemoveModem(Chosen.of) /\ Chosen.kind = "active"
  BY DEF OnRemoveActive
<1>2. Refers(Chosen.kind, Chosen.of)
  BY ItemsRefer DEF TreeInv, HeldRefer
<1>3. ListsGrow /\ book'.groups = book.groups
  BY <1>1, <1>2, RemoveModemSound DEF Refers
<1>4. QED  BY <1>1, <1>3, PlainClick, PickIsKept, RaiseActive, ClickKeeps

LEMMA RecentsKeep ==
  ASSUME TreeInv, OnRemoveRecent \/ OnAddRange
  PROVE  TreeInv'
<1>1. /\ UserClicks /\ UNCHANGED <<tree, search, carried, prompt, pick, panel, air>> /\ Raise({"active"})
      /\ \/ book' = WithoutRecent(book, Chosen.of)
         \/ book' = [book EXCEPT !.recents = <<>>]
         \/ \E r : book' = [book EXCEPT !.ranges = @ \cup {r}]
  BY DEF OnRemoveRecent, OnAddRange
<1>2. BookSound(book') /\ BookGrows(book, book') /\ book'.groups = book.groups
  <2>1. CASE book' = WithoutRecent(book, Chosen.of)
    BY <2>1, WithoutRecentSound DEF TreeInv
  <2>2. CASE book' = [book EXCEPT !.recents = <<>>]
    <3>1. /\ DOMAIN book' = DOMAIN book /\ book'.recents = << >> /\ book'.groups = book.groups
          /\ book'.title = book.title
      BY <2>2 DEF TreeInv, BookSound
    <3>2. /\ << >> \in Seq(1 .. Len(book.title)) /\ Len(<< >>) = 0 /\ ToSet(<< >>) = {}
          /\ 0 =< TreeRecentsMax /\ Len(book.title) \in Nat
      BY BookmarkTreeAssumption, BookIsKept DEF TreeInv, BookSound, ToSet
    <3>3. QED  BY <3>1, <3>2 DEF TreeInv, BookSound, BookGrows
  <2>3. CASE \E r : book' = [book EXCEPT !.ranges = @ \cup {r}]
    <3>1. /\ DOMAIN book' = DOMAIN book /\ book'.recents = book.recents /\ book'.groups = book.groups
          /\ book'.title = book.title
      BY <2>3 DEF TreeInv, BookSound
    <3>2. QED  BY <3>1, BookIsKept DEF TreeInv, BookSound, BookGrows
  <2>4. QED  BY <1>1, <2>1, <2>2, <2>3
<1>3. ListsGrow
  BY <1>1, <1>2, BookIsKept DEF TreeInv, ListsGrow
<1>4. QED  BY <1>1, <1>2, <1>3, PlainClick, PickIsKept, RaiseActive, ClickKeeps

LEMMA LabelKeeps ==
  ASSUME TreeInv, OnLabelText
  PROVE  TreeInv'
<1>1. UserClicks /\ UNCHANGED <<tree, search, carried, prompt, pick, panel>>
  BY DEF OnLabelText
<1>2. Refers(Chosen.kind, Chosen.of)
  BY ItemsRefer DEF TreeInv, HeldRefer
<1>3. ListsGrow /\ FlagsStay
  <2>1. CASE /\ Chosen.kind = "active" /\ \E t \in Titles : air' = [air EXCEPT !.title[Chosen.of] = t]
             /\ Raise({"active"}) /\ book' = book
    <3>1. PICK t \in TitleValues : air' = [air EXCEPT !.title[Chosen.of] = t]
      BY <2>1 DEF TitleValues
    <3>2. /\ DOMAIN air' = DOMAIN air /\ air'.on = air.on /\ air'.modems = air.modems
          /\ air'.title = [air.title EXCEPT ![Chosen.of] = t]
      BY <3>1 DEF TreeInv, AirSound
    <3>3. Chosen.of \in 1 .. Len(air.title) /\ air.title \in Seq(TitleValues)
      BY <1>2, <2>1 DEF Refers, TreeInv, AirSound
    <3>4. air'.title \in Seq(TitleValues) /\ Len(air'.title) = Len(air.title)
      BY <3>2, <3>3
    <3>5. AirSound(air') /\ Len(air.title) =< Len(air'.title)
      BY <3>2, <3>4, BookIsKept DEF TreeInv, AirSound
    <3>6. ListsGrow
      BY <2>1, <3>5, BookIsKept DEF ListsGrow
    <3>7. QED  BY <1>1, <2>1, <3>6, RaiseActive
  <2>2. CASE /\ Chosen.kind \in {"recent", "bookmark"}
             /\ \E t \in Titles : book' = [book EXCEPT !.title[Chosen.of] = t]
             /\ Raise(IF Chosen.kind = "recent" THEN {"active"} ELSE {"bookmarks"}) /\ air' = air
    <3>1. PICK t \in TitleValues : book' = [book EXCEPT !.title[Chosen.of] = t]
      BY <2>2 DEF TitleValues
    <3>2. PICK x : x = Chosen.of
      OBVIOUS
    <3>3. x \in 1 .. Len(book.title) /\ book' = [book EXCEPT !.title[x] = t]
      BY <1>2, <2>2, <3>1, <3>2 DEF Refers
    <3>4. /\ BookSound(book') /\ BookGrows(book, book') /\ book'.recents = book.recents
          /\ book'.groups = book.groups /\ book'.ranges = book.ranges
          /\ \A e \in 1 .. Len(book.title) : e # x => book'.title[e] = book.title[e]
      BY <3>3, RetitledSound DEF TreeInv
    <3>5. ListsGrow
      BY <2>2, <3>4, BookIsKept DEF ListsGrow, TreeInv
    <3>6. CASE Chosen.kind = "recent"
      <4>1. Raise({"active"})
        BY <2>2, <3>6
      <4>2. QED  BY <1>1, <3>4, <3>5, <4>1, RaiseActive
    <3>7. CASE Chosen.kind = "bookmark"
      <4>1. Raise({"bookmarks"})
        BY <2>2, <3>7
      <4>2. x \notin ToSet(book.recents) /\ ToSet(book.recents) \subseteq 1 .. Len(book.title)
        <5>1. book.recents \in Seq(1 .. Len(book.title))
          BY DEF TreeInv, BookSound
        <5>2. ToSet(book.recents) \subseteq 1 .. Len(book.title)
          BY <5>1 DEF ToSet
        <5>3. QED  BY <1>2, <3>2, <3>7, <5>2 DEF Refers
      <4>3. LessRecents
        BY <1>1, <2>2, <3>4, <4>2 DEF LessRecents
      <4>4. QED  BY <3>5, <4>1, <4>3, RaiseBookmarks
    <3>8. QED  BY <2>2, <3>6, <3>7
  <2>3. CASE /\ \E n \in TreeGroups : book' = RenameGroupTo(book, Chosen.group, n)
             /\ Raise({"bookmarks"}) /\ air' = air
    <3>1. /\ BookSound(book') /\ BookGrows(book, book') /\ book'.recents = book.recents
          /\ book'.ranges = book.ranges /\ book'.title = book.title
      BY <2>3, RenameSound DEF TreeInv
    <3>2. ListsGrow
      BY <2>3, <3>1, BookIsKept DEF ListsGrow, TreeInv
    <3>3. LessRecents
      BY <1>1, <2>3, <3>1 DEF LessRecents
    <3>4. QED  BY <2>3, <3>2, <3>3, RaiseBookmarks
  <2>4. QED  BY <2>1, <2>2, <2>3 DEF OnLabelText
<1>4. QED  BY <1>1, <1>3, PlainClick, PickIsKept, ClickKeeps

LEMMA FoldOrSearchKeeps ==
  ASSUME TreeInv, OnTreeFold \/ OnSearchText
  PROVE  TreeInv'
<1>1. /\ UserClicks /\ UNCHANGED <<book, air, pick, panel, carried, prompt>>
      /\ \/ UNCHANGED <<raised, search>>
         \/ search' = ~search /\ Raise({"active", "bookmarks"})
  BY DEF OnTreeFold, OnSearchText
<1>2. /\ DOMAIN tree' = DOMAIN tree /\ tree'.active = tree.active /\ tree'.range = tree.range
      /\ tree'.recent = tree.recent /\ tree'.groups = tree.groups
  <2>1. \/ tree' = tree
        \/ \E o : tree' = [tree EXCEPT !.open = o]
        \/ \E c : tree' = [tree EXCEPT !.closed = c]
    BY DEF OnTreeFold, OnSearchText
  <2>2. CASE \E o : tree' = [tree EXCEPT !.open = o]
    BY <2>2 DEF TreeInv, TreeTypes
  <2>3. CASE \E c : tree' = [tree EXCEPT !.closed = c]
    BY <2>3 DEF TreeInv, TreeTypes
  <2>4. QED  BY <2>1, <2>2, <2>3
<1>3. Clicked /\ TreeStays /\ HeldStay
  <2>1. treeClicks' \in 0 .. MaxTreeClicks
    BY <1>1, ClicksAreBounded DEF UserClicks
  <2>2. QED  BY <1>1, <1>2, <2>1 DEF TreeInv, TreeTypes, UserClicks, Clicked, TreeStays, HeldStay
<1>4. PickStays
  BY <1>1, <1>2, ItemsStay DEF TreeInv, TreeTypes, HeldRefer, PickStays, Chosen
<1>5. ListsGrow
  BY <1>1, BookIsKept DEF ListsGrow, TreeInv
<1>6. FlagsStay
  <2>1. CASE Raise({"active", "bookmarks"})
    BY <2>1 DEF Raise, FlagsStay, TreeInv, TreeTypes
  <2>2. CASE UNCHANGED <<raised, search>>
    BY <1>1, <1>2, <2>2, RaiseNothing
  <2>3. QED  BY <1>1, <2>1, <2>2
<1>7. QED  BY <1>3, <1>4, <1>5, <1>6, ClickKeeps

\* A modem is bookmarked as a new entry, a recent modem stops being one, a bookmark moves.
LEMMA BookmarkingSound ==
  ASSUME TreeInv, NEW item, Refers(item.kind, item.of), NEW g \in TreeGroups, DoBookmark(item, g)
  PROVE  /\ BookSound(book') /\ BookGrows(book, book') /\ book'.ranges = book.ranges
         /\ \A e \in ToSet(book'.recents) :
               /\ e \in ToSet(book.recents) /\ book'.title[e] = book.title[e]
               /\ item.kind = "recent" => e # item.of
         /\ panel'.offers \subseteq TreeGroups
         /\ Raise({"bookmarks"})
<1>1. /\ ToSet(book.recents) \subseteq 1 .. Len(book.title) /\ BookSound(book)
  <2>1. book.recents \in Seq(1 .. Len(book.title))
    BY DEF TreeInv, BookSound
  <2>2. QED  BY <2>1 DEF ToSet, TreeInv
<1>2. CASE /\ item.kind = "active" /\ panel' = panel
           /\ book' = [Put(book, g, ANewEntry) EXCEPT !.title = Append(@, air.title[item.of])]
  <2>1. PICK t : t = air.title[item.of]
    OBVIOUS
  <2>2. t \in TitleValues
    BY <1>2, <2>1 DEF Refers, TreeInv, AirSound
  <2>3. book' = [Put(book, g, Len(book.title) + 1) EXCEPT !.title = Append(@, t)]
    BY <1>2, <2>1 DEF ANewEntry
  <2>4. /\ BookSound(book') /\ BookGrows(book, book') /\ book'.ranges = book.ranges
        /\ book'.recents = book.recents
        /\ \A e \in 1 .. Len(book.title) : book'.title[e] = book.title[e]
    BY <1>1, <2>2, <2>3, NewBookmarkSound
  <2>5. QED  BY <1>1, <1>2, <2>4 DEF DoBookmark, TreeInv, TreeTypes
<1>3. CASE /\ item.kind = "recent"
           /\ book' = WithoutRecent(Put(book, g, item.of), item.of)
           /\ panel' = BookmarkSelection(book', item.of)
  \* The entry is put in the group while it is still a recent modem.
  <2> DEFINE e == item.of
             b == WithoutRecent(book, e)
  <2>1. e \in 1 .. Len(book.title)
    BY <1>3 DEF Refers
  <2>2. /\ BookSound(b) /\ BookGrows(book, b) /\ ToSet(b.recents) = ToSet(book.recents) \ {e}
        /\ b.groups = book.groups /\ b.ranges = book.ranges /\ b.title = book.title
    BY <1>1, WithoutRecentSound
  <2>3. Put(b, g, e) = WithoutRecent(Put(book, g, e), e)
    BY DEF Put, WithoutRecent, BookSound, TreeInv
  <2> HIDE DEF b
  <2>4. e \in (1 .. Len(b.title)) \ ToSet(b.recents)
    BY <2>1, <2>2
  <2>5. /\ BookSound(book') /\ BookGrows(b, book') /\ book'.recents = b.recents
        /\ book'.ranges = b.ranges /\ book'.title = b.title
    <3>1. PICK x : x = e
      OBVIOUS
    <3>2. x \in (1 .. Len(b.title)) \ ToSet(b.recents) /\ book' = Put(b, g, x)
      BY <1>3, <2>3, <2>4, <3>1
    <3>3. QED  BY <2>2, <3>2, PutSound
  <2>6. BookGrows(book, book')
    BY <2>2, <2>5 DEF BookGrows
  <2>7. panel'.offers \subseteq TreeGroups
    BY <1>3, <2>5 DEF BookmarkSelection, BookSound
  <2>8. QED  BY <1>3, <2>2, <2>5, <2>6, <2>7 DEF DoBookmark
<1>4. CASE /\ item.kind = "bookmark" /\ book' \in Move(book, item.of, g)
           /\ panel' = BookmarkSelection(book', item.of)
  <2>1. /\ BookSound(book') /\ BookGrows(book, book') /\ book'.ranges = book.ranges
        /\ book'.recents = book.recents /\ book'.title = book.title
    BY <1>1, <1>4, MoveSound
  <2>2. panel'.offers \subseteq TreeGroups
    BY <1>4, <2>1 DEF BookmarkSelection, BookSound
  <2>3. QED  BY <1>4, <2>1, <2>2 DEF DoBookmark
<1>5. QED  BY <1>2, <1>3, <1>4 DEF DoBookmark

LEMMA ChoiceKeeps ==
  ASSUME TreeInv, OnBookmarkChoice
  PROVE  TreeInv'
<1>1. UserClicks /\ UNCHANGED <<air, tree, pick, search, carried, prompt>>
  BY DEF OnBookmarkChoice
<1>2. PICK g \in TreeGroups : DoBookmark(Chosen, g)
  BY DEF OnBookmarkChoice, TreeInv, TreeTypes
<1>3. PICK item : item = Chosen
  OBVIOUS
<1>4. Refers(item.kind, item.of) /\ DoBookmark(item, g)
  BY <1>2, <1>3, ItemsRefer DEF TreeInv, HeldRefer
<1>5. /\ BookSound(book') /\ BookGrows(book, book') /\ book'.ranges = book.ranges
      /\ \A e \in ToSet(book'.recents) : e \in ToSet(book.recents) /\ book'.title[e] = book.title[e]
      /\ panel'.offers \subseteq TreeGroups /\ Raise({"bookmarks"})
  BY <1>4, BookmarkingSound
<1>6. ListsGrow
  BY <1>1, <1>5, BookIsKept DEF ListsGrow, TreeInv
<1>7. PickStays
  BY <1>1, <1>5 DEF PickStays, TreeInv, TreeTypes, HeldRefer, Chosen
<1>8. FlagsStay
  <2>1. LessRecents
    BY <1>1, <1>5 DEF LessRecents
  <2>2. QED  BY <1>5, <2>1, RaiseBookmarks
<1>9. QED  BY <1>1, <1>6, <1>7, <1>8, PlainClick, ClickKeeps

LEMMA HoldKeeps ==
  ASSUME TreeInv, OnTreeBeginDrag \/ OpenPrompt
  PROVE  TreeInv'
<1>1. /\ UserClicks /\ UNCHANGED <<book, air, tree, pick, panel, raised, search>>
      /\ \/ carried' = [item |-> Chosen, fresh |-> TRUE] /\ prompt' = prompt
         \/ /\ carried' = carried
            /\ \E asks : prompt' = [asks |-> asks, held |-> [item |-> Chosen, fresh |-> TRUE]]
  <2>1. ASSUME NEW asks, Ask(asks)
        PROVE  /\ UserClicks /\ UNCHANGED <<book, air, tree, pick, panel, raised, search, carried>>
               /\ prompt' = [asks |-> asks, held |-> [item |-> Chosen, fresh |-> TRUE]]
    BY <2>1 DEF Ask
  <2>2. OpenPrompt => \E asks : Ask(asks)
    BY DEF OpenPrompt
  <2>3. QED  BY <2>1, <2>2 DEF OnTreeBeginDrag
<1>2. HeldStay
  <2>1. PICK h : h = [item |-> Chosen, fresh |-> TRUE]
    OBVIOUS
  <2>2. DOMAIN h = {"item", "fresh"} /\ h.item = Chosen
    BY <2>1
  <2>3. CASE carried' = h /\ prompt' = prompt
    BY <2>2, <2>3 DEF HeldStay, TreeInv, TreeTypes
  <2>4. ASSUME NEW asks, carried' = carried, prompt' = [asks |-> asks, held |-> h]
        PROVE  HeldStay
    <3>1. DOMAIN prompt' = {"asks", "held"} /\ prompt'.held = h
      BY <2>4
    <3>2. QED  BY <2>2, <2>4, <3>1 DEF HeldStay, TreeInv, TreeTypes
  <2>5. QED  BY <1>1, <2>1, <2>3, <2>4
<1>3. Clicked /\ TreeStays
  <2>1. treeClicks' \in 0 .. MaxTreeClicks
    BY <1>1, ClicksAreBounded DEF UserClicks
  <2>2. QED  BY <1>1, <2>1 DEF TreeInv, TreeTypes, UserClicks, Clicked, TreeStays
<1>4. ListsGrow
  BY <1>1, BookIsKept DEF ListsGrow, TreeInv
<1>5. QED  BY <1>1, <1>2, <1>3, <1>4, PickIsKept, RaiseNothing, ClickKeeps

\* A recent modem that leaves its branch is a recent modem no longer.
LEMMA DropKeeps ==
  ASSUME TreeInv, OnTreeEndDrag
  PROVE  TreeInv'
<1>1. PICK item \in Recalled(carried), onto \in TreeItems(tree) :
          LET lands == onto = BranchItem("bookmark") \/ onto.kind \in {"group", "bookmark"}
              leaves == item.kind = "recent" /\ onto.kind \in {"group", "bookmark"} /\ carried.fresh
              t == [tree EXCEPT !.recent = [e \in DOMAIN @ \ (IF leaves THEN {item.of} ELSE {}) |-> @[e]]]
          IN /\ IF lands /\ item # NoItem THEN DoBookmark(item, Target(onto)) ELSE Ignored
             /\ tree' = t
             /\ pick' = IF Chosen \in TreeItems(t) \cup {NoItem} THEN pick ELSE PickAfter(t, NoItem, {"recent"})
  BY DEF OnTreeEndDrag
<1> DEFINE lands == onto = BranchItem("bookmark") \/ onto.kind \in {"group", "bookmark"}
           leaves == item.kind = "recent" /\ onto.kind \in {"group", "bookmark"} /\ carried.fresh
<1>2. /\ DOMAIN tree' = DOMAIN tree /\ tree'.active = tree.active /\ tree'.range = tree.range
      /\ tree'.groups = tree.groups
      /\ tree'.recent = [e \in DOMAIN tree.recent \ (IF leaves THEN {item.of} ELSE {}) |-> tree.recent[e]]
  BY <1>1 DEF TreeInv, TreeTypes
<1>3. pick' = IF Chosen \in TreeItems(tree') \cup {NoItem} THEN pick ELSE PickAfter(tree', NoItem, {"recent"})
  BY <1>1
<1>4. /\ tick = "idle" /\ carried' = Nobody /\ UNCHANGED <<air, tick, search, prompt, missed, treeClicks>>
      /\ IF lands /\ item # NoItem THEN DoBookmark(item, Target(onto)) ELSE Ignored
  BY <1>1 DEF OnTreeEndDrag
<1>5. Refers(item.kind, item.of)
  BY ItemsRefer DEF TreeInv, HeldRefer, Recalled
<1>6. lands => Target(onto) \in TreeGroups
  <2>1. onto.kind \in {"group", "bookmark"} => onto.group \in DOMAIN tree.groups
    BY ItemsAre
  <2>2. QED  BY <2>1, BookmarkTreeAssumption DEF Target, TreeInv, TreeTypes
<1>7. leaves => lands /\ item # NoItem
  BY ItemFields
<1> HIDE DEF lands
<1>8. Clicked /\ TreeStays /\ HeldStay
  BY <1>2, <1>4 DEF TreeInv, TreeTypes, Clicked, TreeStays, HeldStay, Nobody
<1>9. (pick'.item = NoItem \/ pick'.item \in TreeItems(tree')) /\ pick'.fallback \in BranchNames \cup {""}
  <2>1. CASE Chosen \in TreeItems(tree') \cup {NoItem}
    BY <1>3, <2>1 DEF Chosen, TreeInv, TreeTypes
  <2>2. CASE Chosen \notin TreeItems(tree') \cup {NoItem}
    <3>1. Chosen \in TreeItems(tree)
      BY <2>2 DEF TreeInv, HeldRefer
    <3>2. Chosen.kind = "recent"
      BY <1>2, <2>2, <3>1, ItemsStay
    <3>3. pick' = [item |-> NoItem, fallback |-> "recent"]
      BY <1>3, <2>2, <3>2 DEF PickAfter, BranchOf, Chosen
    <3>4. QED  BY <3>3 DEF BranchNames
  <2>3. QED  BY <2>1, <2>2
<1>10. CASE lands /\ item # NoItem
  <2>1. PICK g \in TreeGroups : DoBookmark(item, g)
    BY <1>4, <1>6, <1>10
  <2>2. /\ BookSound(book') /\ BookGrows(book, book') /\ book'.ranges = book.ranges
        /\ \A e \in ToSet(book'.recents) :
              /\ e \in ToSet(book.recents) /\ book'.title[e] = book.title[e]
              /\ item.kind = "recent" => e # item.of
        /\ panel'.offers \subseteq TreeGroups /\ Raise({"bookmarks"})
    BY <1>5, <2>1, BookmarkingSound
  <2>3. ListsGrow
    BY <1>4, <2>2, BookIsKept DEF ListsGrow, TreeInv
  <2>4. LessRecents
    <3>1. ASSUME NEW e \in ToSet(book'.recents), e \in DOMAIN tree.recent
          PROVE  e \in DOMAIN tree'.recent /\ tree'.recent[e] = tree.recent[e]
      BY <1>2, <2>2, <3>1
    <3>2. QED  BY <1>2, <1>4, <2>2, <3>1 DEF LessRecents
  <2>5. FlagsStay
    BY <2>2, <2>4, RaiseBookmarks
  <2>6. PickStays
    BY <1>9, <2>2 DEF PickStays
  <2>7. QED  BY <1>8, <2>3, <2>5, <2>6, ClickKeeps
<1>11. CASE ~(lands /\ item # NoItem)
  <2>1. UNCHANGED <<book, raised, panel>> /\ ~leaves
    BY <1>4, <1>7, <1>11 DEF Ignored
  <2>2. ListsGrow
    BY <1>4, <2>1, BookIsKept DEF ListsGrow, TreeInv
  <2>3. LessRecents
    <3>1. DOMAIN tree'.recent = DOMAIN tree.recent /\ \A e \in DOMAIN tree.recent : tree'.recent[e] = tree.recent[e]
      BY <1>2, <2>1
    <3>2. QED  BY <1>2, <1>4, <2>1, <3>1 DEF LessRecents
  <2>4. FlagsStay
    <3>1. ModemsAreShown => ModemsAreShown'
      BY <2>3 DEF ModemsAreShown, LessRecents, IsFound
    <3>2. RecentsAreShown => RecentsAreShown'
      BY <2>3 DEF RecentsAreShown, LessRecents, IsFound
    <3>3. BookmarksAreShown => BookmarksAreShown'
      BY <1>2, <1>4, <2>1 DEF BookmarksAreShown
    <3>4. QED  BY <2>1, <3>1, <3>2, <3>3 DEF FlagsStay, TreeInv, TreeTypes
  <2>5. PickStays
    BY <1>9, <2>1 DEF PickStays, TreeInv, TreeTypes
  <2>6. QED  BY <1>8, <2>2, <2>4, <2>5, ClickKeeps
<1>12. QED  BY <1>10, <1>11

LEMMA RemovalSound ==
  ASSUME TreeInv, RemoveAsked, air' = air, tree' = tree, search' = search
  PROVE  ListsGrow /\ FlagsStay
<1>1. CASE book' = [book EXCEPT !.ranges = @ \ {prompt.held.item.of}] /\ Raise({"active"})
  <2>1. /\ DOMAIN book' = DOMAIN book /\ book'.recents = book.recents /\ book'.groups = book.groups
        /\ book'.title = book.title
    BY <1>1 DEF TreeInv, BookSound
  <2>2. ListsGrow
    BY <2>1, BookIsKept DEF TreeInv, BookSound, BookGrows, ListsGrow
  <2>3. QED  BY <1>1, <2>1, <2>2, RaiseActive
<1>2. ASSUME DOMAIN book' = DOMAIN book, book'.recents = book.recents, book'.ranges = book.ranges,
             book'.title = book.title, DOMAIN book'.groups \subseteq TreeGroups,
             \A g \in DOMAIN book'.groups :
                book'.groups[g] = {} \/ (g \in DOMAIN book.groups /\ book'.groups[g] \subseteq book.groups[g]),
             Raise({"bookmarks"})
      PROVE  ListsGrow /\ FlagsStay
  <2>1. BookSound(book') /\ BookGrows(book, book')
    BY <1>2, FewerBookmarksSound DEF TreeInv
  <2>2. ListsGrow
    BY <2>1, BookIsKept DEF TreeInv, ListsGrow
  <2>3. LessRecents
    BY <1>2 DEF LessRecents
  <2>4. QED  BY <1>2, <2>2, <2>3, RaiseBookmarks
<1>3. CASE book' = [book EXCEPT !.groups = [g \in DOMAIN @ |-> @[g] \ {prompt.held.item.of}]] /\ Raise({"bookmarks"})
  <2>1. /\ DOMAIN book' = DOMAIN book /\ book'.recents = book.recents /\ book'.ranges = book.ranges
        /\ book'.title = book.title
        /\ book'.groups = [g \in DOMAIN book.groups |-> book.groups[g] \ {prompt.held.item.of}]
    BY <1>3 DEF TreeInv, BookSound
  <2>2. DOMAIN book.groups \subseteq TreeGroups
    BY DEF TreeInv, BookSound
  <2>3. QED  BY <1>2, <1>3, <2>1, <2>2
<1>4. CASE book' = [book EXCEPT !.groups = [g \in DOMAIN @ \ {prompt.held.item.group} |-> @[g]]] /\ Raise({"bookmarks"})
  <2>1. /\ DOMAIN book' = DOMAIN book /\ book'.recents = book.recents /\ book'.ranges = book.ranges
        /\ book'.title = book.title
        /\ book'.groups = [g \in DOMAIN book.groups \ {prompt.held.item.group} |-> book.groups[g]]
    BY <1>4 DEF TreeInv, BookSound
  <2>2. DOMAIN book.groups \subseteq TreeGroups
    BY DEF TreeInv, BookSound
  <2>3. QED  BY <1>2, <1>4, <2>1, <2>2
<1>5. CASE /\ \E g \in TreeGroups \ DOMAIN book.groups : book' = [book EXCEPT !.groups = [h \in DOMAIN @ \cup {g} |-> IF h = g THEN {} ELSE @[h]]]
           /\ Raise({"bookmarks"})
  <2>1. PICK g \in TreeGroups \ DOMAIN book.groups : book' = [book EXCEPT !.groups = [h \in DOMAIN @ \cup {g} |-> IF h = g THEN {} ELSE @[h]]]
    BY <1>5
  <2>2. /\ DOMAIN book' = DOMAIN book /\ book'.recents = book.recents /\ book'.ranges = book.ranges
        /\ book'.title = book.title /\ book'.groups = [h \in DOMAIN book.groups \cup {g} |-> IF h = g THEN {} ELSE book.groups[h]]
    BY <2>1 DEF TreeInv, BookSound
  <2>3. /\ DOMAIN book'.groups = DOMAIN book.groups \cup {g}
        /\ \A h \in DOMAIN book'.groups : book'.groups[h] = IF h = g THEN {} ELSE book.groups[h]
    BY <2>2
  <2>4. DOMAIN book.groups \subseteq TreeGroups
    BY DEF TreeInv, BookSound
  <2>5. QED  BY <1>2, <1>5, <2>2, <2>3, <2>4
<1>6. QED  BY <1>1, <1>3, <1>4, <1>5 DEF RemoveAsked

LEMMA AnswerKeeps ==
  ASSUME TreeInv, AnswerPrompt
  PROVE  TreeInv'
<1>1. /\ tick = "idle" /\ prompt' = [asks |-> "nothing", held |-> Nobody]
      /\ UNCHANGED <<air, tree, pick, tick, search, carried, missed, treeClicks>>
      /\ \/ Ignored
         \/ RemoveAsked /\ UNCHANGED panel
         \/ \E item \in Recalled(prompt.held) : \E g \in TreeGroups : DoBookmark(item, g)
  BY DEF AnswerPrompt
<1>2. Clicked /\ TreeStays /\ HeldStay
  BY <1>1 DEF TreeInv, TreeTypes, Clicked, TreeStays, HeldStay, Nobody
<1>3. ListsGrow /\ FlagsStay /\ panel'.offers \subseteq TreeGroups
  <2>1. CASE Ignored
    <3>1. UNCHANGED <<book, raised, panel>>
      BY <2>1 DEF Ignored
    <3>2. QED  BY <1>1, <3>1, BookIsKept, RaiseNothing DEF ListsGrow, TreeInv, TreeTypes
  <2>2. CASE RemoveAsked /\ UNCHANGED panel
    BY <1>1, <2>2, RemovalSound DEF TreeInv, TreeTypes
  <2>3. CASE \E item \in Recalled(prompt.held) : \E g \in TreeGroups : DoBookmark(item, g)
    <3>1. PICK item \in Recalled(prompt.held), g \in TreeGroups : DoBookmark(item, g)
      BY <2>3
    <3>2. Refers(item.kind, item.of)
      BY ItemsRefer DEF TreeInv, HeldRefer, Recalled
    <3>3. /\ BookSound(book') /\ BookGrows(book, book') /\ book'.ranges = book.ranges
          /\ \A e \in ToSet(book'.recents) : e \in ToSet(book.recents) /\ book'.title[e] = book.title[e]
          /\ panel'.offers \subseteq TreeGroups /\ Raise({"bookmarks"})
      BY <3>1, <3>2, BookmarkingSound
    <3>4. ListsGrow
      BY <1>1, <3>3, BookIsKept DEF ListsGrow, TreeInv
    <3>5. LessRecents
      BY <1>1, <3>3 DEF LessRecents
    <3>6. QED  BY <3>3, <3>4, <3>5, RaiseBookmarks
  <2>4. QED  BY <1>1, <2>1, <2>2, <2>3
<1>4. PickStays
  BY <1>1, <1>3 DEF PickStays, TreeInv, TreeTypes, HeldRefer, Chosen
<1>5. QED  BY <1>2, <1>3, <1>4, ClickKeeps

LEMMA ElsewhereKeeps ==
  ASSUME TreeInv, ModemsChangeElsewhere
  PROVE  TreeInv'
<1>1. UserClicks /\ UNCHANGED <<tree, pick, panel, search, carried, prompt>>
  BY DEF ModemsChangeElsewhere
<1>2. ListsGrow /\ FlagsStay
  <2>1. ASSUME NEW t \in TitleValues, NEW d, d = Len(air.title) + 1, Raise({"active"}), book' = book,
               air' = MakeCurrent([air EXCEPT !.modems = @ \cup {d}, !.on = @ \cup {d}, !.title = Append(@, t)], d)
        PROVE  ListsGrow /\ FlagsStay
    <3> DEFINE a == [air EXCEPT !.modems = @ \cup {d}, !.on = @ \cup {d}, !.title = Append(@, t)]
               n == Len(air.title)
    <3>1. /\ DOMAIN a = DOMAIN air /\ a.modems = air.modems \cup {n + 1} /\ a.on = air.on \cup {n + 1}
          /\ a.title = Append(air.title, t)
      BY <2>1 DEF TreeInv, AirSound
    <3>2. air' = MakeCurrent(a, d)
      BY <2>1
    <3> HIDE DEF a
    <3>3. a.title \in Seq(TitleValues) /\ Len(a.title) = n + 1 /\ n \in Nat
      BY <3>1 DEF TreeInv, AirSound
    <3>4. 1 .. n \subseteq 1 .. n + 1 /\ n + 1 \in 1 .. n + 1 /\ n =< n + 1
      BY <3>3
    <3>5. AirSound(a)
      BY <3>1, <3>3, <3>4 DEF AirSound, TreeInv
    <3>6. AirSound(air') /\ air'.title = a.title
      BY <3>2, <3>5, CurrentIsApart
    <3>7. ListsGrow
      BY <2>1, <3>3, <3>4, <3>6, BookIsKept DEF ListsGrow
    <3>8. QED  BY <1>1, <2>1, <3>7, RaiseActive
  <2>2. ASSUME NEW d \in air.modems, RemoveModem(d), Raise({"active"}) PROVE ListsGrow /\ FlagsStay
    BY <1>1, <2>2, RemoveModemSound, RaiseActive DEF TreeInv, AirSound
  <2>3. ASSUME NEW d \in air.modems, air' = [air EXCEPT !.on = IF d \in @ THEN @ \ {d} ELSE @ \cup {d}],
               Raise({"active"}), book' = book
        PROVE  ListsGrow /\ FlagsStay
    <3>1. /\ DOMAIN air' = DOMAIN air /\ air'.title = air.title /\ air'.modems = air.modems
          /\ air'.on \subseteq air.modems
      BY <2>3 DEF TreeInv, AirSound
    <3>2. AirSound(air') /\ Len(air.title) =< Len(air'.title)
      BY <3>1, AirKeeps
    <3>3. ListsGrow
      BY <2>3, <3>2, BookIsKept DEF ListsGrow
    <3>4. QED  BY <1>1, <2>3, <3>3, RaiseActive
  <2>4. ASSUME NEW d, air' = SetForNow(air, d), book' = book, raised' = raised PROVE ListsGrow /\ FlagsStay
    <3>1. AirSound(air') /\ air'.title = air.title /\ air'.on = air.on /\ air'.modems = air.modems
      BY <2>4, CurrentIsApart DEF TreeInv
    <3>2. ListsGrow
      BY <2>4, <3>1, BookIsKept DEF ListsGrow
    <3>3. QED  BY <1>1, <2>4, <3>1, <3>2, RaiseNothing
  <2>5. \/ \E t \in Titles : /\ air' = LET d == Len(air.title) + 1 IN
                                  MakeCurrent([air EXCEPT !.modems = @ \cup {d}, !.on = @ \cup {d}, !.title = Append(@, t)], d)
                             /\ Raise({"active"}) /\ book' = book
        \/ \E d \in air.modems : RemoveModem(d) /\ Raise({"active"})
        \/ \E d \in air.modems : /\ air' = [air EXCEPT !.on = IF d \in @ THEN @ \ {d} ELSE @ \cup {d}]
                                 /\ Raise({"active"}) /\ book' = book
        \/ \E d : air' = SetForNow(air, d) /\ book' = book /\ raised' = raised
    BY DEF ModemsChangeElsewhere
  <2>6. CASE \E t \in Titles : /\ air' = LET d == Len(air.title) + 1 IN
                                  MakeCurrent([air EXCEPT !.modems = @ \cup {d}, !.on = @ \cup {d}, !.title = Append(@, t)], d)
                               /\ Raise({"active"}) /\ book' = book
    <3>1. PICK t \in TitleValues :
              /\ air' = LET d == Len(air.title) + 1 IN
                     MakeCurrent([air EXCEPT !.modems = @ \cup {d}, !.on = @ \cup {d}, !.title = Append(@, t)], d)
              /\ Raise({"active"}) /\ book' = book
      BY <2>6 DEF TitleValues
    <3>2. QED  BY <2>1, <3>1
  <2>7. QED  BY <2>2, <2>3, <2>4, <2>5, <2>6
<1>3. QED  BY <1>1, <1>2, PlainClick, PickIsKept, ClickKeeps

\* Only the title of a modem that is not active changes without a word.
LEMMA ThreadsKeepTree ==
  ASSUME TreeInv, ThreadsChangeModems
  PROVE  TreeInv'
<1>1. /\ treeClicks < MaxTreeClicks /\ treeClicks' = treeClicks + 1 /\ missed' = (missed \/ tick = "built")
      /\ UNCHANGED <<book, tree, pick, panel, tick, search, carried, prompt>>
  BY DEF ThreadsChangeModems
<1>2. PICK d \in air.modems :
          \/ air' = SetForGood(air, d) /\ Raise({"active"})
          \/ /\ \E t \in Titles : air' = [air EXCEPT !.title[d] = t]
             /\ Raise(IF d \in air.on THEN {"active"} ELSE {})
  BY DEF ThreadsChangeModems
<1>3. Clicked /\ TreeStays /\ HeldStay
  <2>1. treeClicks' \in 0 .. MaxTreeClicks
    BY <1>1, ClicksAreBounded
  <2>2. BookmarksAreShown => BookmarksAreShown'
    BY <1>1 DEF BookmarksAreShown
  <2>3. QED  BY <1>1, <2>1, <2>2 DEF TreeInv, TreeTypes, Clicked, TreeStays, HeldStay
<1>4. ListsGrow /\ FlagsStay
  <2>1. CASE air' = SetForGood(air, d) /\ Raise({"active"})
    <3>1. AirSound(air') /\ air'.title = air.title
      BY <2>1, CurrentIsApart DEF TreeInv
    <3>2. ListsGrow
      BY <1>1, <3>1, BookIsKept DEF ListsGrow
    <3>3. QED  BY <1>1, <2>1, <3>2, RaiseActive
  <2>2. CASE /\ \E t \in Titles : air' = [air EXCEPT !.title[d] = t]
             /\ Raise(IF d \in air.on THEN {"active"} ELSE {})
    <3>1. PICK t \in TitleValues : air' = [air EXCEPT !.title[d] = t]
      BY <2>2 DEF TitleValues
    <3>2. /\ DOMAIN air' = DOMAIN air /\ air'.on = air.on /\ air'.modems = air.modems
          /\ air'.title = [air.title EXCEPT ![d] = t]
      BY <3>1 DEF TreeInv, AirSound
    <3>3. d \in 1 .. Len(air.title) /\ air.title \in Seq(TitleValues)
      BY DEF TreeInv, AirSound
    <3>4. /\ air'.title \in Seq(TitleValues) /\ Len(air'.title) = Len(air.title)
          /\ \A x \in 1 .. Len(air.title) : x # d => air'.title[x] = air.title[x]
      BY <3>2, <3>3
    <3>5. AirSound(air') /\ Len(air.title) =< Len(air'.title)
      BY <3>2, <3>4, BookIsKept DEF TreeInv, AirSound
    <3>6. ListsGrow
      BY <1>1, <3>5, BookIsKept DEF ListsGrow
    <3>7. CASE d \in air.on
      BY <1>1, <2>2, <3>6, <3>7, RaiseActive
    <3>8. CASE d \notin air.on
      <4>1. raised' = raised
        BY <2>2, <3>8 DEF Raise
      <4>2. \A x \in air.on : air'.title[x] = air.title[x]
        BY <3>4, <3>8 DEF TreeInv, AirSound
      <4>3. ModemsAreShown => ModemsAreShown'
        BY <1>1, <3>2, <4>2 DEF ModemsAreShown, IsFound
      <4>4. RecentsAreShown => RecentsAreShown'
        BY <1>1 DEF RecentsAreShown, IsFound
      <4>5. BookmarksAreShown => BookmarksAreShown'
        BY <1>1 DEF BookmarksAreShown
      <4>6. QED  BY <3>6, <4>1, <4>3, <4>4, <4>5 DEF FlagsStay, TreeInv, TreeTypes
    <3>9. QED  BY <3>7, <3>8
  <2>3. QED  BY <1>2, <2>1, <2>2
<1>5. QED  BY <1>1, <1>3, <1>4, PickIsKept, ClickKeeps

-----------------------------------------------------------------------------
(* BookmarkTree: the timer.                                                *)

LEMMA TitledAre ==
  ASSUME NEW S, NEW title, NEW f, f = Titled(S, title)
  PROVE  /\ \A x : x \in DOMAIN f <=> x \in S /\ IsFound(title[x])
         /\ DOMAIN f \subseteq S
         /\ \A x \in DOMAIN f : f[x] = title[x]
BY DEF Titled

\* Where no item was found to select.
LEMMA PickedIsShown ==
  ASSUME NEW t, NEW item, item = NoItem \/ item \in TreeItems(t), NEW branches \in SUBSET BranchNames,
         Chosen = NoItem \/ Chosen \in TreeItems(tree), pick.fallback \in BranchNames \cup {""},
         \A x \in TreeItems(tree) : x.kind = "branch" \/ BranchOf(x) \notin branches => x \in TreeItems(t)
  PROVE  LET p == PickAfter(t, item, branches)
         IN (p.item = NoItem \/ p.item \in TreeItems(t)) /\ p.fallback \in BranchNames \cup {""}
<1>1. CASE item # NoItem
  BY <1>1 DEF PickAfter
<1>2. CASE item = NoItem /\ BranchOf(pick.item) \in branches /\ pick.item.kind # "branch"
  BY <1>2 DEF PickAfter
<1>3. CASE item = NoItem /\ ~(BranchOf(pick.item) \in branches /\ pick.item.kind # "branch")
  <2>1. PickAfter(t, item, branches) = pick
    BY <1>3 DEF PickAfter
  <2>2. QED  BY <1>3, <2>1 DEF Chosen
<1>4. QED  BY <1>1, <1>2, <1>3

LEMMA SelectedIsShown ==
  ASSUME NEW t, Chosen = NoItem \/ Chosen \in TreeItems(tree)
  PROVE  SelectedAfter(t) = NoItem \/ SelectedAfter(t) \in TreeItems(t)
<1>1. /\ \A d \in DOMAIN t.active : Item("active", d, "") \in TreeItems(t)
      /\ \A r \in t.range : Item("range", r, "") \in TreeItems(t)
      /\ \A e \in DOMAIN t.recent : Item("recent", e, "") \in TreeItems(t)
  BY ItemsBelong
<1>2. PICK was : was = pick.item
  OBVIOUS
<1>3. /\ was.kind = "range" => was = Item("range", was.of, "")
      /\ was.kind = "recent" => was = Item("recent", was.of, "")
  <2>1. CASE was = NoItem
    BY <2>1, ItemFields
  <2>2. CASE was \in TreeItems(tree)
    BY <2>2, ItemsAre
  <2>3. QED  BY <1>2, <2>1, <2>2 DEF Chosen
<1>4. /\ was.kind = "range" /\ was.of \in t.range => was \in TreeItems(t)
      /\ was.kind = "recent" /\ was.of \in DOMAIN t.recent => was \in TreeItems(t)
  BY <1>1, <1>3
<1>5. QED  BY <1>1, <1>2, <1>4 DEF SelectedAfter

LEMMA ActiveListKeeps ==
  ASSUME TreeInv, DoUpdateActiveList
  PROVE  TreeInv'
<1> DEFINE t == [tree EXCEPT !.active = Titled(air.modems, air.title), !.range = book.ranges,
                             !.recent = Titled(ToSet(book.recents), book.title)]
           branches == {"active", "range", "recent"}
<1>1. /\ tree' = t /\ pick' = PickAfter(t, SelectedAfter(t), branches)
      /\ panel' = ActiveSelection(air.current) /\ carried' = Spoiled(carried, branches)
      /\ prompt' = [prompt EXCEPT !.held = Spoiled(@, branches)]
      /\ tick' = "built" /\ missed' = FALSE /\ UNCHANGED <<book, air, raised, search, treeClicks>>
  BY DEF DoUpdateActiveList
<1>2. /\ DOMAIN t = DOMAIN tree /\ t.groups = tree.groups /\ t.active = Titled(air.modems, air.title)
      /\ t.range = book.ranges /\ t.recent = Titled(ToSet(book.recents), book.title)
  BY DEF TreeInv, TreeTypes
<1> HIDE DEF t
<1>3. /\ DOMAIN carried' = DOMAIN carried /\ carried'.item = carried.item
      /\ DOMAIN prompt' = DOMAIN prompt /\ DOMAIN prompt'.held = DOMAIN prompt.held
      /\ prompt'.held.item = prompt.held.item
  BY <1>1 DEF Spoiled, TreeInv, TreeTypes
<1>4. (pick'.item = NoItem \/ pick'.item \in TreeItems(t)) /\ pick'.fallback \in BranchNames \cup {""}
  <2>1. Chosen = NoItem \/ Chosen \in TreeItems(tree)
    BY DEF TreeInv, HeldRefer
  <2>2. PICK item : item = SelectedAfter(t)
    OBVIOUS
  <2>3. item = NoItem \/ item \in TreeItems(t)
    BY <2>1, <2>2, SelectedIsShown
  <2>4. \A x \in TreeItems(tree) : x.kind = "branch" \/ BranchOf(x) \notin branches => x \in TreeItems(t)
    BY <1>2, ItemsStay
  <2>5. branches \in SUBSET BranchNames
    BY DEF BranchNames
  <2>6. pick' = PickAfter(t, item, branches)
    BY <1>1, <2>2
  <2> HIDE DEF branches
  <2>7. QED  BY <2>1, <2>3, <2>4, <2>5, <2>6, PickedIsShown DEF TreeInv, TreeTypes
<1>5. TreeTypes'
  <2>1. panel'.offers \subseteq TreeGroups
    BY <1>1 DEF ActiveSelection, NoPanel, PanelOf, NoItem, Item, TreeInv, BookSound
  <2>2. QED  BY <1>1, <1>2, <1>3, <1>4, <2>1 DEF TreeInv, TreeTypes
<1>6. ShownRefer'
  <2>1. DOMAIN t.active \subseteq 1 .. Len(air.title)
    <3>1. air.modems \subseteq 1 .. Len(air.title)
      BY DEF TreeInv, AirSound
    <3>2. DOMAIN t.active \subseteq air.modems
      BY <1>2, TitledAre
    <3>3. QED  BY <3>1, <3>2
  <2>2. DOMAIN t.recent \subseteq 1 .. Len(book.title)
    <3>1. book.recents \in Seq(1 .. Len(book.title))
      BY DEF TreeInv, BookSound
    <3>2. ToSet(book.recents) \subseteq 1 .. Len(book.title)
      BY <3>1 DEF ToSet
    <3>3. QED  BY <1>2, <3>2, TitledAre
  <2>3. QED  BY <1>1, <1>2, <2>1, <2>2 DEF ShownRefer, Refers, TreeInv
<1>7. HeldRefer'
  BY <1>1, <1>3, <1>4 DEF HeldRefer, Refers, TreeInv, Chosen
<1>8. (ModemsAreShown /\ RecentsAreShown)'
  <2>1. /\ \A d : d \in DOMAIN t.active <=> d \in air.modems /\ IsFound(air.title[d])
        /\ \A d \in DOMAIN t.active : t.active[d] = air.title[d]
        /\ DOMAIN t.active \subseteq air.modems
    BY <1>2, TitledAre
  <2>8. /\ \A e : e \in DOMAIN t.recent <=> e \in ToSet(book.recents) /\ IsFound(book.title[e])
        /\ \A e \in DOMAIN t.recent : t.recent[e] = book.title[e]
    BY <1>2, TitledAre
  <2>2. air.on \subseteq air.modems
    BY DEF TreeInv, AirSound
  <2>3. ~search => \A x : IsFound(x)
    BY DEF IsFound
  <2>4. \A x : IsFound(x)' = IsFound(x)
    BY <1>1 DEF IsFound
  <2>5. ModemsAreShown'
    BY <1>1, <2>1, <2>2, <2>3, <2>4 DEF ModemsAreShown
  <2>6. RecentsAreShown'
    BY <1>1, <1>2, <2>8, <2>4 DEF RecentsAreShown
  <2>7. QED  BY <2>5, <2>6
<1>9. ActiveIsDue' /\ BookmarksAreDue'
  <2>1. BookmarksAreShown => BookmarksAreShown'
    BY <1>1, <1>2 DEF BookmarksAreShown
  <2>2. QED  BY <1>1, <1>8, <2>1 DEF ActiveIsDue, BookmarksAreDue, TreeInv
<1>10. QED  BY <1>1, <1>5, <1>6, <1>7, <1>9 DEF TreeInv

LEMMA RefreshKeeps ==
  ASSUME TreeInv, RefreshBookmarks
  PROVE  TreeInv'
<1> DEFINE t == [tree EXCEPT !.groups = [g \in DOMAIN book.groups |-> Titled(book.groups[g], book.title)]]
<1>1. /\ "bookmarks" \in raised /\ tree' = t /\ carried' = Spoiled(carried, {"bookmark"})
      /\ prompt' = [prompt EXCEPT !.held = Spoiled(@, {"bookmark"})]
      /\ tick \in {"idle", "between"}
      /\ tick' = "refreshed" /\ UNCHANGED <<book, air, panel, raised, search, missed, treeClicks>>
  BY DEF RefreshBookmarks
<1>2. /\ DOMAIN t = DOMAIN tree /\ t.active = tree.active /\ t.range = tree.range /\ t.recent = tree.recent
      /\ t.groups = [g \in DOMAIN book.groups |-> Titled(book.groups[g], book.title)]
  BY DEF TreeInv, TreeTypes
<1>3. /\ DOMAIN carried' = DOMAIN carried /\ carried'.item = carried.item
      /\ DOMAIN prompt' = DOMAIN prompt /\ DOMAIN prompt'.held = DOMAIN prompt.held
      /\ prompt'.held.item = prompt.held.item
  BY <1>1 DEF Spoiled, TreeInv, TreeTypes
<1>4. (pick'.item = NoItem \/ pick'.item \in TreeItems(t)) /\ pick'.fallback \in BranchNames \cup {""}
  <2>1. \/ pick' = PickAfter(t, NoItem, {"bookmark"})
        \/ \E item : pick' = [item |-> item, fallback |-> ""] /\
             \/ \E g \in DOMAIN t.groups : item = Item("group", 0, g)
             \/ \E g \in DOMAIN t.groups : \E e \in DOMAIN t.groups[g] : item = Item("bookmark", e, g)
    BY DEF RefreshBookmarks
  <2> HIDE DEF t
  <2>2. CASE pick' = PickAfter(t, NoItem, {"bookmark"})
    <3>1. \A x \in TreeItems(tree) : x.kind = "branch" \/ BranchOf(x) \notin {"bookmark"} => x \in TreeItems(t)
      BY <1>2, ItemsStay
    <3>2. {"bookmark"} \in SUBSET BranchNames
      BY DEF BranchNames
    <3>3. (Chosen = NoItem \/ Chosen \in TreeItems(tree)) /\ pick.fallback \in BranchNames \cup {""}
      BY DEF TreeInv, HeldRefer, TreeTypes
    <3>4. QED  BY <2>2, <3>1, <3>2, <3>3, PickedIsShown
  <2>3. CASE \E item : pick' = [item |-> item, fallback |-> ""] /\
             \/ \E g \in DOMAIN t.groups : item = Item("group", 0, g)
             \/ \E g \in DOMAIN t.groups : \E e \in DOMAIN t.groups[g] : item = Item("bookmark", e, g)
    <3>1. PICK item : pick' = [item |-> item, fallback |-> ""] /\
             \/ \E g \in DOMAIN t.groups : item = Item("group", 0, g)
             \/ \E g \in DOMAIN t.groups : \E e \in DOMAIN t.groups[g] : item = Item("bookmark", e, g)
      BY <2>3
    <3>2. item \in TreeItems(t)
      BY <3>1, ItemsBelong
    <3>3. QED  BY <3>1, <3>2
  <2>4. QED  BY <2>1, <2>2, <2>3
<1>5. /\ DOMAIN t.groups = DOMAIN book.groups
      /\ \A g \in DOMAIN book.groups :
            /\ \A e : e \in DOMAIN t.groups[g] <=> e \in book.groups[g] /\ IsFound(book.title[e])
            /\ DOMAIN t.groups[g] \subseteq book.groups[g]
  <2>1. ASSUME NEW g \in DOMAIN book.groups
        PROVE  /\ \A e : e \in DOMAIN t.groups[g] <=> e \in book.groups[g] /\ IsFound(book.title[e])
               /\ DOMAIN t.groups[g] \subseteq book.groups[g]
    <3>1. t.groups[g] = Titled(book.groups[g], book.title)
      BY <1>2
    <3>2. QED  BY <3>1, TitledAre
  <2>2. QED  BY <1>2, <2>1
<1> HIDE DEF t
<1>6. TreeTypes'
  BY <1>1, <1>2, <1>3, <1>4, <1>5 DEF TreeInv, TreeTypes, BookSound
<1>7. ShownRefer'
  <2>1. \A g \in DOMAIN t.groups : DOMAIN t.groups[g] \subseteq (1 .. Len(book.title)) \ ToSet(book.recents)
    BY <1>5 DEF TreeInv, BookSound
  <2>2. QED  BY <1>1, <1>2, <2>1 DEF ShownRefer, Refers, TreeInv
<1>8. HeldRefer'
  BY <1>1, <1>3, <1>4 DEF HeldRefer, Refers, TreeInv, Chosen
<1>9. BookmarksAreShown'
  BY <1>1, <1>5 DEF BookmarksAreShown, IsFound
<1>10. ActiveIsDue' /\ BookmarksAreDue'
  <2>1. ModemsAreShown /\ RecentsAreShown => (ModemsAreShown /\ RecentsAreShown)'
    BY <1>1, <1>2 DEF ModemsAreShown, RecentsAreShown, IsFound
  <2>2. QED  BY <1>1, <1>9, <2>1 DEF ActiveIsDue, BookmarksAreDue, TreeInv
<1>11. QED  BY <1>1, <1>6, <1>7, <1>8, <1>10 DEF TreeInv

\* A flag that is cleared is that of a branch that shows what there is.
LEMMA ClearKeeps ==
  ASSUME TreeInv, ClearUpdateActive \/ ClearUpdateBookmarks \/ EndTick
  PROVE  TreeInv'
<1>1. UNCHANGED <<book, air, tree, pick, panel, search, carried, prompt, missed, treeClicks>>
  BY DEF ClearUpdateActive, ClearUpdateBookmarks, EndTick
<1>2. TreeTypes'
  BY <1>1 DEF ClearUpdateActive, ClearUpdateBookmarks, EndTick, TreeInv, TreeTypes
<1>3. ShownRefer' /\ HeldRefer'
  BY <1>1 DEF TreeInv, ShownRefer, HeldRefer, Refers, Chosen
<1>4. /\ ModemsAreShown' <=> ModemsAreShown
      /\ RecentsAreShown' <=> RecentsAreShown
      /\ BookmarksAreShown' <=> BookmarksAreShown
  BY <1>1 DEF ModemsAreShown, RecentsAreShown, BookmarksAreShown, IsFound
<1>5. ActiveIsDue' /\ BookmarksAreDue'
  BY <1>1, <1>4 DEF ClearUpdateActive, ClearUpdateBookmarks, EndTick, ActiveIsDue, BookmarksAreDue, TreeInv
<1>6. QED  BY <1>1, <1>2, <1>3, <1>5 DEF TreeInv

LEMMA BranchSelectKeeps ==
  ASSUME TreeInv, SelectBranchWhenIdle
  PROVE  TreeInv'
<1>1. /\ tick = "idle" /\ pick.fallback # "" /\ pick' = [item |-> BranchItem(pick.fallback), fallback |-> ""]
      /\ panel' = panel \/ panel' = PanelFor(BranchItem(pick.fallback))
      /\ UNCHANGED <<book, air, tree, raised, tick, search, carried, prompt, missed, treeClicks>>
  BY DEF SelectBranchWhenIdle
<1>2. PickStays
  <2>1. BranchItem(pick.fallback) \in TreeItems(tree)
    BY <1>1, ItemsBelong DEF TreeInv, TreeTypes
  <2>2. panel'.offers \subseteq TreeGroups
    BY <1>1, PanelOffers DEF TreeInv, TreeTypes
  <2>3. QED  BY <1>1, <2>1, <2>2 DEF PickStays
<1>3. Clicked /\ TreeStays /\ HeldStay
  BY <1>1 DEF TreeInv, TreeTypes, Clicked, TreeStays, HeldStay
<1>4. ListsGrow
  BY <1>1, BookIsKept DEF ListsGrow, TreeInv
<1>5. QED  BY <1>1, <1>2, <1>3, <1>4, RaiseNothing, ClickKeeps

-----------------------------------------------------------------------------
(* BookmarkTree: the theorems.                                             *)

LEMMA TreeStarts ==
  ASSUME BookmarkTreeInit
  PROVE  TreeInv
<1>1. TreeTypes
  <2>1. /\ DOMAIN tree = {"active", "range", "recent", "groups", "open", "closed"}
        /\ tree.groups = [g \in {} |-> {}] /\ raised = {"active", "bookmarks"}
        /\ search = FALSE /\ missed = FALSE /\ tick = "idle"
    BY DEF BookmarkTreeInit
  <2>2. DOMAIN carried = {"item", "fresh"}
    BY DEF BookmarkTreeInit, Nobody
  <2>3. DOMAIN prompt = {"asks", "held"} /\ DOMAIN prompt.held = {"item", "fresh"}
    BY DEF BookmarkTreeInit, Nobody
  <2>4. panel.offers \subseteq TreeGroups
    <3>1. panel = NoPanel
      BY DEF BookmarkTreeInit
    <3>2. PanelOf(NoItem).offers = {}
      BY ItemFields DEF PanelOf
    <3>3. QED  BY <3>1, <3>2 DEF NoPanel
  <2>5. pick.fallback \in BranchNames \cup {""}
    BY DEF BookmarkTreeInit
  <2>6. treeClicks \in 0 .. MaxTreeClicks
    <3>1. treeClicks = 0
      BY DEF BookmarkTreeInit
    <3>2. MaxTreeClicks \in Nat
      BY BookmarkTreeAssumption
    <3>3. QED  BY <3>1, <3>2
  <2>7. QED  BY <2>1, <2>2, <2>3, <2>4, <2>5, <2>6 DEF TreeTypes
<1>2. BookSound(book)
  <2>1. /\ DOMAIN book = {"groups", "recents", "ranges", "title"} /\ book.recents = <<2>>
        /\ book.title = <<1, 2>> /\ book.groups = [g \in {UnnamedGroup} |-> {1}]
    BY DEF BookmarkTreeInit
  <2>2. <<1, 2>> \in Seq(TitleValues) /\ Len(<<1, 2>>) = 2
    BY DEF TitleValues
  <2>3. <<2>> \in Seq(1 .. 2) /\ Len(<<2>>) = 1 /\ ToSet(<<2>>) = {2}
    BY DEF ToSet
  <2>4. DOMAIN book.groups = {UnnamedGroup} /\ book.groups[UnnamedGroup] = {1}
    BY <2>1
  <2>5. \A i, j \in 1 .. 1 : ~(i < j)
    OBVIOUS
  <2>6. 1 =< TreeRecentsMax /\ UnnamedGroup \in TreeGroups
    BY BookmarkTreeAssumption
  <2>7. {1} \subseteq (1 .. 2) \ {2}
    OBVIOUS
  <2>8. QED  BY <2>1, <2>2, <2>3, <2>4, <2>5, <2>6, <2>7 DEF BookSound
<1>3. AirSound(air)
  <2>1. <<1>> \in Seq(TitleValues) /\ Len(<<1>>) = 1
    BY DEF TitleValues
  <2>2. /\ DOMAIN air = {"modems", "title", "on", "current", "context"}
        /\ air.title = <<1>> /\ air.on = {1} /\ air.modems = {1}
    BY DEF BookmarkTreeInit
  <2>3. QED  BY <2>1, <2>2 DEF AirSound
<1>4. ShownRefer /\ HeldRefer
  BY DEF BookmarkTreeInit, ShownRefer, HeldRefer, Chosen, Nobody, NoItem, Item, Refers
<1>5. ActiveIsDue /\ BookmarksAreDue
  BY DEF BookmarkTreeInit, ActiveIsDue, BookmarksAreDue
<1>6. QED  BY <1>1, <1>2, <1>3, <1>4, <1>5 DEF TreeInv

LEMMA TreeSteps ==
  ASSUME TreeInv, BookmarkTreeNext
  PROVE  TreeInv'
<1>1. CASE Timer
  BY <1>1, ActiveListKeeps, RefreshKeeps, ClearKeeps, BranchSelectKeeps DEF Timer
<1>2. CASE \E item \in TreeItems(tree) : OnTreeSelect(item)
  BY <1>2, SelectKeeps
<1>3. CASE ActivateModem \/ OnActivateBookmark \/ OnActivateRecent \/ OnRemoveActive \/ OnDoubleClick
           \/ OnRemoveRecent \/ OnAddRange \/ OnLabelText \/ OnTreeFold \/ OnSearchText
  BY <1>3, ActivateModemKeeps, ActivateBookmarkKeeps, RemoveActiveKeeps, RecentsKeep, LabelKeeps,
     FoldOrSearchKeeps
<1>4. CASE OnBookmarkChoice \/ OnTreeBeginDrag \/ OnTreeEndDrag \/ OpenPrompt \/ AnswerPrompt
           \/ ModemsChangeElsewhere \/ ThreadsChangeModems
  BY <1>4, ChoiceKeeps, HoldKeeps, DropKeeps, AnswerKeeps, ElsewhereKeeps, ThreadsKeepTree
<1>5. QED  BY <1>1, <1>2, <1>3, <1>4 DEF BookmarkTreeNext

\* What the tree shows of the lists, what its items refer to, and which flag is up where they differ.
THEOREM TreeInvariant == BookmarkTreeSpec => []TreeInv
<1>1. BookmarkTreeInit => TreeInv
  BY TreeStarts
<1>2. TreeInv /\ [BookmarkTreeNext]_treeVars => TreeInv'
  <2>1. ASSUME TreeInv, UNCHANGED treeVars PROVE TreeInv'
    <3>1. UNCHANGED <<book, air, tree, pick, panel, raised, tick, search, carried, prompt, missed, treeClicks>>
      BY <2>1 DEF treeVars
    <3>2. TreeTypes'
      BY <2>1, <3>1 DEF TreeInv, TreeTypes
    <3>3. ShownRefer' /\ HeldRefer'
      BY <2>1, <3>1 DEF TreeInv, ShownRefer, HeldRefer, Refers, Chosen
    <3>4. ActiveIsDue' /\ BookmarksAreDue'
      BY <2>1, <3>1 DEF TreeInv, ActiveIsDue, BookmarksAreDue, ModemsAreShown, RecentsAreShown,
                        BookmarksAreShown, IsFound
    <3>5. QED  BY <2>1, <3>1, <3>2, <3>3, <3>4 DEF TreeInv
  <2>2. QED  BY <2>1, TreeSteps
<1>3. QED  BY <1>1, <1>2, PTL DEF BookmarkTreeSpec

\* The variables of BookmarkTree have their types.
THEOREM TreeTypeCorrect == BookmarkTreeSpec => []BookmarkTreeTypeOK
<1>1. TreeInv => BookmarkTreeTypeOK
  <2>1. AirSound(air) => air.modems \subseteq DOMAIN air.title
    BY DEF AirSound
  <2>2. QED  BY <2>1 DEF TreeInv, TreeTypes, BookSound, AirSound, HeldRefer, BookmarkTreeTypeOK
<1>2. QED  BY <1>1, TreeInvariant, PTL

\* However many modems, entries, groups and ranges there are, whatever the user clicks, drags and
\* answers while the timer and the other threads go on.
THEOREM TreeStaysTrue == BookmarkTreeSpec => []TreeIsTrue
<1>1. TreeInv => TreeIsTrue
  <2> SUFFICES ASSUME TreeInv PROVE TreeIsTrue
    OBVIOUS
  <2>1. ToSet(book.recents) \cap UNION {book.groups[g] : g \in DOMAIN book.groups} = {}
    BY DEF TreeInv, BookSound
  <2>2. ASSUME raised = {}, tick = "idle", ~missed
        PROVE  ModemsAreShown /\ RecentsAreShown /\ BookmarksAreShown
    BY <2>2 DEF TreeInv, ActiveIsDue, BookmarksAreDue
  <2>3. \A k \in DOMAIN book.recents : book.recents[k] \in ToSet(book.recents)
    BY DEF ToSet
  <2>4. QED  BY <2>1, <2>2, <2>3 DEF TreeIsTrue, ModemsAreShown, RecentsAreShown, BookmarksAreShown
<1>2. QED  BY <1>1, TreeInvariant, PTL
=============================================================================
