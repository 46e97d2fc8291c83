------------------------------------- MODULE Lux -------------------------------------
(***************************************************************************)
(* The raw image reader of lux (lux/src/parser.rs): the walk over the      *)
(* directories of a TIFF file, the ARW2 decoder and the demosaicing.  A    *)
(* file is its chain of directories, each a record of the tags it has and  *)
(* of the directory that follows; a tag it lacks is Absent.  Sizes are in  *)
(* bytes; a product of two u32 wraps at Wide, as in a release build.       *)
(***************************************************************************)
EXTENDS Integers, Sequences

Absent == << >>       \* and a tag that is there is <<its value>>
Wide == 256            \* bound: stands for 2^32
Short == 65536         \* one more than a u16 holds
MaxValue == 16383      \* of 14 bits

Failed(why) == [result |-> "error", why |-> why]

\* What the walk keeps, from one directory to the next: tags are never reset.
Start(first) == [at |-> first, width |-> 0, height |-> 0, compression |-> 0,
                 offsets |-> << >>, counts |-> << >>, status |-> "walk"]
Or(tag, old) == IF tag = Absent THEN old ELSE tag[1]

\* Mutant: the first value of a size stays.
TagsFirstWins(w, d) ==
  [w EXCEPT !.width = IF @ # 0 THEN @ ELSE Or(d.width, @),
            !.height = IF @ # 0 THEN @ ELSE Or(d.height, @),
            !.compression = Or(d.compression, @) % Short,
            !.offsets = Or(d.offsets, @), !.counts = Or(d.counts, @)]
Tags(w, d) ==
  [at |-> w.at, width |-> Or(d.width, w.width), height |-> Or(d.height, w.height),
   compression |-> Or(d.compression, w.compression) % Short,
   offsets |-> Or(d.offsets, w.offsets), counts |-> Or(d.counts, w.counts),
   status |-> w.status]

IsRaw(w) == w.offsets # << >> /\ w.compression \in {1, 32769, 32767}

\* One directory, named by its index in dirs; 0 is no next directory.
Walk(w, dirs) ==
  IF w.status # "walk" THEN w
  ELSE IF dirs[w.at].truncated THEN [w EXCEPT !.status = "corrupt"]
  ELSE LET t == Tags(w, dirs[w.at])
       IN IF IsRaw(t) THEN [t EXCEPT !.status = "raw"]
          ELSE IF dirs[w.at].next \notin DOMAIN dirs THEN [t EXCEPT !.status = "missing"]
          ELSE [t EXCEPT !.at = dirs[w.at].next]

\* "To prevent infinite loops with corrupted files", at most ten.
Walked(dirs) ==
  LET after[n \in 0 .. 10] == IF n = 0 THEN Start(1) ELSE Walk(after[n - 1], dirs)
  IN after[10]

PixelCount(w) == (w.width * w.height) % Wide

\* Demosaicing panics on rows of no pixels (chunks of length zero) and on the first
\* sample that is not there.
Demosaiced(w, samples) ==
  IF w.width = 0 \/ samples < w.width * w.height THEN "panic" ELSE "image"

parse_arw(dirs, size) ==
  LET w == Walked(dirs)
      samples == IF w.compression = 1 THEN w.counts[1] \div 2 ELSE PixelCount(w)
  IN IF w.status = "corrupt" THEN Failed("CorruptData")
     ELSE IF w.status \in {"missing", "walk"} THEN Failed("MissingData")
     ELSE IF w.compression \notin {1, 32769} THEN Failed("UnsupportedCompression")
     ELSE IF w.counts = << >> THEN Failed("MissingData")
     ELSE IF w.offsets[1] + w.counts[1] > size THEN Failed("CorruptData")
     ELSE IF w.compression = 1 /\ w.counts[1] < PixelCount(w) * 2 THEN Failed("CorruptData")
     ELSE [result |-> Demosaiced(w, samples), from |-> w.at, width |-> w.width, height |-> w.height]

--------------------------------------------------------------------------------
(* ARW2: blocks of a 4-bit index, an 11-bit base and up to 15 signed 7-bit  *)
(* deltas.  data is the stream of these fields; a field past its end is      *)
(* missing.                                                                  *)

Clamp(v, lo, hi) == IF v < lo THEN lo ELSE IF v > hi THEN hi ELSE v
SignExtend(raw) == IF raw >= 64 THEN raw - 128 ELSE raw

\* The decoder's state: the pixels so far, the fields read, the place in the block.
Pixel(s, value, fields) ==
  [bayer |-> Append(s.bayer, value), read |-> s.read + fields, inBlock |-> s.inBlock + 1, stop |-> s.stop]
Decode(s, data, count) ==
  IF s.stop \/ Len(s.bayer) >= count THEN s
  ELSE IF s.inBlock = 0
    THEN IF s.read + 2 > Len(data) THEN [s EXCEPT !.stop = TRUE]
         ELSE Pixel(s, (data[s.read + 2] * 2) % 65536, 2)
  ELSE IF s.inBlock > 15 \/ s.read + 1 > Len(data) THEN [s EXCEPT !.inBlock = 0]
  ELSE Pixel(s, Clamp(s.bayer[Len(s.bayer)] + SignExtend(data[s.read + 1]), 0, MaxValue), 1)

Padded(bayer, count) == [i \in 1 .. count |-> IF i <= Len(bayer) THEN bayer[i] ELSE 0]

decompress_arw2(data, count) ==
  LET after[n \in 0 .. 2 * (count + 2)] ==
        IF n = 0 THEN [bayer |-> << >>, read |-> 0, inBlock |-> 0, stop |-> FALSE]
        ELSE Decode(after[n - 1], data, count)
  IN Padded(after[2 * (count + 2)].bayer, count)

--------------------------------------------------------------------------------
(* Demosaicing, RGGB.  The values are four times the code's. *)

At(bayer, width, height, x, y) ==
  bayer[Clamp(y, 0, height - 1) * width + Clamp(x, 0, width - 1) + 1]

\* Mutant: for a green pixel the row's and the column's neighbours are exchanged.
demosaic_turned(bayer, width, height, x, y) ==
  LET p(dx, dy) == At(bayer, width, height, x + dx, y + dy)
      here == 4 * p(0, 0)
      sides == 2 * (p(-1, 0) + p(1, 0))
      ends == 2 * (p(0, -1) + p(0, 1))
      cross == p(-1, 0) + p(1, 0) + p(0, -1) + p(0, 1)
      corners == p(-1, -1) + p(1, -1) + p(-1, 1) + p(1, 1)
  IN IF x % 2 = y % 2
     THEN IF y % 2 = 0 THEN <<here, cross, corners>> ELSE <<corners, cross, here>>
     ELSE IF y % 2 = 0 THEN <<ends, here, sides>> ELSE <<sides, here, ends>>

demosaic(bayer, width, height, x, y) ==
  LET p(dx, dy) == At(bayer, width, height, x + dx, y + dy)
      here == 4 * p(0, 0)
      sides == 2 * (p(-1, 0) + p(1, 0))
      ends == 2 * (p(0, -1) + p(0, 1))
      cross == p(-1, 0) + p(1, 0) + p(0, -1) + p(0, 1)
      corners == p(-1, -1) + p(1, -1) + p(-1, 1) + p(1, 1)
  IN IF x % 2 = y % 2
     THEN IF y % 2 = 0 THEN <<here, cross, corners>> ELSE <<corners, cross, here>>
     ELSE IF y % 2 = 0 THEN <<sides, here, ends>> ELSE <<ends, here, sides>>

--------------------------------------------------------------------------------
\* The directories one after the other, as each names the next.
Chain(dirs) ==
  LET at[n \in 0 .. 9] == IF n = 0 THEN 1 ELSE dirs[at[n - 1]].next
  IN at

\* Directory m of the chain is the last, up to the n-th, that has the tag.
LastWith(tag, dirs, n, m) ==
  /\ m \in 0 .. n /\ dirs[Chain(dirs)[m]][tag] # Absent
  /\ \A k \in m + 1 .. n : dirs[Chain(dirs)[k]][tag] = Absent

\* What the tags last given up to directory n say is a raw image.
RawSoFar(dirs, n) ==
  /\ \E m \in 0 .. n : LastWith("offsets", dirs, n, m) /\ dirs[Chain(dirs)[m]].offsets # << << >> >>
  /\ \E m \in 0 .. n : /\ LastWith("compression", dirs, n, m)
                       /\ dirs[Chain(dirs)[m]].compression[1] % Short \in {1, 32769, 32767}

\* The value of a tag as last given up to directory n.
GivenSoFar(tag, dirs, n, value, unset) ==
  IF \E m \in 0 .. n : LastWith(tag, dirs, n, m)
  THEN \E m \in 0 .. n : LastWith(tag, dirs, n, m) /\ dirs[Chain(dirs)[m]][tag] = <<value>>
  ELSE value = unset

\* What is decoded is found at the first directory up to which the tags, each as it was
\* last given, say a raw image, and has the size last given; and decoding panics only
\* on rows of no pixels and when the number of pixels overflows.
FirstRawIsDecoded(dirs, size) ==
  LET image == parse_arw(dirs, size)
  IN image.result # "error" =>
       /\ \E n \in 0 .. 9 :
            /\ image.from = Chain(dirs)[n] /\ RawSoFar(dirs, n)
            /\ \A m \in 0 .. n - 1 : ~RawSoFar(dirs, m)
            /\ GivenSoFar("width", dirs, n, image.width, 0)
            /\ GivenSoFar("height", dirs, n, image.height, 0)
       /\ image.result = "panic" => image.width = 0 \/ image.width * image.height >= Wide

\* "Stop when we find a potentially raw IFD": a directory that is decoded is raw by what
\* it says itself.  Not so: the tags of earlier directories are carried along.
Raw(d) ==
  /\ d.offsets \notin {Absent, << << >> >>}
  /\ d.compression # Absent /\ d.compression[1] % Short \in {1, 32769, 32767}
StopsAtRaw(dirs, size) ==
  LET image == parse_arw(dirs, size) IN image.result = "image" => Raw(dirs[image.from])

\* Decoding gives back what was encoded: base values are even, the rest differ from
\* the pixel before by less than 64.
Encoded(pixels) ==
  LET field(i) == IF i % 16 = 1 THEN <<0, pixels[i] \div 2>> ELSE <<(pixels[i] - pixels[i - 1]) % 128>>
      code[i \in 0 .. Len(pixels)] == IF i = 0 THEN << >> ELSE code[i - 1] \o field(i)
  IN code[Len(pixels)]

ArwRoundTrip(pixels) == decompress_arw2(Encoded(pixels), Len(pixels)) = pixels

\* A picture of one colour, seen through the colour filter, is that colour wherever
\* all the neighbours exist.
Mosaic(colour, width, height) ==
  [i \in 1 .. width * height |->
     LET x == (i - 1) % width
         y == (i - 1) \div width
     IN IF x % 2 # y % 2 THEN colour[2] ELSE IF x % 2 = 0 THEN colour[1] ELSE colour[3]]

DemosaicIsExact(colour, width, height) ==
  \A x \in 1 .. width - 2, y \in 1 .. height - 2 :
    demosaic(Mosaic(colour, width, height), width, height, x, y)
      = [c \in 1 .. 3 |-> 4 * colour[c]]
================================================================================
