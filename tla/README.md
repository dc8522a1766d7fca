# Verification of Tawara

Tawara (`src/`) is a C++ library that writes and reads Matroska-like documents:
EBML elements in a `std::iostream`. It is sequential code. What makes it hard is
not concurrency but *positions and sizes*: almost every element is written
before its size or place is known, and is patched, padded over or found again
later. The client decides the order of the calls, may use the stream in between,
may stop at any point, and reads what other programs wrote. An error shows up
far from its cause: a byte too many destroys the element that follows, a wrong
size makes a reader meet garbage, a lost index entry is a null dereference.

This directory holds TLA+ models of the parts that carry this logic, TLC
configurations that check them on small instances, and TLAPS proofs of the
properties that matter most for every value of the constants.

## The system

| Component (under `src/`) | State it keeps | Operations | What makes it correct |
| --- | --- | --- | --- |
| Segment, writing (`src/segment.cpp`) | `offset_`, `size_`, `pad_size_`, `writing_`, `index`, `info`; the stream and its two positions | `write`, `finalise`, `to_segment_offset`; the client appends level-1 elements and index entries | nothing written is overwritten; declared size true; every index entry leads to its element; positions handed back; finalise comes to an end |
| Segment, reading (`src/segment.cpp`, `segment.h`) | `index`, `info`, read position; the iterators' cluster and block | `read`, cluster and block iteration | verdict justified; index leads to what it names; every block visited once; ends |
| Clusters (`src/cluster.cpp`, `memory_cluster.*`, `file_cluster.*`) | metadata, `writing_`, `offset_`; blocks in memory, or their extent in the stream | `write`, `push_back`, `erase`/`clear`, `finalise`, setters; reading and iteration | sizes chain from cluster to cluster; blocks in the stream in order, once, for good |
| Void elements (`src/void_element.cpp`) | `size_`, `extra_size_`, `fill_` | two constructors, `set_size`, `write`, `read` | exactly the bytes asked for |
| EBML codecs (`src/vint.cpp`, `el_ids.cpp`, `ebml_int.cpp`) | none | size, encode, decode, read, write | round trips, size equals bytes written |
| Element framework (`src/element.cpp`, `prim_element.h`, primitive elements) | `id_`, `offset_`, value | `size`, `write`, `read`, `skip_read` | read consumes what size counts |
| Blocks (`src/block_impl.cpp`, `simple_block.cpp`, `block_group.cpp`, `block_additions.cpp`) | header, frames, lacing | `push_back`, `resize`, `write`, `read` | a block read back is the block written |
| Tracks (`src/tracks.cpp`, `track_entry.cpp`, `track_operation.cpp`) | a map from track numbers to shared entries | `insert` (one, a range), `erase`, `at`, `swap`, read, write; setters of entries through their pointers | nothing with a number or UID twice is written; what is read is what was there |
| SegmentInfo, Cues, Attachments, EBML header, SeekHead | their children | read loops over children, write | a read loop consumes its body exactly |
| Stream preparation (`src/tawara_impl.cpp`) | none | `prepare_stream` | a new stream gets a header, an old one is recognised |
| Clients (`examples/`, `tools/`) | position of their own in the stream, index entries they add | order of calls | what was recorded is read, all of it or an honest part |

The parts meet in two places. *In the stream*: the segment's padding is a Void
element over which `finalise()` writes the SeekHead and SegmentInfo; clusters lie
behind each other and each one's size leads to the next; the index holds the
places of level-1 elements. *Through calls*: the client drives all of them, the
segment's iterators read clusters, and a cluster reads blocks. There are no
threads and no callbacks.

The hard behaviours are: writes that go back over earlier ones (padding, sizes);
exceptions that leave a call half done, and the calls made after them; a program
that ends between two writes; positions moved by someone else, or shared for
reading and writing (`std::fstream` has one position for both); objects used
again; sizes next to a boundary; elements in an order nobody tested; state kept
in two places (flags and index, members and stream). `PROJECT.json` lists each
hazard at its line.

## Modules

| Module | Models |
| --- | --- |
| `Vint` | how many bytes a variable-length integer takes; sizing of Void elements |
| `VoidElement` | a Void element object through construction, resizing, writing and reading |
| `EBMLCodec` | variable-length integers, element IDs and integers, as octets in the stream |
| `PrimElement` | elements of the six value types: written, read, skipped |
| `PrimElementProofs` | its inductive invariant and five theorems; before them those about the octets of `EBMLCodec` |
| `ByteStream` | a stream as a function from positions to the element last written over them |
| `SegmentWriter` | `Segment::write`, the client's appends, and `Segment::finalise` one write at a time |
| `SegmentWriterProofs` | its inductive invariant and eight theorems; before them those about Void elements, which it needs |
| `ClusterLog` | what the `Cluster` interface promises: a log of final clusters (abstract) |
| `ClusterWriter` | memory and file clusters written one after the other; implements `ClusterLog` |
| `ClusterWriterProofs` | its inductive invariant and four theorems, the implementation of `ClusterLog` among them |
| `SegmentReader` | `Segment::read_body` and the cluster and block iterators |
| `SegmentReaderProofs` | its inductive invariant and four theorems |
| `ClusterReader` | reading memory and file clusters, `count()`, and the iterators of a file cluster |
| `ClusterReaderProofs` | its inductive invariants and four theorems |
| `BlockLacing` | the frames of a block, changed, laced, written and read (`BlockImpl`) |
| `BlockLacingProofs` | its inductive invariant and five theorems, and one about stored differences |
| `MasterElement` | fifteen classes made of child elements: setters, `body_size`, `write_body`, `read_body`, `reset` |
| `MasterElementProofs` | its inductive invariant and five theorems |
| `TracksContainer` | Tracks elements as maps of shared entries |
| `TracksContainerProofs` | its inductive invariant and four theorems |
| `Recording` | a whole document: recorded, stopped at any point, opened and read (composition) |
| `MC*` | the constants TLC uses |

`SegmentWriter` extends `ByteStream` and `Vint`, `ClusterWriter` extends
`ByteStream` and instantiates `ClusterLog`, `BlockLacing` extends `Vint`,
`PrimElement` extends `EBMLCodec`, which instantiates `Vint` with the code's
powers of two, and `Recording` instantiates `SegmentWriter` and `SegmentReader`
over one stream.

### How state and actions correspond to the code

*Streams.* An element in the stream is an *extent*: kind, first byte, length,
the value of its size field, and the entries of a SeekHead. `Put` gives every
byte under an extent to it, so an element is `Whole` exactly when nothing has
been written over any byte of it since. That is all the properties need to
distinguish; payloads are left out: a frame is its length, the value of a child
element is a small number that is also its length.

*SegmentWriter.* `seg` is the object's members, `wpos`/`rpos` are `tellp()` and
`tellg()`, `joint` says whether the stream has one position for both. `fin` holds
the local variables of a running `finalise()`. Each write of `finalise()` is an
action (`PlaceHead`, `PlaceInfo`, `Repad`, `TailHead`, `TailInfo`, `Patch`), so
every state between two writes, where an exception or the end of the program
would leave the stream, is a state of the model. A turn of the loop that places
neither element is `PlaceNeither`, which changes nothing. Exceptions that leave
the call half done (`RepadFails`, the second disjunct of `Write`) lead back to
the client, who may go on. After such an exception the client must bring the
write position back to the end, as `finalise()` demands (`SeekEnd`).
`indexBody` is the sum that `SeekHead::body_size()` computes.

*ClusterWriter.* `c` is the object, a memory or a file cluster. `MoveAway` and
`MoveBack` are the client's own use of the stream. The client goes back to the
end before `write()`, and before `finalise()` of a memory cluster, which writes
where it finds the position; a file cluster is documented to manage the position
itself, so nothing is asked of the client there. When the client may set
metadata or push blocks is a parameter (`MetaPhases`, `PushPhases`): the run uses
metadata set before `write()` and blocks pushed before `finalise()`. The code
takes more than that; see the end of the findings. The log that the writer
implements is not a copy of what it did: `Recovered` walks the bytes from cluster
to cluster by their declared sizes and takes the blocks it finds there.

*SegmentReader.* The segment is the sequence of its level-1 elements. Each turn
of the search loop is an action per branch of its `switch`. `have` is the set of
`have_` flags, `last` is `last_read_end`. `ids::read()` at a place the index names, or
where the next cluster should be, gives the ID of the element that begins there, or
else what `Misread` allows: `ReadError` at and behind the end of the stream, and inside
an element another ID, `InvalidVarInt`, `InvalidEBMLID`, or `ReadError` if the end is
less than eight octets off. Payloads that happen to spell the wanted ID are left out.
Undefined behaviour (dereferencing
`find()` of a missing entry, or a null cluster) is a result of its own. Each
turn of the block iterator is `VisitBlock` or `NextCluster`.

*VoidElement* has one action per public operation.

*BlockLacing.* `block` is the object, `stored` the block in the stream: its
header, the count and the sizes of its lace, the size the element declares
(`body`) and how many bytes really follow (`present`). `read()` is an action for
the header, one for the count, one per size of the lace header and one per frame;
`rd` holds its local variables, with `size` and `read` counting as the code counts
them. `outcome = "dead"` is undefined behaviour or a failed assertion: an EBML
lace of one frame (the loops of `size()` and `write()` start behind the end), a
null frame dereferenced, a division by a count of zero. `stored` starts as nothing
or as a foreign block whose count, sizes, declared size and length are chosen
independently; where the lace header claims more sizes than there are, the reader
takes `Garbage`. `Size` adds up the frames in an int, as `size()` does
(`AsInt`, `IntValues`), and `WriteTooBig` is the exception for a length, a
difference or a size of the block that no field holds.

*MasterElement.* The functions of all these classes follow one pattern and are
written by hand for each, so what can be wrong is what a class says about each
child. That is a table: the child's value in a new object, the value `reset()`
leaves, the values that are not written, those that are legal to read, those the
setter takes, whether a body must have it, and for a list whether a map keeps it
in order and free of duplicates. The actions are the pattern. The client fills an
object and writes it; the body is read into another object, used before, either
as it is or after another program removed, added, repeated or reordered children
or declared another size; `read_body()` is one action per child. Each level is
read as a whole: a child that is itself a master element is a value here and has
a table of its own.

*EBMLCodec* has the conversions octet by octet, as operators: what `write()` puts
into the stream and what `read()` makes of whatever is there, with the exception it
throws otherwise. The number of bits of an octet, which is also the number of octets
of the longest integer, is a parameter. Powers of two and the number that octets make
are recursive functions, which is what the proofs know of them.

*PrimElement.* `el` is the object, `s` the octets in the stream, `rpos` and `wpos`
are `tellg()` and `tellp()`. `ids::read()` and `read()` are two actions, as the
client makes two calls, and it may skip instead. A read that throws ends the
behaviour (`"stopped"`) with the object and the position as they are by then. The
object that is read into may have been used before (`Used`), the stream may be this
library's or another program's (`Foreign`). Floats and dates go out in the order
that they have in memory. A double that goes out as a single loses its last octets,
where the conversion of the code rounds. `Write` has one guard that is not in the code: the body is
not longer than a size field can say, which is 2^56 octets and more than any memory has.

*ClusterReader.* The stream is a sequence of elements, the header of a cluster being
one; `own` is the length an element's object will say it has after it was read. Each
turn of a loop is an action. A file cluster passes over its blocks when it is read;
`its` are its iterators, each on one block, and any number of them move in any
order while the client moves the read position (`Seek`). The `istream_` pointer of a
file cluster is `opened`. `"astray"` is a failed assertion or an iterator that
continues from the middle of an element.

*TracksContainer.* `tracks` are the maps, `entry` what each entry says at the
moment, so that one entry in two maps, or an entry whose number is no longer its key,
is a state like any other. `write_body()` and `read_body()` take one entry per
action. `touched` remembers whether the client has changed an entry in a map.

*Recording.* The client of `examples/write.cpp`: header, segment, Tracks, clusters
of either kind with their blocks, `finalise()` of each, of the segment. Every write
is an action, those of `Segment::finalise()` being `SegmentWriter`'s own. `Stop`
ends the program between any two, and so does an exception, since the examples catch
none (`Runs`). What is in the file then is what has been written up to there, in
that order. The reader opens it either through `prepare_stream()` (`Prepare`) or as
`examples/read.cpp` does (`Examine`). `Layout` is how it finds the level-1 elements:
one after the other, by what the size fields in the stream say, the provisional ones
included; `SegmentReader` then reads them.

## Runs

| Run | Instance | Shows |
| --- | --- | --- |
| `void_element` | three width classes, targets around every boundary | constructors are exact; a foreign element keeps its footprint through read and write |
| `segment_writer` | paddings 0, 14, 28, 42; up to two level-1 elements, indexed or not; SegmentInfo of 8 or 9 bytes; one or two stream positions | its eight properties hold at every step, over exceptions and repeated finalises |
| `finalise_ends` (violation) | same | `finalise()` can loop for ever |
| `cluster_writer` | two clusters of up to two blocks, both kinds, positions moved | sizes chain, blocks survive, and the writer implements `ClusterLog` |
| `segment_reader` | segments of up to four elements of eight kinds, and usual ones of six, with every choice of what the SeekHeads name; sizes that are wrong, size fields that are narrow, SeekHeads that name what is not there, two SeekHeads that name different things | verdicts, index, position, complete iteration, termination |
| `cluster_reader` | seven kinds of metadata, eleven of blocks, two widths of the size field, sizes that fit or miss by one or by an element, with another cluster behind or not, up to nine bytes missing at the end; two iterators | verdicts; both kinds of cluster have the same blocks; size and position |
| `block_lacing` | up to four frames of four lengths, every order of edits, each lacing; nine hundred foreign blocks | declared size is written size, frames come back, no lace header leads out of the block, what is accepted can be written |
| `master_element` | all fifteen classes, two changes by the client or another program | declared size is written size, round trip into a used object, exactly the well-formed bodies are accepted |
| `prim_element` | six classes, values around every boundary of width, three hundred streams of other programs | counts are octets; round trip; rewriting fits; a failed read leaves the value |
| `tracks_container` | two containers, three entries, two numbers and two UIDs; bodies of up to two entries | nothing with a number or UID twice is written; round trip; distinct unless touched |
| `recording` | two clusters with up to two blocks and one, four paddings, seven headers, one or two stream positions, a stop at any point | what was finished is read; what was not is read honestly; reading ends |
| `own_refused` (violation) | same | `prepare_stream()` refuses its own header |

Properties of the segment's writer: `TypeOK`, `NothingOverwritten` (what the client
wrote, and SeekHead and SegmentInfo once placed, stay whole), `BodyWalkable` (between
calls the body is a gapless run of whole elements, unless a `finalise()` has failed),
`DeclaredSizeTrue`, `IndexResolves`, `PositionsRestored`, `FinaliseStaysInBounds`
(only padding, the size field and the tail are written over) and
`FinaliseEndsWhenBothFit`. Of the cluster writer: `NothingOverwritten`,
`DeclaredSizesChain`, `ImplementsLog`. Of the segment's reader: `VerdictJustified`
(what is thrown names something wrong with the segment or with where its index leads),
`PointerPlaced`, `IndexGuaranteedIfComplete`, `IterationComplete`, `Terminates`. Of
the cluster reader: `VerdictJustified` (accepted if and only if it should be: a file
cluster is not asked about the blocks it passes over), `SameBlocks`, `Footprint`
(offset and size lead to what follows, which the iterators of the segment rely on),
`PositionIsClients`. Of blocks: `SizeIsWritten`, `RoundTrip` (for laces whose count
fits a signed byte and whose last frame is longer than the lace header),
`FramesInsideBody`, `AcceptedIsWritable`. Of master elements: `DeclaredIsWritten`,
`RoundTrip`, `VerdictJustified` (a body is accepted if and only if `WellFormed`, and
then means what the object holds), `AcceptedIsWritable`. Of primitive elements:
`CountsAreOctets` (what `size()`, `write()` and `read()` return is what moves, and
`skip_read()` agrees), `RoundTrip`, `RewriteFits`, `FailedReadKeepsValue`. Of the
container: `WrittenDistinct`, `RoundTrip`, `UntouchedLegal`. Of the whole:
`FinishedIsRead`, `UnfinishedIsHonest`, `ReadingEnds`.

Preconditions in these properties are the cases in which the code breaks what they
say; each is named in the property's comment and below, under the findings.
Operators such as `DropsExtra`, `NoSuchNumber` or `KeepsOne` are defects that the
code does not have: with one of them in place of the code's definition, TLC finds the
property it belongs to violated, which shows that the property can fail.

### Bounds, and why they are enough

- `StreamMax`, `MaxElements`, `MaxClusters`, `MaxBlocks` cap the stream and what
  the client puts into it. `SegmentWriter` and its proofs ask for `StreamMax <= 65536`,
  so that size fields hold every position. Two elements (clusters, blocks) suffice for one to
  damage another; nothing in the code compares more than two at a time.
- The paddings are chosen against a SeekHead of 5, 19 or 33 bytes (none, one or
  two entries) and a SegmentInfo of 8 or 9: they give a padding too small to be
  an element, one that fits neither, one, both, with no, one or more bytes left.
- `VintLimit` in `MCVoidElement` has classes of 10 and more values instead of
  128, so that TLC meets every boundary; that classes are wider than 8 is all the
  sizing relies on (`VintLimitAssumption`), and the proofs need no more.
- Segments to read have up to four elements in every order, which includes a
  SeekHead before, between and after what it names, other elements between
  clusters, and each missing element. Segments of three elements also have SeekHeads
  that name what is not where they say (`Lying`): at another element, inside one, two
  bytes before the end, at the end and eight bytes behind it (`Wrong`). And there are two late SeekHeads
  with names of their own in every order (`TwoHeads`). Those of up to three, and the usual ones of
  six, also declare sizes that end at and inside an element or beyond the last, and
  have size fields of one byte (`narrow` 7) in the segment or five in the clusters.
- Streams of clusters have at most four children before and two behind the size that
  is declared; the code's loops hold only the count of bytes and the last ID, so that
  a third block tells no more. `Cuts` takes away nothing, one byte, and more than one
  element. `Places = {1}` is a position that no call would leave by itself.
- Octets in `MCPrimElement` have five bits, so that all widths of integers, from
  nothing to five octets, stay inside TLC's range, with IDs of up to three; the
  boundaries are those of the code, at powers of the octet. That widths are asked for
  explicitly is checked over all boundaries by the assumption `RequestedWidths`.
- Two numbers, two UIDs and three entries make duplicates of each alone and of both,
  entries outside of any map, and a number that is not its key.
- `Recording` has a stream of 170 bytes, which both clusters, the tail and every
  padding fit (`StreamMax`); two clusters, so that one is in the index and one is
  not, one with two blocks, so that one can be missing; paddings too small
  to be an element, that hold one of SeekHead and SegmentInfo, both with two bytes to
  spare, or both with one, which ends in an exception.

- `MCBlockLacing` has widths of 12, 40, 100 and 200 values and a count of eight
  values in place of 128, 16384, ... and 256 (`CountValues`), so that frames of 1, 4
  and 13 bytes have sizes and differences of one and two bytes, in both
  directions. Four frames (`MaxFrames`) reach the count that is negative when it is
  signed. With `IntValues` of 64 the int holds lengths up to 31, which one frame of
  60 bytes or three of 13 are beyond: the size that is declared is then negative or too
  small. The frame of 60 is also too far from the others for any difference
  (`WriteTooBig`). After a lace of more than `MaxEdited` frames or with more than `MaxBytes`
  bytes the object is not changed further; edits after a write are covered by the
  shorter ones.
- In `MasterElement` a value is 0, 1 or 2: empty or zero, the usual default, another.
  The code never compares a value with anything else but an upper bound of a flag.
  `MaxChanges = 2` lets two children be set together, or one be set and the body
  changed, or the body be changed twice; the checks per child are independent of
  each other, but for the count of bytes and the last value, which two changes reach.
  `MaxList = 2` gives lists with an order and duplicates.

### Fairness

`SegmentWriter!FairSpec`, `SegmentReader!Spec` and `Recording!Spec` assume weak
fairness of the running call (`FinaliseStep`, `Read \/ Iterate`, `ReadDocument`): a
function that has been called executes its next statement. In `Recording` only the
reader is fair; the program that records may stop at any point for good. The client
is under no obligation, and no specification assumes one. The others have no
fairness. Deadlock is checked in `void_element`, `segment_writer`, `cluster_writer`
and `segment_reader`. In the other runs the system may really stop: a block whose
writing is undefined behaviour is `dead`, a master element that was read is done
with, a read that throws leaves the stream failed, a document is read once, and
`tracks_container` has no entry left to read into when all are held.

## Proofs

`SegmentWriterProofs` begins with Void elements, which the segment is padded with. For
every family of widths that satisfies `VintLimitAssumption`:

- `VoidExact`: the Void element computed for a target of at least two bytes has
  exactly that length
- `VoidConstructedExact`: `VoidSpec => []ConstructedExact`
- `VoidKeepsFootprint`: `VoidSpec => []ReadKeepsFootprint`

The argument: `VintSize` is the least width that fits (`LeastOf`, `VintSizeIs`), the
estimate of the body is at most one byte short because consecutive limits lie more
than eight apart, and the extra byte makes up for it. The second follows from that at
each constructor. The third is inductive once the invariant says that both bodies are
values that a size field can hold and that the stored field is wide enough for its
value (`VoidBounded`): then the width found less the least one is a natural number, and
`size()` adds it again.

It then proves of segments, for every set of paddings, sizes, kinds and starts:

- `TypeCorrect`: `Spec => []TypeOK`
- `NothingIsOverwritten`: `Spec => []NothingOverwritten`
- `FinaliseInBounds`: `Spec => FinaliseStaysInBounds`
- `SizeDeclared`: `Spec => []DeclaredSizeTrue`
- `PositionsComeBack`: `Spec => PositionsRestored`, of the last step of `finalise()`
- `IndexLeads`: `Spec => []IndexResolves`
- `BodyCanBeWalked`: `Spec => []BodyWalkable`, which leaves out a `finalise()` that is
  placing SeekHead and SegmentInfo, and all that follows one that failed
- `Inductive`: `Spec => []IInv`, on which they rest.

None of them is inductive. `NothingOverwritten` needs to know that the
padding `finalise()` writes over really is padding: that the bytes from the write
position to the end of what it measured are still one Void element's, that the
client's elements lie elsewhere, and that `written` is how far it has come. It
also needs the size field not to lie under any element, and that what goes to
the end goes past `eof`. `IInv` collects these facts per phase of the call; the
proof has one lemma per action, and `VoidExact` supplies that the replacement
padding ends exactly where the old one did. `IndexResolves` and `BodyWalkable` add
one invariant each (`IndexInv`: every entry of the index is the first byte of
something kept; `BodyInv`: every byte of the body belongs to an element that begins
in the body and ends in it, but for the rest of the padding that is just being
filled), of which each step disturbs only what lies under its own write.

`ClusterWriterProofs` proves, for streams, clusters, blocks and metadata of any
number and size:

- `InvariantHolds`: `Spec => []IInv`, on which the others rest
- `NeverOverwritten`: `Spec => []NothingOverwritten`
- `SizesChain`: `Spec => []DeclaredSizesChain`, if metadata is not set under an open
  cluster (`"open" \notin MetaPhases`)
- `WritingImplementsLog`: `Spec => ImplementsLog`, if besides nothing is pushed into a
  cluster that is final (`"closed" \notin PushPhases`)

The two hypotheses are the client's part of the protocol; both are parameters, since
the code takes the calls that break them (see the findings), and the model then
violates the property. `IInv` says where the open cluster is (`WhereItIs`), that
everything before it stays (`KeptBehind`), what of it is in the stream (`OpenInPlace`,
`FileBlocks`), and that every closed cluster lies there as it was laid out
(`Chained`). The refinement rests on two lemmas: a step that writes behind a place
leaves what is recovered before that place as it was, and a reader that starts at a
closed cluster recovers exactly its blocks.

`ClusterReaderProofs` proves, for streams of any elements, cut anywhere, and any
number of iterators:

- `PositionStays`: `Spec => []PositionIsClients`
- `VerdictsAreJustified`: `Spec => []VerdictJustified`
- `SizeLeadsBehind`: `Spec => []Footprint`
- `BlocksAreSame`: `Spec => []SameBlocks`

The invariant says that every loop stands behind an element and that the bytes it
has counted lie between that place and where it began (`ReadingMeta`,
`ReadingBlocks`), what a returned cluster then is (`HaveRead`), that the iterators
have been on a beginning of its blocks, each where it should be (`Walked`), and that
`count()` has counted the blocks before its position (`Counted`).

`SegmentReaderProofs` proves, for segments of any number of elements in any order, of
any size, with any size declared and any names in their SeekHeads:

- `VerdictIsTrue`: `Spec => []VerdictJustified`
- `PointerIsPlaced`: `Spec => []PointerPlaced`
- `IndexIsGuaranteed`: `Spec => []IndexGuaranteedIfComplete`
- `IterationIsComplete`: `Spec => []IterationComplete`

`read_body()` keeps flags, an index and a position side by side, and the properties
relate all three to the elements of the segment, most of which it never looks at.
`VerdictIsTrue` has no hypothesis on the names: a place in the index is that of an
element of its kind or one that a SeekHead names (`Told`), and `Misread` says what may
come of a wrong one.
The invariant therefore says what the elements *behind* the search have left in each
of them (`Scanned`, `IndexRight`), that the last clean-up adds nothing wrong
(`AllThere`), and of the iteration that it is on a cluster, with exactly the blocks
before the current one visited (`OnCluster`, `InStep`). This proof showed that a
precondition had been too weak: with two SeekHeads found late, the second empties the
index again and need not name what the first named; `LateIndexComplete` now asks for
that, too, and the run has such segments.

`TracksContainerProofs` proves, for any number of containers and entries, any numbers
and UIDs and any bodies of other programs:

- `TypeCorrect`: `Spec => []TypeOK`
- `TracksDistinct`: `Spec => []WrittenDistinct`
- `TracksRoundTrip`: `Spec => []RoundTrip`
- `TracksUntouchedLegal`: `Spec => []UntouchedLegal`

None of the last three is inductive. `WrittenDistinct` speaks of a body that was written
to its end, and needs to know of one half written that its records are what the keys
dealt with say, that these differ, and that the object still is `Writable` (`Writing`).
`RoundTrip` needs to know, between two entries that are read, that the container holds
exactly the records dealt with (`Reading`, `Holding`). That a range may be inserted
although its members are compared with the old entries only is the step of
`InsertRange` in `UntouchedLegal`: the members come from a map, which is `Legal`
itself as long as nobody has touched an entry.

`BlockLacingProofs` proves, for frames of any number and length, every order of edits,
every family of widths, and whatever blocks other programs leave in the stream:

- `InvariantHolds`: `Spec => []IInv`, on which the others rest
- `DeclaredIsWritten`: `Spec => []SizeIsWritten`
- `ReaderStaysInside`: `Spec => []FramesInsideBody`
- `ReadIsWritable`: `Spec => AcceptedIsWritable`
- `WrittenIsRead`: `Spec => RoundTrip`
- `DifferenceExact`: a difference of frame sizes that some width holds is stored in a
  width that can carry it and comes back unchanged

The invariant has three parts. What `write()` left is what its loops make of the frames
(`AsWritten`). In each phase of `read()` the bytes counted and the lengths still to be
taken add up to the body, although `size` and `read` change their meaning on the way
(`AtCount`, `AtSizes`, `AtLaced`, `AtFrames`): from that follow `ReaderStaysInside`, and
with the lengths being positive `ReadIsWritable`. And of a block of this library's, the
frames taken and the lengths waiting are together the frames written (`OwnSizes`,
`OwnLaced`, `OwnFrames`), so that no read of it can fail (`OwnNeverFails`);
`DifferenceExact` supplies that a stored difference comes back. The preconditions of
`Sound` are needed where the findings say that the code fails: the proof uses that the
last frame is longer than the lace header in one place only, the test of
`block_impl.cpp:514` (`OwnLaceGoesOn`), and that the count fits a signed byte where it
is read.

`MasterElementProofs` proves, for all fifteen classes, lists of any length, and bodies
that other programs have changed in any way and any number of times:

- `Holds`: `Spec => []IInv`, on which the others rest
- `DeclaredWritten`: `Spec => []DeclaredIsWritten`
- `AcceptedWritable`: `Spec => []AcceptedIsWritable`
- `VerdictIsJustified`: `Spec => VerdictJustified`
- `RoundTrips`: `Spec => RoundTrip`

`DeclaredIsWritten` compares two sums over the rows of a table: `BodySize` adds the
children up one by one, `Written` puts the same children behind one another, and the
sum of a sequence put behind another is the sum of both (`BytesBehind`). The invariant
has four parts. An object that is being filled has values its setters take, and keyed
lists in order (`FillInv`). A body nobody has edited is what was written, but for what
is ignored (`SentInv`). Of a read that goes on there is a number `k` of items that have
been taken (`ReadingInv`): the bytes counted are theirs and those before the last fell
short of the size declared (`CountInv`), they are known and legal (`ItemsInv`), and the
object holds what they mean, the children seen being those among them (`ObjectInv`). And
what was accepted can be written. The verdict follows from `k`: `read_body()` accepts
where exactly `k` items fill the size, and where it refuses no number of items does, since
items are not empty and the totals grow strictly. What all tables have in common is
stated once (`RowGood`) and proved from the fifteen of them (`TableGood`); the rest of
the proof does not look at a table again.

This proof showed that `WellFormed` had been wrong: it asked for a size as long as *all*
items, and a reader rightly takes a body whose size is too small by exactly its last
items. It now asks for as many items as the size declared, and the verdict is stated
for each number of them. It also showed that `ReadIgnored` has to be the track entry's
alone, as it is in the code.

`PrimElementProofs` proves, for every value of the six classes, every ID and every
padding, octets of five to eight bits, and whatever octets other programs leave in
the stream:

- `Holds`: `Spec => []Inv`, on which the others rest
- `CountsOfOctets`: `Spec => CountsAreOctets`
- `RoundTripHolds`: `Spec => RoundTrip`
- `RewritesFit`: `Spec => RewriteFits`
- `FailedReadKeeps`: `Spec => FailedReadKeepsValue`

The invariant is short: the ID just read is where it was read (`IdIsThere`), and the
element written last still begins where it was written (`SentIsThere`). What takes the
work is the octets. Each layer of `EBMLCodec` has a lemma that says what its reader
makes of its own writer's octets, and one that bounds what it makes of any octets:
numbers taken apart and put together (`NumberBack`, `NumberBound`), the width that the
first octet announces (`MarkedAnnounced`, `AnnouncedMarked`), variable-length integers
(`VintBack`, `VintReadIs`), IDs (`IdBack`, `IdReadIs`), unsigned and signed integers
(`UBack`, `UShort`, `SBack`, `SShort`) and the bodies of the six classes (`BodyIs`,
`FilledIs`). The lemmas about writers give `RoundTrip`. Those about any octets give
`RewriteFits`: an ID or a number read from `k` octets fits in `k` octets, so that the
least width, which is what is written, is not more. Below these are the few facts about
powers of two and about division that the provers do not have (`TwoToSum`, `SpanGrows`,
`DivDiv`, `DivBounds`), with multiplication by a variable kept out of sight of them.

What the code computes in a loop over a sequence (sums of sizes, places of elements,
blocks recovered from the stream) is a recursive function in these modules. That it
exists, and what it computes for sequences of every length, is proved by minimal
counterexample: the set of lengths for which the statement fails has a least member
unless it is empty (`LeastOf`), and the members before it refute that.

Assumptions: `SegmentAssumption`, `VintLimitAssumption`, `StreamMaxAssumption`,
`TargetsAssumption`, `TracksAssumption`, `ClusterAssumption`, `StreamsAssumption`,
`SegmentsAssumption`, `LaceAssumption`, `KindsAssumption`, `CodecAssumption` and
`PrimAssumption`, each evaluated by TLC in the runs. They say that a size is a
natural number, that elements in a stream lie one behind the other and are not empty,
that a cluster is longer than its header, that the client's kinds are not those
the library writes itself, that values are those a class can hold, and that an octet
has five to eight bits.

Only model-checked: the properties of whole documents (`FinishedIsRead`,
`UnfinishedIsHonest`), and that a width asked for explicitly is kept
(`RequestedWidths`). Out of the prover's reach are
`FinaliseEndsWhenBothFit`, `FinaliseEnds`, `Terminates` and `ReadingEnds`, which need
fairness.

## Findings

Each of these is a violation run whose counterexample is the code's behaviour.

1. `Segment::finalise()` loops for ever when neither SeekHead nor SegmentInfo
   fits what is left of the padding (`segment.cpp:182`), although `segment.h:469`
   promises that they go to the end.
2. `TawaraImpl::prepare_stream()` compares the EBML read version (1 in every file that
   this library writes) with the major version of the library (0), and refuses a stream
   that it has initialised itself (`tawara_impl.cpp:113`).

Seen while modelling; the model does what the code does, and the property concerned
leaves the case out:

*Writing a segment.*

- With exactly one byte of padding left, `finalise()` throws `VoidTooSmall` half way
  (action `RepadFails`; the properties of the passing run hold in spite of it).
- `VoidElement::set_size()` never takes an extra byte back (`void_element.cpp:128`,
  `ResizedExtra`), so that its own assertion fails.

*Clusters.*

- `MemoryCluster::push_back()` takes blocks in any state (`memory_cluster.h:227`),
  although `cluster.h:200` demands that `write()` has been called and `finalise()`
  has not: with `PushPhases` including `"closed"` such a block is never written and
  `ImplementsLog` fails.
- Both clusters' `finalise()` write the size of the members, not of what is in the
  stream (`memory_cluster.cpp:111`): with `MetaPhases` including `"open"`,
  `DeclaredSizesChain` fails.
- An empty cluster that is read into an object used before leaves the old blocks in it
  (`cluster.cpp:151`; `SameBlocks` demands a block).
- `FileCluster::count()` asserts that a stream has been given to the object, which does
  not happen for a cluster without blocks (`file_cluster.cpp:85`, `CountAsserts`);
  `tools/tawara_info.cpp` calls it on every cluster.
- The iterators of a file cluster go on by the length the block would have if this
  library had written it (`file_cluster.h:187`), and recognise the end only by its
  exact position, so that blocks of other writers lead them astray (`Canonical`).
- A file cluster whose blocks are cut off is accepted (`FirstBlockThere`).

*Reading a segment.*

- A SeekHead found late empties the index while the flags stay (`segment.cpp:316`);
  `find()` of what was lost is then dereferenced (`LateIndexComplete`). A file as the
  examples record it is not affected: a `finalise()` that returns has put SeekHead and
  SegmentInfo both into the padding, or both at the end if there is no padding. There is
  none only if a program catches the exception that `write()` throws for a padding below
  two bytes, and records on.
- `catch (InvalidChildID())` matches nothing (`segment.h:203`), so that another element
  behind a cluster ends the iteration with an exception (`ClustersLast`).
- Offsets and ends count a size field of eight bytes (`NamesLead`, `ClustersWide`).

*Blocks.*

- `read_ebml_laced_frames()` tests for the end of the frames with a count that
  includes the lace header against a size that does not (`block_impl.cpp:514`): two
  frames of one byte, laced by this library, cannot be read by it.
- `BlockGroup::reset()` takes the duration's default, which was never set
  (`block_group.cpp:246`, `LeftUndefined`).
- The count of frames is stored as it is, where `doc/content/specification.txt:870` says minus
  one; it is written as an unsigned and read as a signed byte, so laces of 128 frames
  and more are misread.
- `std::accumulate` is given an int to start from (`block_impl.cpp:178`), so that the
  size of a block whose frames are 2^31 bytes and longer is wrong: negative, which
  `write_size()` refuses with the ID already out, or too small (`AsInt`). The sums of
  `memory_cluster.cpp:127` and `metaseek.cpp:85` are made in the same way; the models of
  clusters and segments stay below that size.
- `Element::write()` adds the results of `write_id()`, `write_size()` and `write_body()`
  in one expression (`element.cpp:81`), whose operands C++ may evaluate in any order;
  the models have them from left to right, as GCC and Clang do.
- An EBML lace of one frame is undefined behaviour in `size()` and `write()`
  (`WriteUndefined`); a count of zero in a fixed lace divides by zero.

*Tracks.*

- `TrackEntry::read_body()` skips `FlagDefault` without counting its bytes
  (`track_entry.cpp:400`, action `ReadIgnored`), where `doc/content/specification.txt:73` says that
  the value is read and ignored; it fails on every body that has it.
- An empty track operation is "legal" by the comment at `track_entry.cpp:557`, but the
  test before it is never true.
- The keys of a container are not true any more after an entry's number was changed
  through its pointer; `find()` and `verify_not_duplicate()` use them all the same.

*Primitive elements.*

- IDs of more octets than their value needs are accepted, those of more than four lose
  their first octets, and `offset_` is then wrong (`element.cpp:109`; `Canonical`).
- `DateElement::read_body()` reads straight into the value (`date_element.cpp:110`).
- Floats and dates are in the order of the host's memory, where
  `doc/content/specification.txt:130` says big-endian.
- A string's padding is read as part of its value, and the padding of the object that
  is read into stays (`RewriteFits` is stated without it).
- `skip_write()` puts the read position back and takes a joint write position along
  (`element.cpp:144`, `SkipWrite`).

## Not modelled, and what is left

Every component that has behaviour is modelled. Left out for good:

- Exceptions, error information and DLL macros, which are declarations; an exception
  appears as the outcome of the call that throws it.
- Values of payloads, wording of errors, printing, argument handling of the tools, and
  Boost iterators beyond the positions they hold.
- I/O errors of the stream itself: a stream that fails keeps failing, and the code
  throws at once. What a crash of the operating system leaves of unflushed writes is
  not the library's; `Recording` assumes that a file is a prefix of what was written,
  and that its last write, of an element or a size field, is there as a whole.
- Sizes beyond 2^56 bytes, and positions that overflow: the streams here are bounded.
- `Cluster::position()` and `FileCluster::erase()` and `clear()`, which throw or assert
  whenever they are called.

Not proved, though nothing but effort seems to stand in the way: `UnfinishedIsHonest` of
whole documents, from the theorems of `SegmentWriterProofs` for what has been written and
of `SegmentReaderProofs` for what is found in it. They are about specifications of
their own, and `Recording` takes its steps with the client's between them.
