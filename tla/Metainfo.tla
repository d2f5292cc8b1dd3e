---- MODULE Metainfo ----
(* The .torrent file: MetaInfo, Info, FileInfo and MIFile of metainfo.rs, from *)
(* and to bencoded values.  An optional field is <<>> or <<its value>>; a hash *)
(* is one symbol, and the hash of some bytes is the bytes.                     *)
EXTENDS Bencode

StrOf(s) == <<[str |-> s]>>
IntOf(n) == <<[int |-> n]>>
MapOpt(opt, Of(_)) == IF opt = <<>> THEN <<>> ELSE Of(opt[1])
ListOf(seq, Of(_)) == <<[list |-> [n \in DOMAIN seq |-> Of(seq[n])[1]]]>>

----------------------------------------------------------------------------
(* FileInfo and its files *)

MIFileFrom(v) ==
    IF "dict" \notin DOMAIN v THEN Err
    ELSE OkOf(Gathered(<<Required(v.dict, "length", AsInt),
                         Optional(v.dict, "md5sum", AsString, Panic),
                         Required(v.dict, "path", LAMBDA l : AsList(l, AsString))>>),
              LAMBDA f : [length |-> f[1], md5sum |-> f[2], path |-> f[3]])

\* Faulty MIFileTo, for the mutant runs.
MIFileToWithoutSum(f) == <<DictOf(<< <<"length", IntOf(f.length)>>, <<"path", ListOf(f.path, StrOf)>> >>)>>

MIFileTo(f) == <<DictOf(<< <<"length", IntOf(f.length)>>,
                           <<"md5sum", MapOpt(f.md5sum, StrOf)>>,
                           <<"path", ListOf(f.path, StrOf)>> >>)>>

\* One file, with a length, or several.
FileInfoFrom(d) ==
    IF "length" \in DOMAIN d
    THEN OkOf(Gathered(<<Required(d, "name", AsString), AsInt(d["length"]),
                         Optional(d, "md5sum", AsString, Panic)>>),
              LAMBDA f : [name |-> f[1], length |-> f[2], md5sum |-> f[3]])
    ELSE OkOf(Gathered(<<Required(d, "name", AsString),
                         Required(d, "files", LAMBDA l : AsList(l, MIFileFrom))>>),
              LAMBDA f : [name |-> f[1], files |-> f[2]])

IsSingle(fi) == "length" \in DOMAIN fi

FileInfoTo(fi) ==
    IF IsSingle(fi)
    THEN << <<"name", StrOf(fi.name)>>, <<"length", IntOf(fi.length)>>,
            <<"md5sum", MapOpt(fi.md5sum, StrOf)>> >>
    ELSE << <<"name", StrOf(fi.name)>>, <<"files", ListOf(fi.files, MIFileTo)>> >>

\* as_BTFiles: the paths below the download directory.
BTFiles(fi) ==
    IF IsSingle(fi) THEN <<[length |-> fi.length, path |-> fi.name \o fi.name]>>
    ELSE [n \in DOMAIN fi.files |->
             [length |-> fi.files[n].length, path |-> fi.name \o fi.files[n].path]]

----------------------------------------------------------------------------
(* Info *)

\* split_hashes: the string is cut in hashes, one symbol each ("part" stands for
\* bytes that do not fill one).
SplitHashes(bytes) == IF "part" \in ToSet(bytes) THEN Err ELSE Ok(bytes)

\* The pieces must parse as bytes: hashes that happen to be UTF-8 are refused.
PiecesFrom(v) == IfOk(AsBytes(v), SplitHashes)

InfoFrom(v) ==
    IF "dict" \notin DOMAIN v THEN Err
    ELSE OkOf(Gathered(<<Required(v.dict, "piece length", AsInt),
                         Required(v.dict, "pieces", PiecesFrom),
                         Optional(v.dict, "private", AsBool, Panic),
                         FileInfoFrom(v.dict)>>),
              LAMBDA f : [pieceLength |-> f[1], pieces |-> f[2], private |-> f[3],
                          fileInfo |-> f[4]])

\* Faulty InfoTo, for the mutant runs.
InfoToWithoutPrivate(info) ==
    DictOf(<< <<"piece length", IntOf(info.pieceLength)>>,
              <<"pieces", <<[bytes |-> info.pieces]>> >> >> \o FileInfoTo(info.fileInfo))

InfoTo(info) ==
    DictOf(<< <<"piece length", IntOf(info.pieceLength)>>,
              <<"pieces", <<[bytes |-> info.pieces]>> >>,
              <<"private", MapOpt(info.private, LAMBDA b : IntOf(IF b THEN 1 ELSE 0))>> >>
           \o FileInfoTo(info.fileInfo))

----------------------------------------------------------------------------
(* MetaInfo *)

\* convert: of a tier of trackers, a list, the first one; an empty tier panics.
FirstOfTier(v) ==
    IfOk(AsList(v, AsString), LAMBDA tier : IF tier = <<>> THEN Panic ELSE Ok(tier[1]))

TrackerFrom(v) == IF IsOk(AsString(v)) THEN AsString(v) ELSE FirstOfTier(v)

MetaFrom(v) ==
    IF "dict" \notin DOMAIN v THEN Err
    ELSE IF "info" \notin DOMAIN v.dict THEN Err
    ELSE OkOf(Gathered(<<InfoFrom(v.dict["info"]),
                         Optional(v.dict, "announce", AsString, Panic),
                         Optional(v.dict, "announce-list", LAMBDA l : AsList(l, TrackerFrom), Err),
                         Optional(v.dict, "creation date", AsInt, Panic),
                         Optional(v.dict, "comment", AsString, Panic),
                         Optional(v.dict, "created by", AsString, Panic),
                         Optional(v.dict, "encoding", AsString, Panic)>>),
              LAMBDA f : [info |-> f[1], announce |-> f[2], announceList |-> f[3],
                          creationDate |-> f[4], comment |-> f[5], createdBy |-> f[6],
                          encoding |-> f[7]])

\* Each tracker goes out as a tier of its own; the creation date and the author go
\* out under keys that MetaFrom does not read.
MetaTo(m) ==
    DictOf(<< <<"info", <<InfoTo(m.info)>> >>,
              <<"announce", MapOpt(m.announce, StrOf)>>,
              <<"announce-list", MapOpt(m.announceList,
                                        LAMBDA l : ListOf(l, LAMBDA t : ListOf(<<t>>, StrOf)))>>,
              <<"creation_date", MapOpt(m.creationDate, IntOf)>>,
              <<"comment", MapOpt(m.comment, StrOf)>>,
              <<"created_by", MapOpt(m.createdBy, StrOf)>>,
              <<"encoding", MapOpt(m.encoding, StrOf)>> >>)

\* read and write of a file's bytes.
ReadMeta(bytes) == IfOk(Parse(bytes), MetaFrom)
WriteMeta(m) == Encode(MetaTo(m))

\* The info hash is taken of the fields read, encoded again.
InfoHash(m) == Encode(InfoTo(m.info))

\* trackers(): the list if there is one, else the one tracker, else a panic.
Trackers(m) ==
    IF m.announceList # <<>> THEN Ok(m.announceList[1])
    ELSE IF m.announce # <<>> THEN Ok(m.announce)
    ELSE Panic
====
