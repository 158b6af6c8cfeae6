----------------------------- MODULE Documents -----------------------------
(***************************************************************************)
(* The directory documents of torpy (torpy/documents/): how a text is read  *)
(* into fields, what part of it the digest covers, and how a diff is        *)
(* applied.  A line is a pair of its keyword and the rest of it; a text is  *)
(* the sequence of its lines.  Splitting and converting the rest of a line  *)
(* is left out: it is a value already.                                      *)
(***************************************************************************)
EXTENDS Integers, Sequences, FiniteSets

Invalid == [invalid |-> TRUE]  \* a reader that raises an exception
Blank == <<"", 0>>
Begin == <<"BEGIN", 0>>
End == <<"END", 0>>
Dot == <<".", 0>>
Dollar == -1  \* "$", the last line, in the range of an edit

-----------------------------------------------------------------------------
(* The kinds of documents: TorDocument._collect_items of each class *)

VotersObject ==
  [out |-> "voters", start |-> "dir-source", items |-> {"contact", "vote-digest"}]
RoutersObject ==
  [out |-> "routers", start |-> "r", items |-> {"a", "s", "v", "pr", "w", "p"}]

NetworkStatus ==
  [start |-> "network-status-version",
   items |-> {"vote-status", "consensus-method", "valid-after", "fresh-until", "valid-until",
              "voting-delay", "client-versions", "server-versions", "known-flags",
              "recommended-client-protocols", "recommended-relay-protocols",
              "required-client-protocols", "required-relay-protocols", "params",
              "shared-rand-previous-value", "shared-rand-current-value"},
   lists |-> [kw \in {"directory-signature"} |-> "signatures"],
   objects |-> {VotersObject, RoutersObject}, built |-> {"routers"}]

StatusDiff ==
  [start |-> "network-status-diff-version", items |-> {"hash"},
   lists |-> [kw \in {"ed"} |-> "actions"], objects |-> {}, built |-> {}]

CertificateObject ==
  [out |-> "certs", start |-> "dir-key-certificate-version",
   items |-> {"fingerprint", "dir-key-published", "dir-key-expires", "dir-identity-key",
              "dir-signing-key", "dir-key-crosscert", "dir-key-certification"}]

Certificates ==
  [start |-> "", items |-> {}, lists |-> <<>>, objects |-> {CertificateObject},
   built |-> {}]

Multi == {"directory-signature", "dir-identity-key", "dir-signing-key",
          "dir-key-crosscert", "dir-key-certification"}

-----------------------------------------------------------------------------
(* Reading *)

(* ItemMulti._read_ml and ItemAction: the place of the line that ends a block. *)
BlockEnd(text, i, last) ==
  LET ends == {n \in i..Len(text) : text[n] = last}
  IN IF ends = {} THEN Len(text) + 1 ELSE CHOOSE n \in ends : \A m \in ends : n <= m

Field(fields, name) == IF name \in DOMAIN fields THEN fields[name] ELSE <<>>
Put(fields, name, value) ==
  [n \in DOMAIN fields \union {name} |-> IF n = name THEN value ELSE fields[n]]
AddTo(fields, name, value) == Put(fields, name, Append(Field(fields, name), value))

(* The value of the item in line i, if it parses, and the line to go on with. *)
Item(text, i) ==
  LET kw == text[i][1]
      rest == text[i][2]
      dot == BlockEnd(text, i + 1, Dot)
      end == BlockEnd(text, i + 2, End)
  IN CASE kw \in Multi ->
            IF i < Len(text) /\ text[i + 1] = Begin
              THEN [ok |-> TRUE, value |-> [args |-> rest, block |-> SubSeq(text, i + 2, end - 1)],
                    next |-> end + 1]
              ELSE [ok |-> FALSE]
       [] kw = "ed" ->
            IF rest.end # Dollar /\ rest.end < rest.start THEN [ok |-> FALSE]
            ELSE IF rest.act = "d"
              THEN [ok |-> TRUE, value |-> Put(rest, "data", <<>>), next |-> i + 1]
            ELSE [ok |-> TRUE, value |-> Put(rest, "data", SubSeq(text, i + 1, dot - 1)),
                  next |-> dot + 1]
       [] OTHER -> [ok |-> TRUE, value |-> rest, next |-> i + 1]

(***************************************************************************)
(* TorDocument.check_items at line i: an item of the document before its    *)
(* first line raises, a line of an object goes to the object begun last,    *)
(* and a line nobody knows is skipped.  "next" is the line to go on with.   *)
(***************************************************************************)
ReadLine(class, text, i, fields) ==
  LET kw == text[i][1]
      item == Item(text, i)
      starts == {o \in class.objects : o.start = kw}
      parts == {o \in class.objects : kw \in o.items}
      Go(next, f) == [next |-> next, fields |-> f]
      Stop == Go(Len(text) + 1, Invalid)
  IN IF kw = class.start THEN Go(i + 1, Put(fields, kw, item.value))
     ELSE IF kw \in class.items \union DOMAIN class.lists THEN
       IF class.start \notin DOMAIN fields \/ ~item.ok THEN Stop
       ELSE Go(item.next, IF kw \in DOMAIN class.lists
                            THEN AddTo(fields, class.lists[kw], item.value)
                            ELSE Put(fields, kw, item.value))
     ELSE IF starts # {} THEN
       LET o == CHOOSE o \in starts : TRUE
       IN Go(i + 1, AddTo(fields, o.out, Put(<<>>, kw, item.value)))
     ELSE IF parts # {} THEN
       LET o == CHOOSE o \in parts : TRUE
           sofar == Field(fields, o.out)
       IN IF sofar = <<>> THEN Go(i + 1, fields)
          ELSE IF ~item.ok THEN Stop
          ELSE Go(item.next,
                  Put(fields, o.out, [sofar EXCEPT ![Len(sofar)] = Put(@, kw, item.value)]))
     ELSE Go(i + 1, fields)

(* After the first n lines; those within a block are read with its item.    *)
ReadLines(class, text) ==
  LET read[n \in 0..Len(text)] ==
        IF n = 0 THEN [next |-> 1, fields |-> <<>>]
        ELSE LET sofar == read[n - 1]
             IN IF n < sofar.next THEN sofar ELSE ReadLine(class, text, n, sofar.fields)
  IN read[Len(text)].fields

(* TorDocument.__init__; _fix_objects goes over a list that must be there. *)
ReadDocument(class, text) ==
  LET fields == ReadLines(class, text)
  IN IF fields = Invalid \/ \E name \in class.built : name \notin DOMAIN fields
       THEN Invalid ELSE fields

(* TorDocumentsFactory.parse: the first class the text starts like. *)
ClassOf(text, possible) ==
  IF text # <<>> /\ \E c \in possible : text[1][1] = c.start
    THEN CHOOSE c \in possible : text[1][1] = c.start ELSE Invalid

(***************************************************************************)
(* TorDocumentReader.lines_gen: the digests cover the lines from the one    *)
(* that starts the document to the first signature.                         *)
(***************************************************************************)
Digested(text) ==
  LET ends == {n \in 1..Len(text) : text[n][1] = "directory-signature"}
  IN SubSeq(text, 1, IF ends = {} THEN Len(text)
                     ELSE (CHOOSE n \in ends : \A m \in ends : n <= m) - 1)

-----------------------------------------------------------------------------
(* Diffs *)

(* Mutant: a change keeps the line it starts at. *)
ApplyActionOff(a, lines) ==
  LET last == IF a.end = Dollar THEN Len(lines) ELSE a.end
      first == IF a.act = "d" THEN a.start - 1 ELSE a.start
  IN SubSeq(lines, 1, first) \o a.data
       \o SubSeq(lines, (IF a.act = "a" THEN first ELSE last) + 1, Len(lines))

(***************************************************************************)
(* EdAction.apply.  "$" is the last line.  The start is always a number, so *)
(* the current line, which it could otherwise be, is not used.              *)
(***************************************************************************)
ApplyAction(a, lines) ==
  LET last == IF a.end = Dollar THEN Len(lines) ELSE a.end
      first == IF a.act = "a" THEN a.start ELSE a.start - 1
  IN SubSeq(lines, 1, first) \o a.data
       \o SubSeq(lines, (IF a.act = "a" THEN first ELSE last) + 1, Len(lines))

ApplyActions(actions, lines) ==
  LET after[n \in 0..Len(actions)] ==
        IF n = 0 THEN lines ELSE ApplyAction(actions[n], after[n - 1])
  IN after[Len(actions)]

(***************************************************************************)
(* NetworkStatusDocument.apply_diff.  The text ends in a newline, so the    *)
(* list of its lines ends in an empty one, and another newline is added to  *)
(* the lines when they are joined: what is joined has the digest the diff   *)
(* states only if one of the actions reached the end.                       *)
(***************************************************************************)
ApplyDiff(text, diff) ==
  IF diff.hash.from # Digested(text) THEN Invalid
  ELSE LET lines == ApplyActions(Field(diff, "actions"), Append(text, Blank))
       IN IF lines = diff.hash.to THEN lines ELSE Invalid

(***************************************************************************)
(* The diff a directory serves (external): it deletes the signatures of the *)
(* old text up to "$", then edits from the end to the beginning so that the *)
(* numbers stay those of the old text.  Lines that both have are kept.      *)
(***************************************************************************)
MakeDiff(old, new) ==
  LET body == Digested(old)
      Place(line, text) ==
        LET at == {n \in 1..Len(text) : text[n] = line}
        IN IF at = {} THEN 0 ELSE CHOOSE n \in at : \A m \in at : n <= m
      Hunk(from, upto, data) ==
        IF data = <<>> THEN <<<<"ed", [start |-> from, end |-> upto, act |-> "d"]>>>>
        ELSE IF upto < from
          THEN <<<<"ed", [start |-> upto, end |-> upto, act |-> "a"]>>>> \o data \o <<Dot>>
        ELSE <<<<"ed", [start |-> from, end |-> upto, act |-> "c"]>>>> \o data \o <<Dot>>
      \* hunks[n]: the edits after the first n lines of the old body
      kept(n) == n > 0 => Place(body[n], new) # 0
      hunks[n \in 0..Len(body)] ==
        IF ~kept(n) THEN <<>>
        ELSE LET later == {m \in n + 1..Len(body) : kept(m)}
                 next == IF later = {} THEN Len(body) + 1
                         ELSE CHOOSE m \in later : \A k \in later : m <= k
                 from == IF n = 0 THEN 1 ELSE Place(body[n], new) + 1
                 upto == IF later = {} THEN Len(new) ELSE Place(body[next], new) - 1
             IN IF next = n + 1 /\ upto < from THEN <<>>
                ELSE Hunk(n + 1, next - 1, SubSeq(new, from, upto))
      all[n \in 0..Len(body)] == IF n = 0 THEN hunks[0] ELSE hunks[n] \o all[n - 1]
  IN <<<<"network-status-diff-version", 1>>, <<"hash", [from |-> body, to |-> new]>>,
       <<"ed", [start |-> Len(body) + 1, end |-> Dollar, act |-> "d"]>>>> \o all[Len(body)]

=============================================================================
