------------------------------ MODULE Sanitizer ------------------------------
(***************************************************************************)
(* The copy of a payment's metadata that logs and dashboard may see        *)
(* (privacy.py): secrets are replaced, then everything is cut to bounds.   *)
(*                                                                         *)
(* A text is a sequence of words.  A secret, of whatever category, is the  *)
(* word "sec" with the word "ret" after it: half of one is not recognized, *)
(* like half of a token or of an address.  What nobody may see but for the *)
(* name of its field is the word "private".  A value is a record whose     *)
(* kind is "text", "list", "object" or "null"; the entries of an object    *)
(* are a function of its keys, which are texts.                            *)
(*                                                                         *)
(* Where the code calls itself or loops, the definitions are functions of  *)
(* a number that counts down: the levels left, the entries to come.        *)
(***************************************************************************)
EXTENDS Integers, SequencesExt

CONSTANTS
  KeyOrder,       \* all keys, in the order of sorted()
  SensitiveKeys,  \* the names of _API_KEY_FIELDS and _SESSION_FIELDS
  IndexText,      \* the text of an index, with the underscore before it
  MaxDepth,       \* max_depth
  MaxItems,       \* max_collection_items
  MaxLength,      \* max_string_length, in words
  MaxSize,        \* max_metadata_bytes, in words
  Values,         \* the samples and what is in them, but for sensitive fields
  Samples         \* metadata of requests, objects all

VARIABLES
  metadata,   \* of the request, or Absent
  copy,       \* what the sanitizer made of it, or Absent
  reported    \* the limits it applied, and "REDACTED" if it counted a secret

sanitizerVars == <<metadata, copy, reported>>

Absent == [kind |-> "absent"]

Null == [kind |-> "null"]
Text(words) == [kind |-> "text", words |-> words]
List(items) == [kind |-> "list", items |-> items]
Object(entries) == [kind |-> "object", entries |-> entries]

Result(value, reports) == [value |-> value, reported |-> reports]

(* _field_category: the name of the field hides its whole value *)
Hides(key, value) == key \in SensitiveKeys /\ value.kind # "null"

-----------------------------------------------------------------------------
Words == STRING \ {"private"}

(* the two words of a secret are not met alone *)
Whole(words) ==
  \A i \in DOMAIN words :
    /\ words[i] = "sec" => i + 1 \in DOMAIN words /\ words[i + 1] = "ret"
    /\ words[i] = "ret" => i - 1 \in DOMAIN words /\ words[i - 1] = "sec"

IsText(words) == words \in Seq(Words) /\ Whole(words)

IsValue(value) ==
  \/ value = Null
  \/ value.kind = "text" /\ value = Text(value.words) /\ IsText(value.words)
  \/ value.kind = "list" /\ value = List(value.items) /\ value.items \in Seq(Values)
  \/ /\ value.kind = "object" /\ value = Object(value.entries)
     /\ value.entries = [key \in DOMAIN value.entries |-> value.entries[key]]
     /\ \A key \in DOMAIN value.entries :
          /\ key \in Range(KeyOrder)
          /\ Hides(key, value.entries[key]) \/ value.entries[key] \in Values

ASSUME SanitizerAssumption ==
  /\ {MaxDepth, MaxItems, MaxLength} \subseteq Nat \ {0}
  /\ MaxSize \in Nat \ {0, 1}
  /\ KeyOrder \in Seq(Seq(Words)) /\ IsInjective(KeyOrder)
  /\ \A key \in Range(KeyOrder) : IsText(key)
  /\ IndexText \in [0..(MaxItems - 1) -> Words \ {"sec", "ret"}]
  /\ \A value \in Values : IsValue(value)
  /\ \A value \in Samples : value \in Values /\ value.kind = "object"

-----------------------------------------------------------------------------
Redacted(words) ==
  LET done[i \in 0..Len(words)] ==
        IF i = 0 THEN <<>>
        ELSE IF i > 1 /\ words[i - 1] = "sec" /\ words[i] = "ret"
        THEN Append(Front(done[i - 1]), "[REDACTED]")
        ELSE Append(done[i - 1], words[i])
  IN  done[Len(words)]

Cut(sequence, length) ==
  IF Len(sequence) > length THEN SubSeq(sequence, 1, length) ELSE sequence

Exceeds(sequence, length, limit) == IF Len(sequence) > length THEN {limit} ELSE {}

Hidden(words) == IF Redacted(words) # words THEN {"REDACTED"} ELSE {}

(* mutant: a text is cut before it is searched for secrets *)
SafeTextCutFirst(words) ==
  LET short == Cut(words, MaxLength) IN
  Result(Text(Redacted(short)), Hidden(short) \cup Exceeds(words, MaxLength, "STRING_LENGTH"))

SafeText(words) ==
  LET safe == Redacted(words)
      long == Exceeds(safe, MaxLength, "STRING_LENGTH")
      shown == IF long # {} THEN Append(Cut(safe, MaxLength), "[TRUNCATED]") ELSE safe
  IN  Result(Text(shown), Hidden(words) \cup long)

(* a key that had a secret gets a name of its own *)
KeyName(key, i) == IF Redacted(key) # key THEN <<"_redacted_key", IndexText[i]>> ELSE key

(* mutant: the suffix makes a key longer than the bound *)
SafeKeyLengthened(key, i, taken) ==
  LET short == Cut(KeyName(key, i), MaxLength) IN
  IF short \in taken THEN Append(short, IndexText[i]) ELSE short

(* a key that is taken gets its index as a suffix; what is taken under     *)
(* that name, too, is overwritten                                          *)
SafeKey(key, i, taken) ==
  LET short == Cut(KeyName(key, i), MaxLength)
      prefix == IF MaxLength > 1 THEN MaxLength - 1 ELSE 1
  IN  IF short \in taken THEN Append(Cut(short, prefix), IndexText[i]) ELSE short

(* mutant: a key is cut without a report *)
KeyReportsSecrets(key, i) == Hidden(key)

KeyReports(key, i) ==
  Hidden(key) \cup Exceeds(KeyName(key, i), MaxLength, "STRING_LENGTH")

(* sorted(): some of the keys, in their order *)
Sorted(keys) ==
  LET listed[i \in 0..Len(KeyOrder)] ==
        IF i = 0 THEN <<>>
        ELSE IF KeyOrder[i] \in keys THEN Append(listed[i - 1], KeyOrder[i])
        ELSE listed[i - 1]
  IN  listed[Len(KeyOrder)]

(* the safe keys, one after the other, the earlier ones taken *)
SafeKeys(keys) ==
  LET named[i \in 0..Len(keys)] ==
        IF i = 0 THEN <<>>
        ELSE Append(named[i - 1], SafeKey(keys[i], i - 1, Range(named[i - 1])))
  IN  named[Len(keys)]

Mark == Text(<<"[REDACTED]">>)

(* DEPTH_LIMIT and METADATA_SIZE_LIMIT *)
MarkObject == Object([key \in {<<"_redacted">>} |-> Mark])

(* an entry of an object; safe is what its value is made to *)
SafeField(key, value, safe) ==
  IF Hides(key, value) THEN Result(Mark, {"REDACTED"}) ELSE safe[value]

SafeObject(entries, safe) ==
  LET all == Sorted(DOMAIN entries)
      keys == Cut(all, MaxItems)
      names == SafeKeys(keys)
      field(i) == SafeField(keys[i], entries[keys[i]], safe)
      last(name) == CHOOSE i \in DOMAIN keys :
                      names[i] = name /\ \A j \in DOMAIN keys : names[j] = name => j <= i
  IN  Result(Object([name \in Range(names) |-> field(last(name)).value]),
             (UNION {KeyReports(keys[i], i - 1) \cup field(i).reported : i \in DOMAIN keys})
               \cup Exceeds(all, MaxItems, "COLLECTION_ITEMS"))

SafeList(items, safe) ==
  LET kept == Cut(items, MaxItems) IN
  Result(List([i \in DOMAIN kept |-> safe[kept[i]].value]),
         (UNION {safe[kept[i]].reported : i \in DOMAIN kept})
           \cup Exceeds(items, MaxItems, "COLLECTION_ITEMS"))

(* a value when so many levels are left to max_depth *)
SafeValue(value, left, below) ==
  CASE value.kind = "text" -> SafeText(value.words)
    [] value.kind = "list" /\ left > 0 -> SafeList(value.items, below)
    [] value.kind = "object" /\ left > 0 -> SafeObject(value.entries, below)
    [] value.kind = "list" /\ left = 0 -> Result(Mark, {"DEPTH"})
    [] value.kind = "object" /\ left = 0 -> Result(MarkObject, {"DEPTH"})
    [] value.kind = "null" -> Result(value, {})

Safe[left \in 0..MaxDepth] ==
  [value \in Values |-> SafeValue(value, left, Safe[left - 1])]

-----------------------------------------------------------------------------
(* What is in a value: nodes, each a path of indexes and keys with what is *)
(* at its end.                                                             *)

Parts(node) ==
  LET path == node[1]
      part == node[2]
  IN  CASE part.kind = "list" ->
             {<<Append(path, i), part.items[i]>> : i \in DOMAIN part.items}
        [] part.kind = "object" ->
             {<<Append(path, key), part.entries[key]>> : key \in DOMAIN part.entries}
        [] OTHER -> {}

(* no copy is deeper than its bound and the mark that stands there *)
Nodes(value) ==
  LET level[n \in 0..(MaxDepth + 1)] ==
        IF n = 0 THEN {<< <<>>, value>>} ELSE UNION {Parts(node) : node \in level[n - 1]}
  IN  UNION {level[n] : n \in 0..(MaxDepth + 1)}

OwnWords(part) ==
  CASE part.kind = "text" -> Range(part.words)
    [] part.kind = "object" -> UNION {Range(key) : key \in DOMAIN part.entries}
    [] OTHER -> {}

(* where the words of a node are, those of its keys included *)
Places(node) ==
  LET path == node[1]
      part == node[2]
  IN  CASE part.kind = "text" -> {<<path, i>> : i \in DOMAIN part.words}
        [] part.kind = "object" ->
             UNION {{<<path, key, i>> : i \in DOMAIN key} : key \in DOMAIN part.entries}
        [] OTHER -> {}

Size(value) == Cardinality(UNION {Places(node) : node \in Nodes(value)})

Sanitized(value) ==
  LET safe == Safe[MaxDepth][value] IN
  IF Size(safe.value) <= MaxSize THEN safe
  ELSE Result(MarkObject, safe.reported \cup {"METADATA_SIZE"})

-----------------------------------------------------------------------------
SanitizerInit ==
  /\ metadata \in Samples \cup {Absent}
  /\ copy = Absent
  /\ reported = {}

(* sanitize_payment, before a decision is published *)
Sanitize ==
  /\ metadata # Absent /\ copy = Absent
  /\ LET safe == Sanitized(metadata) IN copy' = safe.value /\ reported' = safe.reported
  /\ UNCHANGED metadata

SanitizerSpec == SanitizerInit /\ [][Sanitize]_sanitizerVars

-----------------------------------------------------------------------------
(***************************************************************************)
(* No part of a recognized secret and nothing from a sensitive field is in *)
(* the copy, in a key or a value, at any depth, wherever the text was cut  *)
(* (privacy.py:139-197; docs/PRIVACY.md).                                  *)
(***************************************************************************)
NothingSensitive ==
  copy # Absent =>
    \A node \in Nodes(copy) : OwnWords(node[2]) \cap {"sec", "ret", "private"} = {}

Within(node) ==
  LET depth == Len(node[1])
      part == node[2]
  IN  CASE part.kind = "text" -> Len(part.words) <= MaxLength + 1
        [] part.kind = "list" -> depth < MaxDepth /\ Len(part.items) <= MaxItems
        [] part.kind = "object" ->
             /\ depth <= MaxDepth /\ Cardinality(DOMAIN part.entries) <= MaxItems
             /\ \A key \in DOMAIN part.entries : Len(key) <= MaxLength
        [] OTHER -> TRUE

(***************************************************************************)
(* The copy is bounded whatever the metadata (privacy.py:120-123, 136-157, *)
(* 175-192; docs/PRIVACY.md): in all, in depth, in the number of entries   *)
(* and the length of texts, and of keys after they were made unique.       *)
(***************************************************************************)
Bounded == copy # Absent => (\A node \in Nodes(copy) : Within(node)) /\ Size(copy) <= MaxSize

(***************************************************************************)
(* A copy that differs from the metadata says so: nothing is replaced,     *)
(* cut, left out or overwritten without a redaction count or a limit among *)
(* the evidence (privacy.py:142-162), also when a key made unique falls on *)
(* another one.                                                            *)
(***************************************************************************)
LossIsReported == copy # Absent /\ reported = {} => copy = metadata
=============================================================================
