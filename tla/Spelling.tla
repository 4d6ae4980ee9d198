------------------------------ MODULE Spelling ------------------------------
(***************************************************************************)
(* The table an aligner spells with: read from {token: id} pairs, checked  *)
(* against what the model's contract states of it, and written out as the  *)
(* tokenizer document the external seam is built from, which reserves the  *)
(* columns that are no letters.                                            *)
(*                                                                         *)
(* What is reserved is stated by the contract, declared in the document,   *)
(* parsed by another crate, and read back; the letters are all the rest.   *)
(***************************************************************************)
EXTENDS Naturals, FiniteSets, Sequences

VARIABLES
  given,   \* the pairs of the file, in order
  stated,  \* the contract, whether the normalizer delimits words, the head's width
  load     \* what reading and loading came to
spellingVars == <<given, stated, load>>

-----------------------------------------------------------------------------
(* Tokens.                                                                 *)

Lowercase == {"a", "b"}
Uppercase == {"A", "B"}
Names == {"<pad>", "<unk>"}
IsWhitespace(token) == token = " "
IsOneScalar(token) == token # "" /\ token \notin Names

\* The first complaint that holds, or none.
FirstOf(complaints) ==
  LET held == {i \in DOMAIN complaints : complaints[i][1]}
  IN IF held = {} THEN "ok" ELSE complaints[CHOOSE i \in held : \A j \in held : i <= j][2]

-----------------------------------------------------------------------------
(* The table: each token in the place of its id.                           *)

\* from_json: every token once, every id below their number.
FromJson(pairs) ==
  LET size == Len(pairs)
      ids == {pairs[i][2] : i \in 1 .. size}
      missing == {id \in 0 .. size - 1 : id \notin ids}
      read == FirstOf(<<
        <<\E i, j \in 1 .. size : i # j /\ pairs[i][1] = pairs[j][1], "DuplicateToken">>,
        <<size = 0, "Empty">>, <<missing # {}, "MissingId">> >>)
  IN [what |-> read,
      table |-> IF read # "ok" THEN <<>>
                ELSE [id \in 0 .. size - 1 |-> pairs[CHOOSE i \in 1 .. size : pairs[i][2] = id][1]]]

IdOf(table, token) == {id \in DOMAIN table : table[id] = token}
Contains(table, token) == IdOf(table, token) # {}

\* The token the seam is told to delimit words with.
SeamToken(delimiter) ==
  CASE delimiter = "Pipe" -> "|" [] delimiter = "Space" -> " " [] delimiter = "Absent" -> ""

\* What the contract says is no letter: its blank, its delimiter, its specials.
NonLexical(table, contract) ==
  ({contract.blank} \cap DOMAIN table)
  \cup (IF contract.delimiter = "Absent" THEN {} ELSE IdOf(table, SeamToken(contract.delimiter)))
  \cup UNION {IdOf(table, special) : special \in contract.specials}
Lexical(table, contract) == {table[id] : id \in DOMAIN table \ NonLexical(table, contract)}

\* The document: the table, and what is no letter declared special.
TokenizerDocument(table, contract) ==
  [vocab |-> table, special |-> NonLexical(table, contract), unknown |-> "<unk>"]

-----------------------------------------------------------------------------
(* The seam.  Parsing drops an added token that spells nothing.            *)

ParsedSpecials(document) == {id \in document.special : document.vocab[id] # ""}
SeamReserved(document, contract) ==
  ParsedSpecials(document)
  \cup {contract.blank}
  \cup IdOf(document.vocab, SeamToken(contract.delimiter))
  \cup IdOf(document.vocab, document.unknown)

\* The column a character is read in: an ASCII letter is looked up in upper
\* case where the contract says so; white space is never looked up.
InCase(case, char) ==
  IF case = "Upper" THEN CASE char = "a" -> "A" [] char = "b" -> "B" [] OTHER -> char ELSE char
ColumnsRead(document, contract, char) ==
  IF IsWhitespace(char) \/ ~IsOneScalar(char) THEN {}
  ELSE IdOf(document.vocab, InCase(contract.case, char)) \ SeamReserved(document, contract)

-----------------------------------------------------------------------------
(* The checks of loading.                                                  *)

CheckBlank(table, contract) == contract.blank \in DOMAIN table

\* A special that spells nothing is declared in vain, unless the blank or the
\* delimiter reserves its column.
EmptySpecial(table, contract) ==
  /\ "" \in contract.specials
  /\ \E id \in IdOf(table, "") :
       /\ id # contract.blank
       /\ IdOf(table, SeamToken(contract.delimiter)) # {id}

\* check_tokenization: the first way table, normalizer and statement disagree.
CheckTokenization(table, contract, delimited) ==
  LET lexical == Lexical(table, contract)
      spells == contract.delimiter # "Absent"
  IN FirstOf(<<
       <<EmptySpecial(table, contract), "EmptySpecial">>,
       <<\E token \in lexical : IsWhitespace(token), "WhitespaceToken">>,
       <<spells /\ delimited /\ ~Contains(table, SeamToken(contract.delimiter)), "DelimiterMissing">>,
       <<spells /\ ~delimited, "DelimiterUnused">>,
       <<~spells /\ delimited, "DelimiterRequired">>,
       <<contract.case = "Upper" /\ lexical \cap Lowercase # {}, "UpperWithLowercase">>,
       <<contract.case = "AsWritten" /\ lexical \cap Uppercase # {} /\ lexical \cap Lowercase = {}, "ProjectedAsWritten">>,
       <<\E token \in lexical : ~IsOneScalar(token), "NotCharacterLevel">> >>)

CheckReserved(table, contract) ==
  SeamReserved(TokenizerDocument(table, contract), contract) = NonLexical(table, contract)

\* from_paths_with_vocabulary, as far as the table is concerned.
LoadWithVocabulary(table, contract, delimited, width) ==
  LET disagreement == CheckTokenization(table, contract, delimited)
  IN FirstOf(<<
       <<~CheckBlank(table, contract), "BlankOutOfVocabulary">>,
       <<disagreement # "ok", disagreement>>,
       <<~CheckReserved(table, contract), "ReservedSetMismatch">>,
       <<Cardinality(DOMAIN table) # width, "VocabularyMismatch">> >>)

-----------------------------------------------------------------------------
SpellingNext ==
  /\ load = [what |-> "unread"]
  /\ LET read == FromJson(given)
     IN load' = IF read.what # "ok" THEN read
                ELSE [what |-> LoadWithVocabulary(read.table, stated.contract, stated.delimited, stated.width),
                      table |-> read.table]
  /\ UNCHANGED <<given, stated>>

-----------------------------------------------------------------------------
(* Properties.                                                             *)

\* A table that passes the checks of its tokens reserves what it declares: the
\* other crate's parse drops nothing the contract meant and adds nothing to it.
ReservedAsDeclared == load.what # "ReservedSetMismatch"

\* Every column of an aligner that opened is its token's, and is reserved or
\* the one some character is read in.
EveryColumnIsReadOrReserved ==
  load.what = "ok" =>
    LET document == TokenizerDocument(load.table, stated.contract)
    IN /\ \A i \in 1 .. Len(given) : load.table[given[i][2]] = given[i][1]
       /\ \A id \in DOMAIN load.table :
            \/ id \in SeamReserved(document, stated.contract)
            \/ id \in ColumnsRead(document, stated.contract, load.table[id])

SpellingHolds == ReservedAsDeclared /\ EveryColumnIsReadOrReserved
=============================================================================
