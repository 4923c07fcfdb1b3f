--------------------------- MODULE CardSignatures ---------------------------
(***************************************************************************)
(* The keys that sign the driver card files (helpers/tachograph/           *)
(* rsa_keys.py, signature.py), the archive written from the files of one   *)
(* request and what reading it back finds.                                 *)
(*                                                                         *)
(* A signature is its key and what it signs: it opens with that key only.  *)
(* The content of a file is its name, certificates apart.                  *)
(***************************************************************************)
EXTENDS Integers, Sequences, FiniteSets, SequencesExt

CONSTANTS
  KeyRequest,   \* the requests for a signed file
  FileOrder,    \* the files of an archive, in order
  Signable,     \* those that are signed
  StateFile,    \* CA_CERTIFICATE
  CardFile,     \* CARD_CERTIFICATE
  Unsigned      \* no signature

VARIABLES
  keyRows,   \* table c1b_signing_key, in the order of insertion
  signing,   \* each request
  archives   \* the archives answered

signatureVars == <<keyRows, signing, archives>>

KeyOwner == {"root", "state", "card"}

KeysOf(owner) == {i \in DOMAIN keyRows : keyRows[i].owner = owner}

\* The rows the query for the newest may return: the serial number is not
\* unique.
NewestKeys(owner) ==
  {i \in KeysOf(owner) : \A j \in KeysOf(owner) : keyRows[j].serial <= keyRows[i].serial}

NextSerial(owner) ==
  IF KeysOf(owner) = {} THEN 1
  ELSE keyRows[CHOOSE i \in NewestKeys(owner) : TRUE].serial + 1

-----------------------------------------------------------------------------
(* The archive: each file, then its signature.                              *)

SignatureOf(key, content) == [by |-> key, of |-> content]

CertificateOf(key, authority) == SignatureOf(authority, key)

\* Seeded fault: the card certificate is that of the newest key.
CardFilesOfNewest(card, state, root) ==
  [i \in DOMAIN FileOrder |->
     LET file == FileOrder[i]
         content == CASE file = StateFile -> CertificateOf(state, root)
                      [] file = CardFile ->
                           CertificateOf(CHOOSE k \in NewestKeys("card") : TRUE, state)
                      [] OTHER -> [name |-> file]
     IN  [spec |-> file, content |-> content,
          signature |-> IF file \in Signable THEN SignatureOf(card, content) ELSE Unsigned]]

\* generate_tachograph_parts and File.sign
CardFiles(card, state, root) ==
  [i \in DOMAIN FileOrder |->
     LET file == FileOrder[i]
         content == CASE file = StateFile -> CertificateOf(state, root)
                      [] file = CardFile  -> CertificateOf(card, state)
                      [] OTHER            -> [name |-> file]
     IN  [spec |-> file, content |-> content,
          signature |-> IF file \in Signable THEN SignatureOf(card, content) ELSE Unsigned]]

DumpFile(f) ==
  <<[spec |-> f.spec, signs |-> FALSE, content |-> f.content]>> \o
  (IF f.signature = Unsigned THEN <<>>
   ELSE <<[spec |-> f.spec, signs |-> TRUE, content |-> f.signature]>>)

WriteArchive(files) == FlattenSeq([i \in DOMAIN files |-> DumpFile(files[i])])

AddBlock(files, block) ==
  IF ~block.signs
    THEN Append(files, [spec |-> block.spec, content |-> block.content, signature |-> Unsigned])
    ELSE LET i == SelectInSeq(files, LAMBDA f : f.spec = block.spec)
         IN  [files EXCEPT ![i].signature = block.content]

ParseArchive(blocks) == FoldLeft(AddBlock, <<>>, blocks)

FileNamed(files, spec) == files[SelectInSeq(files, LAMBDA f : f.spec = spec)]

\* verify_certificate_and_get_pk, for a certificate the authority signed.
OpensWith(certificate, authority) == certificate.by = authority

IsSignatureRight(f, key) ==
  f.signature = Unsigned \/ (f.signature.by = key /\ f.signature.of = f.content)

\* verify_signatures
VerifiesWith(files, root) ==
  LET state == FileNamed(files, StateFile).content
      card  == FileNamed(files, CardFile).content
  IN  /\ OpensWith(state, root)
      /\ OpensWith(card, state.of)
      /\ \A i \in DOMAIN files : IsSignatureRight(files[i], card.of)

-----------------------------------------------------------------------------
(* A request asks for the card key, then for that of the member state, and  *)
(* makes the one that is missing.                                           *)

OwnerAsked(q) == IF signing[q].card = 0 THEN "card" ELSE "state"

Holding(task, key) == [(IF task.card = 0 THEN [task EXCEPT !.card = key]
                        ELSE [task EXCEPT !.state = key]) EXCEPT !.step = "ask"]

FindKey(q) ==
  /\ signing[q].step = "ask"
  /\ signing[q].state = 0
  /\ \E key \in NewestKeys(OwnerAsked(q)) :
       signing' = [signing EXCEPT ![q] = Holding(@, key)]
  /\ UNCHANGED <<keyRows, archives>>

MissKey(q) ==
  /\ signing[q].step = "ask"
  /\ signing[q].state = 0
  /\ KeysOf(OwnerAsked(q)) = {}
  /\ signing' = [signing EXCEPT ![q].step = "count"]
  /\ UNCHANGED <<keyRows, archives>>

\* generate_new_key reads the newest key again, then draws the key.
CountKeys(q) ==
  /\ signing[q].step = "count"
  /\ signing' = [signing EXCEPT ![q].step = "insert", ![q].serial = NextSerial(OwnerAsked(q))]
  /\ UNCHANGED <<keyRows, archives>>

InsertKey(q) ==
  /\ signing[q].step = "insert"
  /\ keyRows' = Append(keyRows, [owner |-> OwnerAsked(q), serial |-> signing[q].serial])
  /\ signing' = [signing EXCEPT ![q] = Holding(@, Len(keyRows) + 1)]
  /\ UNCHANGED archives

\* Without a root key the signing service is unavailable.
SignArchive(q) ==
  /\ signing[q].step = "ask"
  /\ signing[q].state # 0
  /\ signing' = [signing EXCEPT ![q].step = "done"]
  /\ archives' = archives \cup
       {WriteArchive(CardFiles(signing[q].card, signing[q].state, root)) :
          root \in NewestKeys("root")}
  /\ UNCHANGED keyRows

\* A root key is put in by hand.
PutRootKey ==
  /\ KeysOf("root") = {}
  /\ keyRows' = Append(keyRows, [owner |-> "root", serial |-> 1])
  /\ UNCHANGED <<signing, archives>>

\* The request comes again.
AskAgain(q) ==
  /\ signing[q].step = "done"
  /\ signing' = [signing EXCEPT ![q] = [step |-> "ask", card |-> 0, state |-> 0, serial |-> 0]]
  /\ UNCHANGED <<keyRows, archives>>

SignatureInit ==
  /\ keyRows = <<>>
  /\ signing = [q \in KeyRequest |-> [step |-> "ask", card |-> 0, state |-> 0, serial |-> 0]]
  /\ archives = {}

SignatureNext ==
  \/ \E q \in KeyRequest :
       FindKey(q) \/ MissKey(q) \/ CountKeys(q) \/ InsertKey(q) \/ SignArchive(q) \/ AskAgain(q)
  \/ PutRootKey

SignatureSpec == SignatureInit /\ [][SignatureNext]_signatureVars

-----------------------------------------------------------------------------
\* Every variable has its type; a request holds keys of the right owners.
SignatureTypeOK ==
  /\ \A i \in DOMAIN keyRows :
       keyRows[i].owner \in KeyOwner /\ keyRows[i].serial \in 1..Len(keyRows)
  /\ \A q \in KeyRequest :
       /\ signing[q].step \in {"ask", "count", "insert", "done"}
       /\ signing[q].card # 0 => keyRows[signing[q].card].owner = "card"
       /\ signing[q].state # 0 => keyRows[signing[q].state].owner = "state"

\* An archive reads back as its files, and verifies against the root key,
\* though two first requests may each make a card key of the same number and
\* the query for the newest then answers either.
ArchivesVerify ==
  \A blocks \in archives : \E root \in KeysOf("root") :
    LET files == ParseArchive(blocks)
    IN  /\ [i \in DOMAIN files |-> files[i].spec] = FileOrder
        /\ VerifiesWith(files, root)
        /\ WriteArchive(files) = blocks

\* The keys are of their owners, and every archive verifies.
FilesAreVerified == SignatureTypeOK /\ ArchivesVerify
=============================================================================
