---------------------------- MODULE GuardedWriter ----------------------------
(***************************************************************************)
(* guarded_writer.rs: the only writer of files in the workspace.  Secrets  *)
(* are registered as they are received, those of the environment are added *)
(* at each call, and a write whose bytes or path hold a form of a known    *)
(* secret is refused before its destination is opened.                     *)
(*                                                                         *)
(* A byte string, a path and a secret are sequences of tokens, see         *)
(* SecretForms.                                                            *)
(***************************************************************************)
EXTENDS Naturals, Sequences, SequencesExt, FiniteSetsExt

CONSTANTS
    MinSecret,      \* shorter values are flags (8 in the code)
    FormsOf,        \* value -> the forms it is recognised in (SecretForms)
    Env,            \* the environment, sorted by name
    Received,       \* what register_secret is called with: [name, value]
    Texts,          \* the byte strings handed to the writer
    Paths,          \* the destinations; the last token is the file's name
    MaxFile         \* bound: no file grows beyond this many tokens

VARIABLES
    secrets,        \* the registered secrets, in order of arrival
    files,          \* path -> contents, or NoFile
    names           \* the paths the last operation made, or shows in its refusal

vars == <<secrets, files, names>>

NoFile == << <<"no file">> >>

Init ==
  /\ secrets = << >>
  /\ files = [p \in Paths |-> NoFile]
  /\ names = {}

-----------------------------------------------------------------------------
(* What is known.                                                          *)

IsLongEnough(value) == Len(value) >= MinSecret

\* remember_secret: flags and what is known already are not added.
Remember(known, name, value) ==
  LET secret == [name |-> name, value |-> value]
  IN  IF IsLongEnough(value) /\ ~ Contains(known, secret)
        THEN Append(known, secret) ELSE known

\* is_secret_name, on the kinds its lists of markers tell apart.
IsSecretName(kind) == kind \in {"marker", "dsn", "database url"}

\* One variable of the environment; the seed of the storage that parses is
\* taken apart into its keys and its values.
FromVariable(known, variable) ==
  IF variable.kind = "storage" /\ variable.entries # << >>
    THEN FoldLeft(LAMBDA k, v : Remember(k, variable.name, v), known,
                  FlattenSeq(variable.entries))
  ELSE IF IsSecretName(variable.kind) \/ variable.kind = "storage"
    THEN Remember(known, variable.name, variable.value)
  ELSE known

LockKnownSecrets == FoldLeft(FromVariable, secrets, Env)

-----------------------------------------------------------------------------
(* What is refused.                                                        *)

Holds(bytes, form) ==
  \E i \in 0..(Len(bytes) - Len(form)) : SubSeq(bytes, i + 1, i + Len(form)) = form

\* refuse_if_secret lets the bytes and the path pass.
Passes(path, bytes, known) ==
  \A i \in DOMAIN known : \A form \in FormsOf[known[i].value] :
    ~ Holds(bytes, form) /\ ~ Holds(path, form)

Redact(path, form) ==
  LET at == {i \in 0..(Len(path) - Len(form)) : SubSeq(path, i + 1, i + Len(form)) = form}
      first == Min(at)
  IN  IF at = {} THEN path
      ELSE SubSeq(path, 1, first) \o << <<"[redacted]">> >>
             \o SubSeq(path, first + Len(form) + 1, Len(path))

\* safe_path: every form of every known secret is replaced, the longest
\* first, as often as it is there.
SafePath(path, known) ==
  LET all == UNION {FormsOf[known[i].value] : i \in DOMAIN known}
      Everywhere(form, p) == FoldSet(LAMBDA i, q : Redact(q, form), p, DOMAIN p)
      OfLength(n, p) == FoldSet(Everywhere, p, {form \in all : Len(form) = n})
  IN  FoldRight(OfLength, [n \in DOMAIN path |-> n], path)

-----------------------------------------------------------------------------
(* The operations.                                                         *)

\* register_secret.
RegisterSecret(secret) ==
  /\ secrets' = Remember(secrets, secret.name, secret.value)
  /\ names' = {}
  /\ UNCHANGED files

Refuse(path, known) ==
  /\ names' = {SafePath(path, known)}
  /\ UNCHANGED files

Fail == names' = {} /\ UNCHANGED files

\* create_parent, and the file itself.
Made(path) == {path} \cup (IF Len(path) > 1 THEN {Front(path)} ELSE {})

\* The bytes reach the file; a disk that fails cuts them off anywhere.
Put(path, before, bytes) ==
  /\ \E n \in 0..Len(bytes) : files' = [files EXCEPT ![path] = before \o SubSeq(bytes, 1, n)]
  /\ names' = Made(path)

\* write_file_locked.
WriteLocked(path, bytes, known) ==
  \/ Passes(path, bytes, known) /\ Put(path, << >>, bytes)
  \/ ~ Passes(path, bytes, known) /\ Refuse(path, known)

WriteFile(path, bytes) ==
  /\ secrets' = LockKnownSecrets
  /\ WriteLocked(path, bytes, secrets')

Before(path) == IF files[path] = NoFile THEN << >> ELSE files[path]

\* Mutation: only the bytes appended are looked at.
AppendPassesOnItsBytes(path, bytes, known) == Passes(path, bytes, known)

\* Both the bytes and the file they would make are checked.
AppendPasses(path, bytes, known) ==
  Passes(path, bytes, known) /\ Passes(path, Before(path) \o bytes, known)

\* append_file.
AppendFile(path, bytes) ==
  /\ Len(Before(path) \o bytes) <= MaxFile
  /\ secrets' = LockKnownSecrets
  /\ \/ AppendPasses(path, bytes, secrets') /\ Put(path, Before(path), bytes)
     \/ ~ AppendPasses(path, bytes, secrets') /\ Refuse(path, secrets')

\* copy_file; the source is read after its path has passed.
CopyFile(source, destination) ==
  /\ secrets' = LockKnownSecrets
  /\ \/ ~ Passes(source, << >>, secrets') /\ Refuse(source, secrets')
     \/ /\ Passes(source, << >>, secrets')
        /\ files[source] = NoFile
        /\ Fail
     \/ /\ Passes(source, << >>, secrets')
        /\ files[source] # NoFile
        /\ WriteLocked(destination, files[source], secrets')

\* rename_file.
RenameFile(source, destination) ==
  LET passes == /\ Passes(source, << >>, secrets')
                /\ Passes(destination, << >>, secrets')
  IN  /\ secrets' = LockKnownSecrets
      /\ \/ ~ passes /\ \E p \in {source, destination} :
                          ~ Passes(p, << >>, secrets') /\ Refuse(p, secrets')
         \/ passes /\ files[source] = NoFile /\ Fail
         \/ /\ passes
            /\ files[source] # NoFile
            /\ \/ /\ ~ Passes(destination, files[source], secrets')
                  /\ Refuse(destination, secrets')
               \/ /\ Passes(destination, files[source], secrets')
                  /\ files' = IF source = destination THEN files
                              ELSE [files EXCEPT ![destination] = files[source],
                                                 ![source] = NoFile]
                  /\ names' = Made(destination)

\* create_dir, create_dir_all and create_private_dir.
CreateDir(path) ==
  /\ secrets' = LockKnownSecrets
  /\ \/ /\ Passes(path, << >>, secrets')
        /\ names' = {path}
        /\ UNCHANGED files
     \/ ~ Passes(path, << >>, secrets') /\ Refuse(path, secrets')

Next ==
  \/ \E secret \in Received : RegisterSecret(secret)
  \/ \E path \in Paths : CreateDir(path)
  \/ \E path \in Paths, bytes \in Texts : WriteFile(path, bytes) \/ AppendFile(path, bytes)
  \/ \E source, destination \in Paths :
       CopyFile(source, destination) \/ RenameFile(source, destination)

Spec == Init /\ [][Next]_vars

-----------------------------------------------------------------------------
\* What a step may put on disk or word in a refusal: nothing that holds a
\* form of a secret known by then.
WritesNothingKnown ==
  LET clean(bytes) == \A i \in DOMAIN secrets' : \A form \in FormsOf[secrets'[i].value] :
                        ~ Holds(bytes, form)
  IN  /\ \A p \in Paths : files'[p] # files[p] => clean(files'[p])
      /\ \A p \in names' \ names : clean(p)

\* So does no step: not a file put together from pieces that are harmless
\* alone, not one that a failing disk cut off, not one written before the
\* secret was known and moved after.
NothingKnownGetsOut == [][WritesNothingKnown]_vars
=============================================================================
