-------------------------------- MODULE Encrypt --------------------------------
(***************************************************************************)
(* The Encrypt tab of Security Center: the chosen file is read, a key      *)
(* derived, and the result published beside it under a name derived from   *)
(* the chosen one, by a hard link from a temporary file.  Deriving takes   *)
(* long, and other programs write files meanwhile.                         *)
(***************************************************************************)
EXTENDS Naturals, FiniteSets, Sequences

CONSTANTS
    Phrases,             \* passphrases
    Letters,             \* what files hold before anything is encrypted
    MaxSealings, MaxWrites  \* bounds: jobs of the tab, files other programs write

ASSUME EncryptConstants == MaxSealings \in Nat /\ MaxWrites \in Nat

VARIABLES
    plainDisk,   \* of each name: nothing, or what the file holds
    sealTarget,      \* _encrypt_target
    sealing,     \* the job under way: nothing, or what it will publish and where
    theirFiles,  \* history: what other programs wrote last under each name, if it is theirs
    toldSealed,  \* history: what the tab said it has written
    sealings, diskWrites

encryptVars == <<plainDisk, sealTarget, sealing, theirFiles, toldSealed, sealings, diskWrites>>

\* x, x.darkvault, x.darkvault.darkvault, x.decrypted.
VaultNames == {"plain", "vault", "vault vault", "decrypted"}

\* What a file holds: a text, under so many passphrases, the last one outermost.
Sealings == {<<>>} \cup {<<p>> : p \in Phrases} \cup {<<p, q>> : p, q \in Phrases}
Holdings == [text : Letters, under : Sealings]
PlainTexts == [text : Letters, under : {<<>>}]

EncryptTypeOK ==
    /\ \A n \in VaultNames : /\ plainDisk[n] \subseteq Holdings /\ Cardinality(plainDisk[n]) <= 1
                        /\ theirFiles[n] \subseteq PlainTexts
    /\ sealTarget \in VaultNames \cup {"none"} /\ toldSealed \subseteq [to : VaultNames, what : Holdings]
    /\ sealing \subseteq [to : VaultNames, what : Holdings] /\ Cardinality(sealing) <= 1
    /\ sealings \in 0..MaxSealings /\ diskWrites \in 0..MaxWrites

EncryptInit ==
    /\ \E t \in PlainTexts : plainDisk = [n \in VaultNames |-> IF n = "plain" THEN {t} ELSE {}]
    /\ theirFiles = plainDisk
    /\ sealTarget = "none" /\ sealing = {} /\ toldSealed = {}
    /\ sealings = 0 /\ diskWrites = 0

-----------------------------------------------------------------------------
\* The name with .darkvault after it, and the name decrypting gives; longer ones
\* are left out.
Vaulted(n) == CASE n = "plain" -> "vault" [] n = "vault" -> "vault vault" [] OTHER -> "none"
Unvaulted(n) == CASE n = "vault" -> "plain" [] n = "vault vault" -> "vault"
                  [] n = "plain" -> "decrypted" [] OTHER -> "none"

ChoosesFile(n) ==
    /\ sealing = {} /\ plainDisk[n] # {} /\ sealTarget' = n
    /\ UNCHANGED <<plainDisk, sealing, theirFiles, toldSealed, sealings, diskWrites>>

Begins(n, what) ==
    /\ n # "none" /\ sealings < MaxSealings /\ sealings' = sealings + 1
    /\ sealing' = {[to |-> n, what |-> what]}
    /\ UNCHANGED <<plainDisk, sealTarget, theirFiles, toldSealed, diskWrites>>

\* _do_encrypt up to the link.  A target that is gone is an OSError, and the
\* label's.
Encrypts(p) ==
    /\ sealing = {} /\ sealTarget # "none"
    /\ \E c \in plainDisk[sealTarget] :
           /\ Len(c.under) < 2
           /\ Begins(Vaulted(sealTarget), [c EXCEPT !.under = Append(@, p)])

\* _do_decrypt, likewise; a wrong passphrase, or a file that is not encrypted, is
\* InvalidToken.
Decrypts(p) ==
    /\ sealing = {} /\ sealTarget # "none"
    /\ \E c \in plainDisk[sealTarget] :
           /\ c.under # <<>> /\ c.under[Len(c.under)] = p
           /\ Begins(Unvaulted(sealTarget), [c EXCEPT !.under = SubSeq(@, 1, Len(@) - 1)])

\* Seeded bug: the temporary file is renamed to the name it is for.
RenameSucceeds(n) == TRUE

LinkIsNew(n) == plainDisk[n] = {}

\* os.link, and the temporary file's end, whatever comes of it: there may be no
\* room for it, or no hard links.
PublishesPrivate ==
    \E job \in sealing :
        /\ sealing' = {}
        /\ \/ /\ LinkIsNew(job.to)
              /\ plainDisk' = [plainDisk EXCEPT ![job.to] = {job.what}]
              /\ toldSealed' = toldSealed \cup {job}
           \/ UNCHANGED <<plainDisk, toldSealed>>
        /\ UNCHANGED <<sealTarget, theirFiles, sealings, diskWrites>>

\* Another program writes a file of its own, or deletes one.
OthersWrite(n, holding) ==
    /\ diskWrites < MaxWrites /\ diskWrites' = diskWrites + 1 /\ plainDisk' = [plainDisk EXCEPT ![n] = holding]
    /\ theirFiles' = [theirFiles EXCEPT ![n] = holding] /\ toldSealed' = {job \in toldSealed : job.to # n}
    /\ UNCHANGED <<sealTarget, sealing, sealings>>

EncryptNext ==
    \/ \E n \in VaultNames : ChoosesFile(n)
    \/ \E p \in Phrases : Encrypts(p) \/ Decrypts(p)
    \/ PublishesPrivate
    \/ \E n \in VaultNames : \E holding \in {{}} \cup {{t} : t \in PlainTexts} : OthersWrite(n, holding)

EncryptSpec == EncryptInit /\ [][EncryptNext]_encryptVars

-----------------------------------------------------------------------------
\* write_private_new "publishes a complete private file without replacing any
\* existing path": a file of another program, the plain original too, keeps its
\* content whenever it came, and what the tab said it wrote is under that name.
NothingIsReplaced ==
    /\ \A n \in VaultNames : theirFiles[n] # {} => plainDisk[n] = theirFiles[n]
    /\ \A job \in toldSealed : plainDisk[job.to] = {job.what}
=============================================================================
