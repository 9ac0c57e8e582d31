-------------------------- MODULE CredentialVault --------------------------
(***************************************************************************)
(* The credential vault of the desktop controller (src/core/credential.cpp)*)
(* with the system store behind it: QSettings with DPAPI on Windows,       *)
(* Secret Service where libsecret was found, or none.  The build chooses   *)
(* one of the three.  Nothing in the program calls the vault yet: here it  *)
(* is called in any order.                                                 *)
(***************************************************************************)
EXTENDS Sequences

CONSTANTS
    Platforms,  \* the builds considered, of "windows", "libsecret", "none"
    Names,      \* the names of the secrets
    Secrets,    \* the secrets, none of them empty
    Missing     \* no value; what read() returns as the empty QByteArray

VARIABLES
    platform,   \* the build
    stored,     \* what the system store keeps under each name
    result      \* the latest call: no error was reported, and the bytes returned

vaultVars == <<platform, stored, result>>

\* Bytes: a secret and the encodings it is in, the outermost first.
Bytes == [secret : Secrets, coding : {<<>>, <<"dpapi">>, <<"base64">>, <<"base64", "dpapi">>}]

VaultTypeOK ==
    /\ platform \in Platforms
    /\ stored \in [Names -> Bytes \cup {Missing}]
    /\ result \in [ok : BOOLEAN, bytes : Bytes \cup {Missing}]

\* Nothing is stored before the first write.
VaultInit ==
    /\ platform \in Platforms
    /\ stored = [n \in Names |-> Missing]
    /\ result = [ok |-> TRUE, bytes |-> Missing]

\* The store takes the value and the call returns TRUE.
Keep(name, value) ==
    /\ stored' = [stored EXCEPT ![name] = value]
    /\ result' = [ok |-> TRUE, bytes |-> Missing]
    /\ UNCHANGED platform

\* The call leaves the store as it is.
Return(ok, bytes) ==
    /\ result' = [ok |-> ok, bytes |-> bytes]
    /\ UNCHANGED <<platform, stored>>

-----------------------------------------------------------------------------
(* The encodings *)

Encode(coding, bytes) == [bytes EXCEPT !.coding = <<coding>> \o @]
Decode(bytes) == [bytes EXCEPT !.coding = Tail(@)]
In(coding, bytes) == bytes # Missing /\ bytes.coding # <<>> /\ Head(bytes.coding) = coding

\* CryptUnprotectData refuses what is not a blob of CryptProtectData.
CryptUnprotectData(bytes) == IF In("dpapi", bytes) THEN Decode(bytes) ELSE Missing

\* Only base64 text is ever stored through libsecret.
fromBase64(bytes) == IF In("base64", bytes) THEN Decode(bytes) ELSE bytes

\* What write() stores.
Sealed(secret) ==
    LET plain == [secret |-> secret, coding |-> <<>>] IN
    IF platform = "windows" THEN Encode("base64", Encode("dpapi", plain))
                            ELSE Encode("base64", plain)

\* What read() makes of the stored value: on Windows it goes to DPAPI as it is.
Released(bytes) ==
    IF platform = "windows" THEN CryptUnprotectData(bytes) ELSE fromBase64(bytes)

-----------------------------------------------------------------------------
(* The operations.  Each may fail wherever the system's call may. *)

\* On Windows the settings' failure to store goes unnoticed: TRUE all the same.
write(name, secret) ==
    \/ platform # "none" /\ Keep(name, Sealed(secret))
    \/ platform = "windows" /\ Return(TRUE, Missing)
    \/ Return(FALSE, Missing)

\* An empty value is an error, except where the lookup of libsecret finds none.
read(name) ==
    \/ /\ platform # "none"
       /\ LET bytes == Released(stored[name]) IN
            Return(bytes # Missing \/ platform = "libsecret", bytes)
    \/ Return(FALSE, Missing)

\* On Windows the answer is always TRUE, on Linux it is FALSE when there is
\* nothing to remove.
remove(name) ==
    \/ platform = "windows" /\ Keep(name, Missing)
    \/ platform = "libsecret" /\ stored[name] # Missing /\ Keep(name, Missing)
    \/ platform = "windows" /\ Return(TRUE, Missing)
    \/ platform # "windows" /\ Return(FALSE, Missing)

VaultNext ==
    \E n \in Names :
        \/ \E s \in Secrets : write(n, s)
        \/ read(n)
        \/ remove(n)

VaultSpec == VaultInit /\ [][VaultNext]_vaultVars

-----------------------------------------------------------------------------

\* A secret that has been stored can be released: when no system call fails,
\* read() returns the secret that write() was given, not an empty value
\* (credential.cpp:17 with 26, and 19 with 28).
StoredReadsBack ==
    \A n \in Names : stored[n] # Missing =>
        Released(stored[n]) = [secret |-> stored[n].secret, coding |-> <<>>]

=============================================================================
