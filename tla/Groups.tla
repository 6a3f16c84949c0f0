------------------------------- MODULE Groups -------------------------------
(***************************************************************************)
(* The keys of an encrypted group (web/group-manager.ts): initialising the  *)
(* group's encryption and rotating its key, called as often as the page     *)
(* likes, across the awaits in them.                                        *)
(*                                                                          *)
(* GroupInfo and GroupEncryptionContext are objects: a call goes on with    *)
(* the one it fetched at its start, whether the maps still hold it or not.  *)
(* Awaits that only pass through resolved promises do not let another event *)
(* in.  Left out: the copies of the key for the members, which are          *)
(* placeholders, and saveEncryptionContext's write, which fails because     *)
(* JSON has no 64-bit integers.                                             *)
(***************************************************************************)
EXTENDS Integers, FiniteSets

CONSTANTS GrCalls,         \* calls of the page
          MaxInfos,        \* bound on the GroupInfo objects
          MaxContexts      \* bound on the context objects

ASSUME GrAssumption == MaxInfos \in Nat /\ MaxContexts \in Nat /\ IsFiniteSet(GrCalls)

VARIABLES groups,              \* the GroupInfo in the map, or 0
          keyVersionOf,        \* encryptionKeyVersion of every GroupInfo
          groupMembers,        \* what the cached list grants, or "none"
          encryptionContexts,  \* the context in the map, or 0
          contexts,            \* every context object
          nctx, ninfo, nkey,   \* objects and keys so far
          call,                \* the page's calls
          keyAt,               \* context, version |-> key, as they came
          overlapped           \* contexts on which two rotations overlapped

grvars == <<groups, keyVersionOf, groupMembers, encryptionContexts, contexts, nctx, ninfo, nkey, call,
            keyAt, overlapped>>

NoContext == [keyVersion |-> 0, encryptionKey |-> 0, historicalKeys |-> {}]
NoCall == [pc |-> "none", ctx |-> 0, info |-> 0]

GrInit ==
    /\ groups = 0 /\ ninfo = 0 /\ keyVersionOf = [i \in 1..MaxInfos |-> 0]
    /\ groupMembers = "none"
    /\ encryptionContexts = 0 /\ contexts = [o \in 1..MaxContexts |-> NoContext] /\ nctx = 0
    /\ nkey = 0 /\ call = [c \in GrCalls |-> NoCall]
    /\ keyAt = {} /\ overlapped = {}

(* handleGroupInfoResponse: a new object takes the place of the old one. *)
InfoResponse ==
    /\ ninfo < MaxInfos
    /\ ninfo' = ninfo + 1 /\ groups' = ninfo + 1
    /\ UNCHANGED <<keyVersionOf, groupMembers, encryptionContexts, contexts, nctx, nkey, call, keyAt,
                   overlapped>>

(* handleGroupMembersResponse: members are added or replaced, never removed. *)
MembersResponse(role) ==
    /\ groupMembers' = role
    /\ UNCHANGED <<groups, keyVersionOf, encryptionContexts, contexts, nctx, ninfo, nkey, call, keyAt,
                   overlapped>>

(* hasPermission(MANAGE_ENCRYPTION), by the user's role or own permissions.
   Without a cached list the members are asked for, and looked up when the
   answer is in. *)
HasPermission == groupMembers = "permitted"
Cached == groupMembers # "none"

-----------------------------------------------------------------------------
(* initializeGroupEncryption, createEncryptionContext *)

InitializeStarts(c) ==
    /\ call[c].pc = "none" /\ groups # 0 /\ (Cached => HasPermission)
    /\ call' = [call EXCEPT ![c] = [pc |-> IF Cached THEN "creating" ELSE "asking_create",
                                    ctx |-> 0, info |-> groups]]
    /\ UNCHANGED <<groups, keyVersionOf, groupMembers, encryptionContexts, contexts, nctx, ninfo, nkey,
                   keyAt, overlapped>>

InitializePermitted(c) ==
    /\ call[c].pc = "asking_create" /\ HasPermission
    /\ call' = [call EXCEPT ![c].pc = "creating"]
    /\ UNCHANGED <<groups, keyVersionOf, groupMembers, encryptionContexts, contexts, nctx, ninfo, nkey,
                   keyAt, overlapped>>

(* The key is there: a new context at version 1. *)
ContextCreated(c) ==
    /\ call[c].pc = "creating" /\ nctx < MaxContexts
    /\ nkey' = nkey + 1 /\ nctx' = nctx + 1
    /\ contexts' = [contexts EXCEPT ![nctx + 1] =
                      [keyVersion |-> 1, encryptionKey |-> nkey + 1, historicalKeys |-> {}]]
    /\ keyAt' = keyAt \cup {<<nctx + 1, 1, nkey + 1>>}
    /\ encryptionContexts' = nctx + 1
    /\ keyVersionOf' = [keyVersionOf EXCEPT ![call[c].info] = 1]
    /\ call' = [call EXCEPT ![c].pc = "ended"]
    /\ UNCHANGED <<groups, groupMembers, ninfo, overlapped>>

-----------------------------------------------------------------------------
(* rotateGroupEncryptionKey *)

Rotating(o) == {c \in GrCalls : call[c].ctx = o /\ call[c].pc \in {"generating", "reencrypting", "saving"}}
Archive(k) == [k EXCEPT !.historicalKeys =
                 {h \in @ : h[1] # k.keyVersion} \cup {<<k.keyVersion, k.encryptionKey>>}]

(* The old key is archived, then a new one is asked for. *)
ArchiveOldKey(c, o) ==
    /\ contexts' = [contexts EXCEPT ![o] = Archive(@)]
    /\ call' = [call EXCEPT ![c] = [pc |-> "generating", ctx |-> o, info |-> 0]]
    /\ overlapped' = IF Rotating(o) = {} THEN overlapped ELSE overlapped \cup {o}

RotateStarts(c) ==
    /\ call[c].pc = "none" /\ encryptionContexts # 0 /\ (Cached => HasPermission)
    /\ IF Cached THEN ArchiveOldKey(c, encryptionContexts)
       ELSE /\ call' = [call EXCEPT ![c] = [pc |-> "asking_rotate", ctx |-> encryptionContexts, info |-> 0]]
            /\ UNCHANGED <<contexts, overlapped>>
    /\ UNCHANGED <<groups, keyVersionOf, groupMembers, encryptionContexts, nctx, ninfo, nkey, keyAt>>

RotatePermitted(c) ==
    /\ call[c].pc = "asking_rotate" /\ HasPermission
    /\ ArchiveOldKey(c, call[c].ctx)
    /\ UNCHANGED <<groups, keyVersionOf, groupMembers, encryptionContexts, nctx, ninfo, nkey, keyAt>>

(* Mutation variant: the version follows the ones archived before the await. *)
NextVersionArchived(c) ==
    1 + Cardinality({h[1] : h \in contexts[call[c].ctx].historicalKeys})

NextVersion(c) == contexts[call[c].ctx].keyVersion + 1

(* Stored in the map again, whatever is there now. *)
Store(c) ==
    /\ encryptionContexts' = call[c].ctx
    /\ call' = [call EXCEPT ![c].pc = "saving"]

(* The key is there; reencryptMemberKeys asks the server for the members only
   if they are not cached. *)
RotateGenerated(c) ==
    LET o == call[c].ctx IN
    /\ call[c].pc = "generating"
    /\ nkey' = nkey + 1
    /\ contexts' = [contexts EXCEPT ![o].keyVersion = NextVersion(c), ![o].encryptionKey = nkey + 1]
    /\ keyAt' = keyAt \cup {<<o, NextVersion(c), nkey + 1>>}
    /\ IF Cached THEN Store(c)
       ELSE call' = [call EXCEPT ![c].pc = "reencrypting"] /\ UNCHANGED encryptionContexts
    /\ UNCHANGED <<groups, keyVersionOf, groupMembers, nctx, ninfo, overlapped>>

RotateReencrypted(c) ==
    /\ call[c].pc = "reencrypting" /\ Store(c)
    /\ UNCHANGED <<groups, keyVersionOf, groupMembers, contexts, nctx, ninfo, nkey, keyAt, overlapped>>

(* The key was exported; the GroupInfo in the map gets the version. *)
RotateSaved(c) ==
    /\ call[c].pc = "saving"
    /\ keyVersionOf' = IF groups = 0 THEN keyVersionOf
                       ELSE [keyVersionOf EXCEPT ![groups] = contexts[call[c].ctx].keyVersion]
    /\ call' = [call EXCEPT ![c].pc = "ended"]
    /\ UNCHANGED <<groups, groupMembers, encryptionContexts, contexts, nctx, ninfo, nkey, keyAt, overlapped>>

(* Either call ends with an error: no permission once the members are in or
   could not be had, or no key.  What was archived before stays. *)
CallFails(c) ==
    /\ \/ call[c].pc \in {"asking_create", "asking_rotate"} /\ ~HasPermission
       \/ call[c].pc \in {"creating", "generating"}
    /\ call' = [call EXCEPT ![c].pc = "ended"]
    /\ UNCHANGED <<groups, keyVersionOf, groupMembers, encryptionContexts, contexts, nctx, ninfo, nkey,
                   keyAt, overlapped>>

(* destroy(): the maps are emptied; calls go on. *)
DestroyManager ==
    /\ groups # 0 \/ groupMembers # "none" \/ encryptionContexts # 0
    /\ groups' = 0 /\ groupMembers' = "none" /\ encryptionContexts' = 0
    /\ UNCHANGED <<keyVersionOf, contexts, nctx, ninfo, nkey, call, keyAt, overlapped>>

GrNext ==
    \/ InfoResponse \/ DestroyManager
    \/ \E role \in {"permitted", "refused"} : MembersResponse(role)
    \/ \E c \in GrCalls : \/ InitializeStarts(c) \/ InitializePermitted(c) \/ ContextCreated(c)
                          \/ RotateStarts(c) \/ RotatePermitted(c) \/ RotateGenerated(c)
                          \/ RotateReencrypted(c) \/ RotateSaved(c) \/ CallFails(c)

GrSpec == GrInit /\ [][GrNext]_grvars

-----------------------------------------------------------------------------
(* Properties *)

(* A message names the version of the key it was encrypted with.  What is
   archived under a version is the key that had it; every older version is
   archived, unless rotations of the group overlapped; and with nothing under
   way the version the group announces is the one of its key, as long as there
   was one GroupInfo and one context (group-manager.ts:1284-1312, 1358-1407). *)
KeysAgree ==
    /\ \A o \in 1..nctx :
         LET k == contexts[o] IN
         /\ \A h \in k.historicalKeys : {e \in keyAt : e[1] = o /\ e[2] = h[1]} = {<<o, h[1], h[2]>>}
         /\ o \notin overlapped =>
              \A v \in 1..(k.keyVersion - 1) : \E h \in k.historicalKeys : h[1] = v
    /\ groups # 0 /\ ninfo = 1 /\ nctx = 1 /\ encryptionContexts = 1
         /\ (\A c \in GrCalls : call[c].pc \in {"none", "ended"})
       => keyVersionOf[groups] = contexts[1].keyVersion
=============================================================================
