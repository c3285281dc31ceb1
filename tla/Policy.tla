------------------------------- MODULE Policy -------------------------------
(***************************************************************************)
(* The rules that admit members and transactions: the access of a member   *)
(* through a channel's chain of parents (amp.support.acc.go), and the      *)
(* windows of amp.support.attrs.go: grace, revocation, future skew, invite *)
(* expiry, and the defaults that stand in for unset limits.                *)
(***************************************************************************)
EXTENDS Integers, Sequences

CONSTANTS MaxACCParentDepth,    \* bound on the walk to the root
          DefaultGrace,         \* DefaultMaxGracePeriod
          DefaultWindow,        \* the default of the limit at hand
          PlainKit              \* the default crypto kit

NotAllowed == 0                 \* Access levels are ordered numbers
NoParent   == -1                \* ChannelEpoch.Parent is nil
NilChannel == 0                 \* the nil UID

-----------------------------------------------------------------------------
(* Access *)

AccessGrant(member, access) == [member |-> member, access |-> access]

\* ChannelEpoch: its parent and its grants, in order.
ChannelEpoch(parent, members, defaults) ==
    [Parent |-> parent, MemberGrants |-> members, DefaultGrants |-> defaults]

\* The first grant that names the member, else the first default, else nothing.
ResolveMemberGrants(member, epoch) ==
    LET named == {i \in DOMAIN epoch.MemberGrants : epoch.MemberGrants[i].member = member}
    IN  IF named # {} THEN epoch.MemberGrants[CHOOSE i \in named : \A j \in named : i <= j].access
        ELSE IF epoch.DefaultGrants # <<>> THEN epoch.DefaultGrants[1] ELSE NotAllowed

MinAccess(a, b) == IF a < b THEN a ELSE b

\* A missing ancestor fails closed.
MissingAncestor(level) == NotAllowed

\* The walk from depth levels up, with what is left of the access.
ParentWalk(member, epochs) ==
    LET Walk[s \in (0..MaxACCParentDepth) \X Int \X Nat] ==
            LET depth == s[1] parent == s[2] level == s[3]
            IN  CASE parent = NoParent -> level
                  [] parent # NoParent /\ depth >= MaxACCParentDepth -> NotAllowed
                  [] parent = NilChannel /\ depth < MaxACCParentDepth -> level
                  [] OTHER ->
                     IF parent \notin DOMAIN epochs THEN MissingAncestor(level)
                     ELSE Walk[<<depth + 1, epochs[parent].Parent,
                                 MinAccess(level, ResolveMemberGrants(member, epochs[parent]))>>]
    IN  Walk

\* ResolveAccess: epochs maps the channels that are known to their ChannelEpoch.
ResolveAccess(member, channel, epochs) ==
    IF channel \notin DOMAIN epochs THEN NotAllowed
    ELSE ParentWalk(member, epochs)[<<0, epochs[channel].Parent,
                                      ResolveMemberGrants(member, epochs[channel])>>]
HasAccess(member, required, channel, epochs) == ResolveAccess(member, channel, epochs) >= required

\* The channel n levels above one; a channel nobody knows has no parent.
Above(channel, epochs) ==
    LET Up[n \in 0..(MaxACCParentDepth + 1)] ==
            IF n = 0 THEN channel
            ELSE IF Up[n - 1] \in DOMAIN epochs THEN epochs[Up[n - 1]].Parent ELSE NoParent
    IN  Up

\* The chain of known channels that reaches the root within the bound, as its length;
\* 0 when there is none: a cycle, a missing ancestor, a chain that is too deep.
RootedLength(channel, epochs) ==
    LET up     == Above(channel, epochs)
        rooted == {n \in 1..(MaxACCParentDepth + 1) :
                      /\ \/ up[n] = NoParent
                         \/ up[n] = NilChannel /\ n <= MaxACCParentDepth
                      /\ \A m \in 0..(n - 1) : up[m] \in DOMAIN epochs}
    IN  IF rooted = {} THEN 0 ELSE CHOOSE n \in rooted : \A m \in rooted : n <= m

\* A member's access is the least grant on the chain from the channel to its root, and
\* none at all when the chain is cyclic, broken or deeper than the bound.
AccessLaw(member, channel, epochs) ==
    LET got    == ResolveAccess(member, channel, epochs)
        up     == Above(channel, epochs)
        len    == RootedLength(channel, epochs)
        levels == {ResolveMemberGrants(member, epochs[up[m]]) : m \in 0..(len - 1)}
    IN  IF len = 0 THEN got = NotAllowed
        ELSE got \in levels /\ \A l \in levels : got <= l

-----------------------------------------------------------------------------
(* Author-bound items *)

\* An item is its author's when its low word is the author's slot, or it is the author.
ItemBoundToAuthor(author, item, slotOf) == item.low = slotOf[author] \/ item.self = author

-----------------------------------------------------------------------------
(* Windows and defaults *)

NonZero(val, fallback) == IF val > 0 THEN val ELSE fallback
GracePeriod(grace) == IF grace <= 0 THEN DefaultGrace ELSE grace

\* A transaction of an earlier epoch, against the newer epoch.
TxWithinGracePeriod(tx, epoch, grace) == tx >= epoch \/ epoch - tx <= GracePeriod(grace)
\* A transaction of a member that was cut off.
WithinRevocationCliff(tx, cut, grace) == tx <= cut \/ tx - cut <= GracePeriod(grace)
\* A transaction stamped in the future.
WithinFutureSkew(tx, now, maxSkew) == tx - now <= (IF maxSkew <= 0 THEN DefaultWindow ELSE maxSkew)

\* VaultConfig, the windows read through helpers.
VaultConfig(quarantine, skew, rate, ttl, blob) ==
    [quarantine |-> quarantine, skew |-> skew, rate |-> rate, ttl |-> ttl, blob |-> blob]
\* QuarantineRetention, MaxFutureSkew, RateLimitWindow, BootstrapTTL: no config, or an
\* unset field, is the default.
VaultLimit(config, field) ==
    IF config = <<>> \/ config[field] <= 0 THEN DefaultWindow ELSE config[field]
\* BlobRateLimitWindow falls back on RateLimitWindow first.
BlobRateLimitWindow(config) ==
    LET blob == IF config = <<>> THEN 0 ELSE NonZero(config["blob"], config["rate"])
    IN  IF blob <= 0 THEN DefaultWindow ELSE blob

\* A PlanetInvite, as the sequence of its one expiry: no invite is expired, an expiry of
\* 0 or less never comes.
IsExpired(invite, now) == invite = <<>> \/ (invite[1] > 0 /\ now > invite[1])

EffectiveCryptoKit(kit) == IF kit = 0 THEN PlainKit ELSE kit
EffectiveAdmission(admission) == IF admission = "unset" THEN "invite" ELSE admission

\* Grace and cliff are one window read from its two ends, never empty; a transaction
\* accepted under it stays accepted with a longer grace, and time only closes it.
WindowLaw(t, u, grace) ==
    /\ TxWithinGracePeriod(t, u, grace) <=> WithinRevocationCliff(u, t, grace)
    /\ TxWithinGracePeriod(t, t, grace) /\ WithinFutureSkew(t, t, grace)
    /\ TxWithinGracePeriod(t, t + GracePeriod(grace), grace)
    /\ ~TxWithinGracePeriod(t, t + GracePeriod(grace) + 1, grace)
    /\ TxWithinGracePeriod(t, u + 1, grace) => TxWithinGracePeriod(t, u, grace)
    /\ IsExpired(<<t>>, u) => IsExpired(<<t>>, u + 1)
    /\ ~IsExpired(<<t>>, t)
    /\ \A blob, rate \in -1..2 :
          LET config == VaultConfig(t, u, rate, grace, blob)
          IN  BlobRateLimitWindow(config) > 0 /\ (blob > 0 => BlobRateLimitWindow(config) = blob)
              /\ (blob <= 0 => BlobRateLimitWindow(config) = VaultLimit(config, "rate"))
              /\ \A f \in {"quarantine", "skew", "rate", "ttl"} :
                    VaultLimit(config, f) > 0 /\ VaultLimit(config, f) \in {config[f], VaultLimit(<<>>, f)}
=============================================================================
