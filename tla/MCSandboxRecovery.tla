-------------------------- MODULE MCSandboxRecovery --------------------------
EXTENDS SandboxRecovery, TLC

CONSTANTS p1, p2, v1, v2, o1, o2, o3

\* One pod with two orders on one venue and a third on another.
OnePod == {p1}
OwnerOnePod == o1 :> p1 @@ o2 :> p1 @@ o3 :> p1
VenueOnePod == o1 :> v1 @@ o2 :> v2 @@ o3 :> v1
TraderOnePod == p1 :> "TINO-001"

\* Two pods on one venue, both left at the default trader id.
TwoPods == {p1, p2}
OwnerTwoPods == o1 :> p1 @@ o3 :> p2
VenueTwoPods == o1 :> v1 @@ o3 :> v1
DefaultTraders == p1 :> "TINO-001" @@ p2 :> "TINO-001"

Settings(persist, cache, flush, listed) ==
    [persist |-> persist, cache |-> cache, flush |-> flush, listed |-> listed]
Documented == Settings(TRUE, TRUE, "default", Orders)
\* As documented; ephemeral; ephemeral without a flush; persist without a cache;
\* persist with a flush; and an instrument that is no longer listed.
ManyConfigs ==
    {Documented, Settings(FALSE, TRUE, "default", Orders),
     Settings(FALSE, TRUE, "false", Orders), Settings(TRUE, FALSE, "default", Orders),
     Settings(TRUE, TRUE, "true", Orders), Settings(TRUE, TRUE, "default", Orders \ {o1})}
DocumentedOnly == {Documented}
=============================================================================
