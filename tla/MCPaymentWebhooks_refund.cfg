\* Two concurrent handlers, one that may die; the Connect events of a charge,
\* its refund and its failure, under the fairness of Stripe's redelivery.
SPECIFICATION FairSpec
CONSTANTS
    p1 = p1
    s1 = s1
    s2 = s2
    Payments = {p1}
    Slots = {s1, s2}
    Subscribed = {"cc.charge.succeeded", "cc.failed", "cc.charge.refunded"}
    MaxRefunds = 1
    MaxFaults = 1
    NoEvent = NoEvent
INVARIANTS
    OneReversalPerReference
    AnsweredRefundIsReversed
PROPERTIES
    EveryEventIsAnswered
    CapturedIsCredited
CHECK_DEADLOCK FALSE
