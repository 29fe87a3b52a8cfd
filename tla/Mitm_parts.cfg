\* The same bodies; two attachments of one request may go by the same name.
CONSTANTS
    None = None
    email = email card = card memo = memo name = name id = id
    Exchanges = {e1}
    Hosts <- SomeHosts
    Baked <- SomeBaked
    BakedSigns <- SomeSigning
    Static <- Operator
    Feeds <- SomeFeeds
    Settings <- SomeSettings
    Bodies <- SomeBodies
    Replies <- SomeReplies
    Caller <- Someone
SPECIFICATION Spec
INVARIANT AttachmentsRewritten
