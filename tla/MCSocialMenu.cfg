SPECIFICATION Spec
CONSTANTS
    facebook = facebook
    mail = mail
    web = web
    NoLink = NoLink
    Links <- MCLinks
    MainOrder <- MCMainOrder
    MenuOrder <- MCMenuOrder
INVARIANTS
    TypeOK
    OnlyShortAnswersLoseRows
    TapOpensLinkShown
    OneCopyPerQuery
