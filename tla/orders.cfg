SPECIFICATION MCSpec
CONSTANTS
    o1 = o1
    o2 = o2
    apex = apex
    wild = wild
    direct = direct
    aliased = aliased
    own = own
    alias = alias
    zone = zone
    aliasZone = aliasZone
    Server = Server
    Orders <- MCOrders
    Authorizations = {apex, wild}
    AuthorizationsOf <- MCAuthorizationsOf
    Default = direct
    Settings = {direct, aliased}
    Places = {own, alias}
    PlaceOf <- MCPlaceOf
    Zones = {zone, aliasZone}
    ZoneOf <- MCZoneOf
    Challengers <- MCChallengers
    MaxFaults = 1
CHECK_DEADLOCK FALSE
INVARIANTS
    LeftoversAreExplained
    UndisturbedOrdersSucceed
    AnswerIsTheOrders
