\* Deliveries of one alert, with two contents, two at a time.
SPECIFICATION FairSpec
CONSTANTS
    a1 = a1
    c1 = c1
    c2 = c2
    d1 = d1
    d2 = d2
    Alerts <- MCAlerts
    Contents <- MCContents
    Slots <- MCSlots
    Senders <- MCSenders
    LagModes = {TRUE, FALSE}
    BusRepeats = TRUE
    MaxInFlight = 1
    MaxStarts = 1
    Nothing = Nothing
INVARIANTS
    LateDeliveryIsADuplicate
PROPERTIES
    StoredIsPublished
    PublishedIsHandled
    ImplementsDelivery
