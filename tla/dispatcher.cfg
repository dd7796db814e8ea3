CONSTANTS
    Main = Main
    Async = Async
    Nobody = Nobody
    Producer = {Main, Async, p1}
    Consumer = {Main, Async}
    Value = {market}
    MaxNodes = 3
    MaxHandlers = 2
SPECIFICATION Spec
INVARIANTS EachHandlerOnce
PROPERTIES Drained EventsHandled
