SPECIFICATION CollectorSpec
CONSTANTS
  Valve = 5
  MaxDBus = 5
INVARIANTS
  OpenedMenusGetHidden
  MenusOpenInFull
PROPERTY
  ValveStopsOnlyLargeMenus
