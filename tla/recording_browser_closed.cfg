SPECIFICATION MeasurementsSpec
CONSTANTS
    MaxEngines = 2
PROPERTIES RecordedBrowserStays
CHECK_DEADLOCK FALSE
