SPECIFICATION FetchSpec
CONSTANTS
    GenericPages <- MCGenericPages
    FlipkartPages <- MCFlipkartPages
    AmazonPages <- MCAmazonPages
INVARIANTS StockIsEvidence NothingLeftOpen
